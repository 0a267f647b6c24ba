------------------------ MODULE ReceiverStoreProofs ------------------------
(***************************************************************************)
(* Proofs about what Receiver stores, for every value of the constants in  *)
(* which uploads to one path do not overlap (Apart).                       *)
(*                                                                         *)
(* The argument: at most one upload of a path is in progress (Exclusive),  *)
(* different paths hold different files (PathInv), so that a goroutine     *)
(* that stores its file, fails or is checked is the only one to change     *)
(* what its path holds (UploadInv), and nobody changes a path without      *)
(* becoming its latest upload (KeptInv).  The second part shows from this  *)
(* that Receiver implements Store.                                         *)
(***************************************************************************)
EXTENDS ReceiverProofs

\* No two uploads to one path overlap: one does not begin while the other is
\* in progress, or there are none, as within one run of SendDir.
Apart == ~Overlap \/ \A u, v \in Uploads : PathOf[u] = PathOf[v] => u = v

Exclusive ==
  \A u, v \in Uploads :
    PathOf[u] = PathOf[v] /\ InProgress(u) /\ InProgress(v) => u = v

PathInv ==
  \A p \in Paths :
    /\ dir[p] # None => dir[p] = p \/ (dir[p] \in Uploads /\ PathOf[dir[p]] = p)
    /\ latest[p] # None => PathOf[latest[p]] = p

KeptInv ==
  \A p \in Paths : latest[p] = None =>
    IF Before[p] = None THEN dir[p] = None ELSE dir[p] = p /\ file[p] = Before[p]

BeforeCopy == {"none"} \cup (Storing \ Writing)

UploadInv(u) ==
  LET p == PathOf[u] IN
    /\ pc[u] \in BeforeCopy => got[u] = 0
    /\ pc[u] \in Writing =>
         latest[p] = u /\ dir[p] # None /\ fd[u] = dir[p] /\ file[dir[p]] = Received(u)
    /\ pc[u] = "verify" \/ Checked(u) => got[u] = Len(Body[u])
    /\ latest[p] = u /\ Checked(u) /\ ChecksumOK(u) =>
         dir[p] # None /\ file[dir[p]] = Body[u]
    /\ latest[p] = u /\ (pc[u] = "failed" \/ (Checked(u) /\ ~ChecksumOK(u))) =>
         dir[p] = None
    /\ pc[u] = "skip" => dir[p] # None /\ Digest(file[dir[p]]) = hash[u]

StoreInv == Exclusive /\ PathInv /\ KeptInv /\ \A u \in Uploads : UploadInv(u)

-----------------------------------------------------------------------------
(***************************************************************************)
(* At most one upload of a path is in progress.                            *)
(***************************************************************************)
LEMMA NotStarted ==
  ASSUME Exclusive, \A u \in Uploads : InProgress(u)' => InProgress(u)
  PROVE  Exclusive'
  BY DEF Exclusive

LEMMA ExclusiveStep ==
  Apart /\ TypeInv /\ AcceptInv /\ Exclusive /\ [Next]_vars => Exclusive'
  <1>a. CASE \A u, v \in Uploads : PathOf[u] = PathOf[v] => u = v
    BY <1>a DEF Exclusive
  <1> SUFFICES ASSUME ~Overlap, TypeInv, AcceptInv, Exclusive, [Next]_vars PROVE Exclusive'
    BY <1>a DEF Apart
  <1>0. /\ conn \in [Conns -> {"new", "open", "closed"}]
        /\ sender \in [Uploads -> SenderStates]
        /\ pc \in [Uploads -> DataStates]
        /\ ConnOf \in [Uploads -> Conns]
    BY ReceiverAssumption DEF ReceiverAssumption, TypeInv, TypeOK
  <1> USE DEF table
  <1>1. ASSUME NEW c \in Conns, Connect(c) PROVE Exclusive'
    <2>1. ASSUME NEW u \in Uploads, InProgress(u)' PROVE InProgress(u)
      <3>1. CASE ConnOf[u] = c
        <4>1. sender[u] = "idle" /\ sender' = sender /\ pc' = pc
          BY <1>1, <3>1 DEF Connect, AcceptInv, SenderInv
        <4> QED BY <4>1, <2>1 DEF InProgress
      <3>2. CASE ConnOf[u] # c
        BY <1>0, <1>1, <2>1, <3>2 DEF Connect, InProgress, Open
      <3> QED BY <3>1, <3>2
    <2> QED BY <2>1, NotStarted
  <1>2. ASSUME NEW c \in Conns, Disconnect(c) PROVE Exclusive'
    <2>1. \A u \in Uploads : InProgress(u)' => InProgress(u)
      BY <1>0, <1>2 DEF Disconnect, InProgress, Open
    <2> QED BY <2>1, NotStarted
  <1>3. ASSUME NEW c \in Conns, Accept(c) PROVE Exclusive'
    <2>1. PICK v \in Uploads :
            /\ ConnOf[v] = c
            /\ \/ pc' = pc
               \/ /\ pc[v] = "none" /\ pc' = [pc EXCEPT ![v] = "header"]
                  /\ sender[v] \in {"sending", "stalled"}
      BY <1>3, AcceptAccept
    <2>2. conn[c] = "open" /\ UNCHANGED <<conn, sender>>
      BY <1>3 DEF Accept
    <2>3. \A u \in Uploads : InProgress(u)' => InProgress(u)
      BY <1>0, <2>1, <2>2 DEF InProgress, Open
    <2> QED BY <2>3, NotStarted
  <1>4. ASSUME NEW u \in Uploads, OpenControl(u) PROVE Exclusive'
    <2>1. /\ UNCHANGED <<conn, pc>> /\ \A v \in Uploads \ {u} : sender'[v] = sender[v]
          /\ \A v \in Uploads : PathOf[v] = PathOf[u] => ~InProgress(v)
      BY <1>0, <1>4 DEF OpenControl
    <2>2. \A v \in Uploads \ {u} : InProgress(v)' => InProgress(v)
      BY <2>1 DEF InProgress, Open
    <2> QED BY <2>1, <2>2 DEF Exclusive
  <1>5. ASSUME NEW u \in Uploads,
               WriteTransferStart(u) \/ OpenData(u) \/ GiveUp(u) \/ WriteHeader(u) \/ Stall(u)
        PROVE  Exclusive'
    <2>1. UNCHANGED <<conn, pc>> /\ \A v \in Uploads \ {u} : sender'[v] = sender[v]
      BY <1>0, <1>5 DEF WriteTransferStart, OpenData, GiveUp, WriteHeader, Stall
    <2>2. sender[u] \notin {"idle", "gaveup"}
      BY <1>5 DEF WriteTransferStart, OpenData, GiveUp, WriteHeader, Stall
    <2>3. \A v \in Uploads : InProgress(v)' => InProgress(v)
      BY <2>1, <2>2 DEF InProgress, Open
    <2> QED BY <2>3, NotStarted
  <1>6. ASSUME NEW u \in Uploads, Control(u) \/ DeadlinePasses(u) PROVE Exclusive'
    <2>1. UNCHANGED <<conn, sender, pc>>
      BY <1>6 DEF Control, PutEntry, ControlLost, PutNotify, DeadlinePasses, net
    <2> QED BY <2>1, NotStarted DEF InProgress, Open
  <1>7. ASSUME NEW u \in Uploads, Data(u) PROVE Exclusive'
    <2>1. UNCHANGED <<conn, sender>> /\ \A v \in Uploads \ {u} : pc'[v] = pc[v]
      BY <1>7, DataMoves
    <2>2. InProgress(u)
      BY <1>7, DataMoves DEF InProgress
    <2>3. \A v \in Uploads : InProgress(v)' => InProgress(v)
      BY <2>1, <2>2 DEF InProgress, Open
    <2> QED BY <2>3, NotStarted
  <1>8. CASE Crash
    <2>1. \A u \in Uploads : InProgress(u)' => InProgress(u)
      BY <1>0, <1>8 DEF Crash, InProgress, Open, Storing, Replying
    <2> QED BY <2>1, NotStarted
  <1>9. CASE UNCHANGED vars
    BY <1>9, NotStarted DEF vars, net, InProgress, Open
  <1> QED BY <1>1, <1>2, <1>3, <1>4, <1>5, <1>6, <1>7, <1>8, <1>9 DEF Next, Sender

-----------------------------------------------------------------------------
(***************************************************************************)
(* What the paths hold.                                                    *)
(***************************************************************************)

\* Different paths hold different files.
LEMMA OtherFile ==
  ASSUME PathInv, NEW p \in Paths, NEW q \in Paths, dir[p] # None, dir[p] = dir[q]
  PROVE  p = q
  BY ReceiverAssumption DEF ReceiverAssumption, PathInv

\* One more block of a content.
LEMMA NextBlock ==
  ASSUME NEW b \in Contents, NEW n \in Nat, n < Len(b)
  PROVE  WriteAt(SubSeq(b, 1, n), n + 1, b[n + 1]) = SubSeq(b, 1, n + 1)
  <1> DEFINE s == SubSeq(b, 1, n)
             t == SubSeq(b, 1, n + 1)
  <1>1. /\ s \in Seq(Blocks) /\ Len(s) = n /\ \A j \in 1..n : s[j] = b[j]
        /\ t \in Seq(Blocks) /\ Len(t) = n + 1 /\ \A j \in 1..(n + 1) : t[j] = b[j]
    BY DEF Contents
  <1>2. DOMAIN s = 1..n /\ DOMAIN t = 1..(n + 1)
    BY <1>1
  <1>3. DOMAIN s \cup 1..(n + 1) = 1..(n + 1)
    BY <1>2
  <1> HIDE DEF s, t
  <1>4. \A j \in 1..(n + 1) :
          (IF j = n + 1 THEN b[n + 1] ELSE IF j \in DOMAIN s THEN s[j] ELSE None) = t[j]
    BY <1>1, <1>2
  <1>5. WriteAt(s, n + 1, b[n + 1]) = [j \in 1..(n + 1) |-> t[j]]
    BY <1>3, <1>4 DEF WriteAt
  <1>6. t = [j \in 1..(n + 1) |-> t[j]]
    BY <1>1, <1>2
  <1> QED BY <1>5, <1>6 DEF s, t

\* A step that leaves the directory and the data goroutines of others alone:
\* what it means for the upload v of another goroutine.
LEMMA UploadQuiet ==
  ASSUME NEW v \in Uploads, UploadInv(v), UNCHANGED disk,
         UNCHANGED <<pc[v], got[v], hash[v], fd[v]>>
  PROVE  UploadInv(v)'
  BY DEF UploadInv, Checked, ChecksumOK, Received, disk

\* A step of the goroutine of u that opens, writes or removes the file of its
\* path, and is then the latest upload of that path.
ChangesPath(u) ==
  /\ InProgress(u)
  /\ latest'[PathOf[u]] = u
  /\ latest[PathOf[u]] = u \/ pc[u] = "create"
  /\ \A v \in Uploads \ {u} : UNCHANGED <<pc[v], got[v], hash[v], fd[v]>>
  /\ \A q \in Paths \ {PathOf[u]} :
       /\ UNCHANGED <<dir[q], latest[q]>>
       /\ dir[q] # None => UNCHANGED file[dir[q]]

LEMMA UploadOther ==
  ASSUME Exclusive, \A w \in Uploads : UploadInv(w),
         NEW u \in Uploads, ChangesPath(u), NEW v \in Uploads \ {u}
  PROVE  UploadInv(v)'
  <1>1. PathOf[u] \in Paths /\ PathOf[v] \in Paths
    BY ReceiverAssumption DEF ReceiverAssumption
  <1>2. UNCHANGED <<pc[v], got[v], hash[v], fd[v]>> /\ UploadInv(v)
    BY DEF ChangesPath
  <1>3. CASE PathOf[v] # PathOf[u]
    <2> DEFINE p == PathOf[v]
    <2>1. /\ UNCHANGED <<dir[p], latest[p]>>
          /\ dir[p] # None => UNCHANGED file[dir[p]]
      BY <1>1, <1>3 DEF ChangesPath
    <2> HIDE DEF p
    <2>2. p = PathOf[v]
      BY DEF p
    <2> QED BY <1>2, <2>1, <2>2 DEF UploadInv, Checked, ChecksumOK, Received
  <1>4. CASE PathOf[v] = PathOf[u]
    <2>1. pc[v] \notin Storing \cup Replying
      BY <1>4 DEF Exclusive, InProgress, ChangesPath
    <2>2. latest'[PathOf[v]] # v
      BY <1>4 DEF ChangesPath
    <2>3. pc'[v] = "none" => got'[v] = 0
      BY <1>2 DEF UploadInv, BeforeCopy
    <2>4. Checked(v)' => got'[v] = Len(Body[v])
      BY <1>2 DEF UploadInv, Checked
    <2>5. pc'[v] \notin Storing \cup Replying
      BY <1>2, <2>1
    <2> QED BY <2>2, <2>3, <2>4, <2>5 DEF UploadInv, BeforeCopy, Writing, Storing
  <1> QED BY <1>3, <1>4

\* Nor does it matter to the paths no upload has opened.
LEMMA KeptOther ==
  ASSUME PathInv, KeptInv, NEW u \in Uploads, ChangesPath(u)
  PROVE  KeptInv'
  <1> SUFFICES ASSUME NEW q \in Paths, latest'[q] = None
               PROVE  IF Before[q] = None THEN dir'[q] = None
                      ELSE dir'[q] = q /\ file'[q] = Before[q]
    BY DEF KeptInv
  <1>1. q # PathOf[u]
    BY ReceiverAssumption DEF ReceiverAssumption, ChangesPath
  <1>2. /\ UNCHANGED <<dir[q], latest[q]>>
        /\ dir[q] # None => UNCHANGED file[dir[q]]
    BY <1>1 DEF ChangesPath
  <1>3. IF Before[q] = None THEN dir[q] = None ELSE dir[q] = q /\ file[q] = Before[q]
    BY <1>2 DEF KeptInv
  <1>4. q # None
    BY ReceiverAssumption DEF ReceiverAssumption
  <1> QED BY <1>2, <1>3, <1>4

\* The four steps that change a path: what each does, then to its own upload.
LEMMA CreateStep ==
  ASSUME TypeInv, StoreInv, NEW u \in Uploads, CreateFile(u)
  PROVE  ChangesPath(u) /\ PathInv' /\ UploadInv(u)'
  <1> DEFINE p == PathOf[u]
             f == IF dir[p] = None THEN u ELSE dir[p]
  <1>0. /\ pc \in [Uploads -> DataStates] /\ fd \in [Uploads -> Files \cup {None}]
        /\ dir \in [Paths -> Files \cup {None}] /\ latest \in [Paths -> Uploads \cup {None}]
        /\ file \in [Files -> Seq(Blocks \cup {None})]
        /\ p \in Paths /\ u # None
    BY ReceiverAssumption DEF ReceiverAssumption, TypeInv, TypeOK
  <1>1. pc[u] = "create" /\ pc' = [pc EXCEPT ![u] = "copy"]
    BY DEF CreateFile, Goto
  <1>2. /\ dir' = [dir EXCEPT ![p] = f] /\ file' = [file EXCEPT ![f] = << >>]
        /\ fd' = [fd EXCEPT ![u] = f] /\ latest' = [latest EXCEPT ![p] = u]
        /\ UNCHANGED <<hash, got>>
    BY DEF CreateFile
  <1>3. f \in Files /\ f # None
    BY <1>0 DEF Files
  <1>4. ASSUME NEW q \in Paths \ {p}, dir[q] # None PROVE dir[q] # f
    <2>1. CASE dir[p] # None
      BY <2>1, <1>0, <1>4, OtherFile DEF StoreInv
    <2>2. CASE dir[p] = None
      BY <2>2, <1>4, ReceiverAssumption DEF ReceiverAssumption, StoreInv, PathInv
    <2> QED BY <2>1, <2>2
  <1>5. ChangesPath(u)
    <2>1. \A q \in Paths \ {p} : dir[q] # None => file'[dir[q]] = file[dir[q]]
      BY <1>0, <1>2, <1>3, <1>4
    <2>2. \A q \in Paths \ {p} : UNCHANGED <<dir[q], latest[q]>>
      BY <1>0, <1>2
    <2>3. \A v \in Uploads \ {u} : UNCHANGED <<pc[v], got[v], hash[v], fd[v]>>
      BY <1>0, <1>1, <1>2
    <2>4. InProgress(u)
      BY <1>1 DEF InProgress, Storing
    <2> QED BY <1>0, <1>1, <1>2, <2>1, <2>2, <2>3, <2>4 DEF ChangesPath
  <1> HIDE DEF f
  <1>6. dir'[p] = f /\ latest'[p] = u /\ fd'[u] = f /\ file'[f] = << >> /\ pc'[u] = "copy"
    BY <1>0, <1>1, <1>2, <1>3
  <1>7. PathInv'
    <2>1. f = p \/ (f \in Uploads /\ PathOf[f] = p)
      BY <1>0 DEF f, StoreInv, PathInv
    <2> QED BY <1>5, <1>6, <2>1 DEF ChangesPath, StoreInv, PathInv
  <1>8. UploadInv(u)'
    <2>1. got[u] = 0
      BY <1>1 DEF StoreInv, UploadInv, BeforeCopy, Storing, Writing
    <2>2. SubSeq(Body[u], 1, 0) = << >>
      BY ReceiverAssumption DEF ReceiverAssumption, Contents
    <2>3. Received(u)' = << >>
      BY <1>2, <2>1, <2>2 DEF Received
    <2> QED BY <1>3, <1>6, <2>3
            DEF UploadInv, BeforeCopy, Writing, Storing, Checked, Replying
  <1> QED BY <1>5, <1>7, <1>8

LEMMA BlockStep ==
  ASSUME TypeInv, StoreInv, NEW u \in Uploads, CopyBlock(u)
  PROVE  ChangesPath(u) /\ PathInv' /\ UploadInv(u)'
  <1> DEFINE p == PathOf[u]
             f == fd[u]
  <1>0. /\ file \in [Files -> Seq(Blocks \cup {None})] /\ got \in [Uploads -> Nat]
        /\ f \in Files \cup {None} /\ None \notin Files
        /\ p \in Paths /\ u # None /\ Body[u] \in Contents
    BY ReceiverAssumption DEF ReceiverAssumption, TypeInv, TypeOK, Files
  <1>1. /\ pc[u] = "copy" /\ got[u] < Len(Body[u])
        /\ got' = [got EXCEPT ![u] = @ + 1]
        /\ file' = [file EXCEPT ![f] = WriteAt(@, got[u] + 1, Body[u][got[u] + 1])]
        /\ UNCHANGED <<pc, hash, fd, dir, latest>>
    BY DEF CopyBlock
  <1>2. latest[p] = u /\ dir[p] # None /\ f = dir[p] /\ file[f] = Received(u)
    BY <1>1 DEF StoreInv, UploadInv, Writing
  <1>3. got'[u] = got[u] + 1 /\ Received(u)' = SubSeq(Body[u], 1, got[u] + 1)
    BY <1>0, <1>1 DEF Received
  <1>4. file'[f] = Received(u)'
    <2>1. WriteAt(Received(u), got[u] + 1, Body[u][got[u] + 1]) = SubSeq(Body[u], 1, got[u] + 1)
      BY <1>0, <1>1, NextBlock DEF Received
    <2> QED BY <1>0, <1>1, <1>2, <1>3, <2>1
  <1>5. ChangesPath(u)
    <2>1. \A q \in Paths \ {p} : dir[q] # None => file'[dir[q]] = file[dir[q]]
      <3>1. \A q \in Paths \ {p} : dir[q] # None => dir[q] # f
        BY <1>0, <1>2, OtherFile DEF StoreInv
      <3>2. \A g \in Files \ {f} : file'[g] = file[g]
        BY <1>0, <1>1
      <3>3. \A q \in Paths : dir[q] # None => dir[q] \in Files
        BY DEF TypeInv, TypeOK
      <3> QED BY <3>1, <3>2, <3>3
    <2>2. \A v \in Uploads \ {u} : UNCHANGED <<pc[v], got[v], hash[v], fd[v]>>
      BY <1>0, <1>1
    <2>3. InProgress(u)
      BY <1>1 DEF InProgress, Storing
    <2> QED BY <1>1, <1>2, <2>1, <2>2, <2>3 DEF ChangesPath
  <1>6. PathInv'
    BY <1>1 DEF StoreInv, PathInv
  <1> HIDE DEF f
  <1>7. UploadInv(u)'
    BY <1>1, <1>2, <1>4 DEF UploadInv, BeforeCopy, Writing, Storing, Checked, Replying, f
  <1> QED BY <1>5, <1>6, <1>7

LEMMA RemoveStep ==
  ASSUME TypeInv, StoreInv, NEW u \in Uploads, RemoveFile(u)
  PROVE  ChangesPath(u) /\ PathInv' /\ UploadInv(u)'
  <1> DEFINE p == PathOf[u]
  <1>0. /\ pc \in [Uploads -> DataStates] /\ dir \in [Paths -> Files \cup {None}]
        /\ p \in Paths /\ u # None
    BY ReceiverAssumption DEF ReceiverAssumption, TypeInv, TypeOK
  <1>1. /\ pc[u] = "remove" /\ pc' = [pc EXCEPT ![u] = "failed"]
        /\ dir' = [dir EXCEPT ![p] = None]
        /\ UNCHANGED <<hash, got, fd, file, latest>>
    BY DEF RemoveFile, Goto, local
  <1>2. latest[p] = u
    BY <1>1 DEF StoreInv, UploadInv, Writing
  <1>3. dir'[p] = None /\ pc'[u] = "failed" /\ \A q \in Paths \ {p} : dir'[q] = dir[q]
    BY <1>0, <1>1
  <1>4. ChangesPath(u)
    <2>1. \A v \in Uploads \ {u} : UNCHANGED <<pc[v], got[v], hash[v], fd[v]>>
      BY <1>0, <1>1
    <2>2. InProgress(u)
      BY <1>1 DEF InProgress, Storing
    <2> QED BY <1>1, <1>2, <1>3, <2>1, <2>2 DEF ChangesPath
  <1>5. PathInv'
    BY <1>1, <1>3 DEF StoreInv, PathInv
  <1>6. UploadInv(u)'
    BY <1>3 DEF UploadInv, BeforeCopy, Writing, Storing, Checked, Replying
  <1> QED BY <1>4, <1>5, <1>6

LEMMA VerifyStep ==
  ASSUME TypeInv, StoreInv, NEW u \in Uploads, VerifyHash(u)
  PROVE  ChangesPath(u) /\ PathInv' /\ UploadInv(u)'
  <1> DEFINE p == PathOf[u]
  <1>0. /\ pc \in [Uploads -> DataStates] /\ dir \in [Paths -> Files \cup {None}]
        /\ p \in Paths /\ u # None /\ Body[u] \in Contents
    BY ReceiverAssumption DEF ReceiverAssumption, TypeInv, TypeOK
  <1>1. /\ pc[u] = "verify" /\ pc'[u] \in {"success", "wait"}
        /\ \A v \in Uploads \ {u} : pc'[v] = pc[v]
        /\ UNCHANGED <<hash, got, fd, file, latest>>
    BY <1>0 DEF VerifyHash, Goto, local
  <1>2. dir' = IF ChecksumOK(u) THEN dir ELSE [dir EXCEPT ![p] = None]
    BY DEF VerifyHash
  <1>3. /\ latest[p] = u /\ dir[p] # None /\ file[dir[p]] = Received(u)
        /\ got[u] = Len(Body[u])
    BY <1>1 DEF StoreInv, UploadInv, Writing
  <1>4. Received(u) = Body[u]
    BY <1>0, <1>3 DEF Received, Contents
  <1>5. /\ dir'[p] = IF ChecksumOK(u) THEN dir[p] ELSE None
        /\ \A q \in Paths \ {p} : dir'[q] = dir[q]
    BY <1>0, <1>2
  <1>6. ChangesPath(u)
    <2>1. InProgress(u)
      BY <1>1 DEF InProgress, Storing
    <2> QED BY <1>1, <1>3, <1>5, <2>1 DEF ChangesPath
  <1>7. PathInv'
    BY <1>1, <1>5 DEF StoreInv, PathInv
  <1>8. ChecksumOK(u)' <=> ChecksumOK(u)
    BY <1>1 DEF ChecksumOK, Received
  <1>9. UploadInv(u)'
    <2>1. ChecksumOK(u) => dir'[p] # None /\ file'[dir'[p]] = Body[u]
      BY <1>1, <1>3, <1>4, <1>5
    <2> QED BY <1>1, <1>3, <1>5, <1>8, <2>1
            DEF UploadInv, BeforeCopy, Writing, Storing, Checked, Replying
  <1> QED BY <1>6, <1>7, <1>9

\* The other steps of a data goroutine leave the paths alone.
ChangesAPath(u) == CreateFile(u) \/ CopyBlock(u) \/ RemoveFile(u) \/ VerifyHash(u)

LEMMA QuietStep ==
  ASSUME TypeInv, NEW u \in Uploads, UploadInv(u), Data(u), ~ChangesAPath(u)
  PROVE  /\ UNCHANGED disk /\ UploadInv(u)'
         /\ \A v \in Uploads \ {u} : UNCHANGED <<pc[v], got[v], hash[v], fd[v]>>
  <1> DEFINE p == PathOf[u]
  <1>0. /\ pc \in [Uploads -> DataStates] /\ got \in [Uploads -> Nat]
        /\ hash \in [Uploads -> Digests \cup {None}]
    BY DEF TypeInv, TypeOK
  <1>1. UNCHANGED <<disk, got, fd>>
    <2> USE DEF local
    <2> QED BY DEF ChangesAPath, Data, ReadHeader, CheckRejected, CheckPath, MarkPath, StatFile,
               HashFile, HashFails, SkipFile, CreateFails, CopyEnd, CopyFails, TakeEntry,
               EntryMissing, WakeByNotify, WakeByTimer, SendReceived, SendAcked, SendSuccess
  <1>2. dir' = dir /\ file' = file /\ latest' = latest /\ got' = got /\ fd' = fd
    BY <1>1 DEF disk
  <1>3. Received(u)' = Received(u) /\ UploadInv(u)
    BY <1>2 DEF Received
  <1>4. \A v \in Uploads \ {u} : UNCHANGED <<pc[v], got[v], hash[v], fd[v]>>
    BY <1>1, DataMoves
  <1>5. ASSUME pc[u] \in BeforeCopy /\ pc'[u] \in (BeforeCopy \ {"skip"}) \cup {"closed", "skipped"}
        PROVE  UploadInv(u)'
    BY <1>2, <1>3, <1>5 DEF UploadInv, BeforeCopy, Storing, Writing, Checked, Replying
  <1>6. ASSUME HashFile(u) /\ pc'[u] = "skip"
        PROVE  UploadInv(u)'
    <2>1. /\ dir[p] # None /\ Digest(file[dir[p]]) = hash[u]
          /\ pc[u] = "rehash" /\ UNCHANGED hash
      BY <1>0, <1>6 DEF HashFile, Goto, local
    <2> QED BY <1>2, <1>3, <1>6, <2>1 DEF UploadInv, BeforeCopy, Storing, Writing, Checked, Replying
  <1>7. ASSUME CopyEnd(u)
        PROVE  UploadInv(u)'
    <2>1. pc[u] = "copy" /\ pc'[u] = "verify" /\ got[u] = Len(Body[u])
      BY <1>0, <1>7 DEF CopyEnd, Goto
    <2> QED BY <1>2, <1>3, <2>1
            DEF UploadInv, BeforeCopy, Storing, Writing, Checked, Replying
  <1>8. ASSUME CopyFails(u)
        PROVE  UploadInv(u)'
    <2>1. pc[u] = "copy" /\ pc'[u] = "remove"
      BY <1>0, <1>8 DEF CopyFails, Goto
    <2> QED BY <1>2, <1>3, <2>1
            DEF UploadInv, BeforeCopy, Storing, Writing, Checked, Replying
  <1>9. ASSUME pc[u] \in Replying /\ pc'[u] \in Replying \cup {"done"} /\ UNCHANGED hash
        PROVE  UploadInv(u)'
    BY <1>2, <1>3, <1>9
       DEF UploadInv, BeforeCopy, Storing, Writing, Checked, ChecksumOK, Replying
  <1>10. \/ pc[u] \in BeforeCopy /\ pc'[u] \in (BeforeCopy \ {"skip"}) \cup {"closed", "skipped"}
         \/ HashFile(u) /\ pc'[u] = "skip"
         \/ CopyEnd(u)
         \/ CopyFails(u)
         \/ pc[u] \in Replying /\ pc'[u] \in Replying \cup {"done"} /\ UNCHANGED hash
    <2> DEFINE Early == pc[u] \in BeforeCopy
                          /\ pc'[u] \in (BeforeCopy \ {"skip"}) \cup {"closed", "skipped"}
               Late  == pc[u] \in Replying /\ pc'[u] \in Replying \cup {"done"} /\ UNCHANGED hash
    <2>1. ReadHeader(u) \/ CheckRejected(u) \/ CheckPath(u) \/ MarkPath(u) => Early
      BY <1>0 DEF ReadHeader, CheckRejected, CheckPath, MarkPath, Goto, BeforeCopy, Storing, Writing
    <2>2. StatFile(u) \/ HashFile(u) \/ HashFails(u) \/ SkipFile(u) \/ CreateFails(u)
            => Early \/ (HashFile(u) /\ pc'[u] = "skip")
      BY <1>0 DEF StatFile, HashFile, HashFails, SkipFile, CreateFails, Goto, BeforeCopy,
                  Storing, Writing
    <2>3. TakeEntry(u) \/ EntryMissing(u) \/ WakeByNotify(u) \/ WakeByTimer(u) => Late
      BY <1>0 DEF TakeEntry, EntryMissing, WakeByNotify, WakeByTimer, Goto, Replying, local
    <2>4. SendReceived(u) \/ SendAcked(u) \/ SendSuccess(u) => Late
      BY <1>0 DEF SendReceived, SendAcked, SendSuccess, Goto, Replying, local
    <2>5. Early \/ (HashFile(u) /\ pc'[u] = "skip") \/ CopyEnd(u) \/ CopyFails(u) \/ Late
      BY <2>1, <2>2, <2>3, <2>4 DEF Data, ChangesAPath
    <2> QED BY <2>5
  <1>11. UploadInv(u)'
    BY <1>5, <1>6, <1>7, <1>8, <1>9, <1>10
  <1> QED BY <1>1, <1>4, <1>11

\* The steps that are not those of a data goroutine store nothing, and do no
\* more to a data goroutine than start or kill it.
LEMMA OtherSteps ==
  ASSUME TypeInv, AcceptInv, [Next]_vars, ~\E u \in Uploads : Data(u)
  PROVE  /\ UNCHANGED <<disk, got, hash, fd>>
         /\ \A u \in Uploads :
              \/ pc'[u] \in {pc[u], "dead"}
              \/ pc[u] = "none" /\ pc'[u] = "header"
  <1> USE DEF net, table, flags, local
  <1>1. UNCHANGED <<disk, got, hash, fd>>
    BY DEF Next, Connect, Accept, Disconnect, Sender, OpenControl, WriteTransferStart,
           OpenData, GiveUp, WriteHeader, Stall, Control, PutEntry, ControlLost, PutNotify,
           DeadlinePasses, Crash, vars
  <1>2. CASE \E c \in Conns : Accept(c)
    <2>1. PICK u \in Uploads :
            pc' = pc \/ (pc[u] = "none" /\ pc' = [pc EXCEPT ![u] = "header"])
      BY <1>2, AcceptAccept
    <2> QED BY <1>1, <2>1 DEF TypeInv, TypeOK
  <1>3. CASE Crash
    BY <1>1, <1>3 DEF Crash
  <1>4. CASE ~Crash /\ ~\E c \in Conns : Accept(c)
    <2>1. UNCHANGED pc
      BY <1>4
         DEF Next, Connect, Disconnect, Sender, OpenControl, WriteTransferStart,
             OpenData, GiveUp, WriteHeader, Stall, Control, PutEntry, ControlLost, PutNotify,
             DeadlinePasses, vars
    <2> QED BY <1>1, <2>1
  <1> QED BY <1>2, <1>3, <1>4

\* A step that changes no file, and moves data goroutines to "dead" at most,
\* or starts one.
LEMMA DiskQuiet ==
  ASSUME StoreInv, UNCHANGED <<disk, got, hash, fd>>,
         \A u \in Uploads :
           \/ pc'[u] \in {pc[u], "dead"}
           \/ pc[u] = "none" /\ pc'[u] = "header"
  PROVE  PathInv' /\ KeptInv' /\ \A u \in Uploads : UploadInv(u)'
  <1>1. PathInv' /\ KeptInv'
    BY DEF StoreInv, PathInv, KeptInv, disk
  <1>2. ASSUME NEW u \in Uploads PROVE UploadInv(u)'
    <2>1. CASE pc'[u] = pc[u]
      BY <2>1, UploadQuiet DEF StoreInv
    <2>2. CASE pc'[u] = "dead"
      BY <2>2 DEF UploadInv, BeforeCopy, Storing, Writing, Checked, Replying
    <2>3. CASE pc[u] = "none" /\ pc'[u] = "header"
      <3>1. got'[u] = 0
        BY <2>3 DEF StoreInv, UploadInv, BeforeCopy
      <3> QED BY <2>3, <3>1 DEF UploadInv, Storing, Writing, Checked, Replying
    <2> QED BY <2>1, <2>2, <2>3
  <1> QED BY <1>1, <1>2

LEMMA StoreInit == Init => StoreInv
  <1> SUFFICES ASSUME Init PROVE StoreInv
    OBVIOUS
  <1>1. Exclusive
    BY DEF Init, Exclusive, InProgress, Storing, Replying
  <1>2. PathInv
    BY DEF Init, PathInv
  <1>3. KeptInv
    BY DEF Init, KeptInv, Files
  <1>4. \A u \in Uploads : UploadInv(u)
    BY DEF Init, UploadInv, Writing, Checked, Replying
  <1> QED BY <1>1, <1>2, <1>3, <1>4 DEF StoreInv

LEMMA StoreStep ==
  Apart /\ TypeInv /\ AcceptInv /\ StoreInv /\ [Next]_vars => StoreInv'
  <1> SUFFICES ASSUME Apart, TypeInv, AcceptInv, StoreInv, [Next]_vars PROVE StoreInv'
    OBVIOUS
  <1>1. Exclusive'
    BY ExclusiveStep DEF StoreInv
  <1> SUFFICES PathInv' /\ KeptInv' /\ \A u \in Uploads : UploadInv(u)'
    BY <1>1 DEF StoreInv
  <1>2. ASSUME NEW u \in Uploads, Data(u)
        PROVE  PathInv' /\ KeptInv' /\ \A v \in Uploads : UploadInv(v)'
    <2>1. CASE ChangesAPath(u)
      <3>1. ChangesPath(u) /\ PathInv' /\ UploadInv(u)'
        BY <2>1, CreateStep, BlockStep, RemoveStep, VerifyStep DEF ChangesAPath
      <3>2. \A v \in Uploads \ {u} : UploadInv(v)'
        BY <3>1, UploadOther DEF StoreInv
      <3> QED BY <3>1, <3>2, KeptOther DEF StoreInv
    <2>2. CASE ~ChangesAPath(u)
      <3>1. /\ UNCHANGED disk /\ UploadInv(u)'
            /\ \A v \in Uploads \ {u} : UNCHANGED <<pc[v], got[v], hash[v], fd[v]>>
        BY <1>2, <2>2, QuietStep DEF StoreInv
      <3>2. \A v \in Uploads \ {u} : UploadInv(v)'
        BY <3>1, UploadQuiet DEF StoreInv
      <3>3. PathInv' /\ KeptInv'
        BY <3>1 DEF StoreInv, PathInv, KeptInv, disk
      <3> QED BY <3>1, <3>2, <3>3
    <2> QED BY <2>1, <2>2
  <1>3. ASSUME ~\E u \in Uploads : Data(u)
        PROVE  PathInv' /\ KeptInv' /\ \A v \in Uploads : UploadInv(v)'
    BY <1>3, OtherSteps, DiskQuiet
  <1> QED BY <1>2, <1>3

LEMMA StoreAlways == Apart => (Spec => [](TypeInv /\ StoreInv))
  <1> SUFFICES ASSUME Apart PROVE Spec => [](TypeInv /\ StoreInv)
    OBVIOUS
  <1>1. TypeInv /\ AcceptInv /\ StoreInv /\ [Next]_vars => TypeInv' /\ AcceptInv' /\ StoreInv'
    BY TypeStep, AcceptStep, StoreStep
  <1> QED BY <1>1, TypeInit, AcceptInit, StoreInit, PTL DEF Spec

(***************************************************************************)
(* A checksum reported as correct stays true of the directory, until       *)
(* another upload opens the path.                                          *)
(***************************************************************************)
THEOREM AcknowledgedIsStoredAlways == Apart => (Spec => []AcknowledgedIsStored)
  <1>1. TypeInv /\ StoreInv => AcknowledgedIsStored
    <2> SUFFICES ASSUME TypeInv, StoreInv, NEW p \in Paths, latest[p] # None,
                        Checked(latest[p]), ChecksumOK(latest[p])
                 PROVE  Content(p) = Body[latest[p]]
      BY DEF AcknowledgedIsStored
    <2>1. latest[p] \in Uploads /\ PathOf[latest[p]] = p
      BY DEF TypeInv, TypeOK, StoreInv, PathInv
    <2> QED BY <2>1 DEF StoreInv, UploadInv, Content
  <1> QED BY <1>1, StoreAlways, PTL

(***************************************************************************)
(* An upload that failed, or whose checksum was wrong, leaves nothing      *)
(* under the final name.                                                   *)
(***************************************************************************)
THEOREM FailureLeavesNoFileAlways == Apart => (Spec => []FailureLeavesNoFile)
  <1>1. TypeInv /\ StoreInv => FailureLeavesNoFile
    <2> SUFFICES ASSUME TypeInv, StoreInv, NEW p \in Paths, latest[p] # None,
                        \/ pc[latest[p]] = "failed"
                        \/ Checked(latest[p]) /\ ~ChecksumOK(latest[p])
                 PROVE  Content(p) = None
      BY DEF FailureLeavesNoFile
    <2>1. latest[p] \in Uploads /\ PathOf[latest[p]] = p
      BY DEF TypeInv, TypeOK, StoreInv, PathInv
    <2> QED BY <2>1 DEF StoreInv, UploadInv, Content
  <1> QED BY <1>1, StoreAlways, PTL

(***************************************************************************)
(* A file that no upload has opened is as it was before the server started. *)
(***************************************************************************)
THEOREM UnopenedIsKeptAlways == Apart => (Spec => []UnopenedIsKept)
  <1>1. StoreInv => UnopenedIsKept
    <2> SUFFICES ASSUME StoreInv, NEW p \in Paths, latest[p] = None
                 PROVE  Content(p) = Before[p]
      BY DEF UnopenedIsKept
    <2>1. p # None
      BY ReceiverAssumption DEF ReceiverAssumption
    <2> QED BY <2>1 DEF StoreInv, KeptInv, Content
  <1> QED BY <1>1, StoreAlways, PTL

(***************************************************************************)
(* An upload is skipped only when its path holds the content announced.    *)
(***************************************************************************)
THEOREM SkipIsExactAlways == Apart => (Spec => []SkipIsExact)
  <1>1. StoreInv => SkipIsExact
    BY DEF StoreInv, UploadInv, SkipIsExact
  <1> QED BY <1>1, StoreAlways, PTL

-----------------------------------------------------------------------------
(***************************************************************************)
(* Receiver implements Store, for every value of the constants in which    *)
(* uploads to one path do not overlap.  The steps that change the          *)
(* directory, decide to skip, check the digest or write a receipt are the  *)
(* steps of Store; the others change nothing that Store speaks of.         *)
(***************************************************************************)

\* The digest that is compared is the one the sender announced.
HashInv ==
  \A u \in Uploads :
    /\ hash[u] \in {None, HashOf[u]}
    /\ pc[u] = "rehash" => hash[u] # None
    /\ pc[u] = "verify" \/ Checked(u) => hash[u] = HashOf[u]

LEMMA HashQuiet ==
  ASSUME HashInv, UNCHANGED hash,
         \A u \in Uploads :
           pc'[u] = pc[u] \/ pc'[u] \notin {"rehash", "verify"} \cup Replying \cup {"done"}
  PROVE  HashInv'
  BY DEF HashInv, Checked, Replying

\* What a step of the data goroutine of u does to its digest.
LEMMA HashMoves ==
  ASSUME TypeInv, NEW u \in Uploads, Data(u)
  PROVE  /\ \/ hash' = hash
            \/ hash'[u] = HashOf[u] /\ pc'[u] = "check"
         /\ pc'[u] = "rehash" => hash[u] # None
         /\ pc'[u] = "verify" => hash[u] = HashOf[u] /\ hash' = hash
         /\ Checked(u)' => (pc[u] = "verify" \/ Checked(u)) /\ hash' = hash
  <1> USE DEF local, Checked, Replying, Goto
  <1>0. pc \in [Uploads -> DataStates] /\ hash \in [Uploads -> Digests \cup {None}]
    BY DEF TypeInv, TypeOK
  <1>1. CASE ReadHeader(u) \/ CheckRejected(u) \/ CheckPath(u) \/ MarkPath(u)
    BY <1>0, <1>1 DEF ReadHeader, CheckRejected, CheckPath, MarkPath
  <1>2. CASE StatFile(u)
    BY <1>0, <1>2 DEF StatFile
  <1>3. CASE HashFile(u) \/ HashFails(u) \/ SkipFile(u) \/ CreateFile(u) \/ CreateFails(u)
    BY <1>0, <1>3 DEF HashFile, HashFails, SkipFile, CreateFile, CreateFails
  <1>4. CASE CopyBlock(u) \/ CopyEnd(u) \/ CopyFails(u) \/ RemoveFile(u) \/ VerifyHash(u)
    BY <1>0, <1>4 DEF CopyBlock, CopyEnd, CopyFails, RemoveFile, VerifyHash
  <1>5. CASE TakeEntry(u) \/ EntryMissing(u) \/ WakeByNotify(u) \/ WakeByTimer(u)
    BY <1>0, <1>5 DEF TakeEntry, EntryMissing, WakeByNotify, WakeByTimer
  <1>6. CASE SendReceived(u) \/ SendAcked(u) \/ SendSuccess(u)
    BY <1>0, <1>6 DEF SendReceived, SendAcked, SendSuccess
  <1> QED BY <1>1, <1>2, <1>3, <1>4, <1>5, <1>6 DEF Data

LEMMA HashStep == TypeInv /\ AcceptInv /\ HashInv /\ [Next]_vars => HashInv'
  <1> SUFFICES ASSUME TypeInv, AcceptInv, HashInv, [Next]_vars PROVE HashInv'
    OBVIOUS
  <1>1. ASSUME NEW u \in Uploads, Data(u) PROVE HashInv'
    <2>1. \A v \in Uploads \ {u} : pc'[v] = pc[v] /\ hash'[v] = hash[v]
      BY <1>1, DataMoves
    <2>2. /\ hash'[u] \in {None, HashOf[u]}
          /\ pc'[u] = "rehash" => hash'[u] # None
          /\ pc'[u] = "verify" \/ Checked(u)' => hash'[u] = HashOf[u]
      BY <1>1, HashMoves DEF HashInv, Checked, Replying
    <2> QED BY <2>1, <2>2 DEF HashInv, Checked
  <1>2. CASE ~\E u \in Uploads : Data(u)
    <2>1. /\ UNCHANGED hash
          /\ \A u \in Uploads : pc'[u] = pc[u] \/ pc'[u] \in {"dead", "header"}
      BY <1>2, OtherSteps
    <2> QED BY <2>1, HashQuiet DEF Replying
  <1> QED BY <1>1, <1>2

LEMMA HashInit == Init => HashInv
  BY DEF Init, HashInv, Checked, Replying

-----------------------------------------------------------------------------
\* A step that changes one value of a function.
LEMMA OneValue ==
  ASSUME NEW S, NEW f, NEW g, f = [x \in S |-> f[x]], g = [x \in S |-> g[x]],
         NEW a \in S, \A x \in S \ {a} : g[x] = f[x]
  PROVE  g = [f EXCEPT ![a] = g[a]]
  OBVIOUS

LEMMA Functions ==
  /\ Holds = [p \in Paths |-> Holds[p]] /\ Holds' = [p \in Paths |-> Holds'[p]]
  /\ Writer = [p \in Paths |-> Writer[p]] /\ Writer' = [p \in Paths |-> Writer'[p]]
  /\ Outcome = [u \in Uploads |-> Outcome[u]] /\ Outcome' = [u \in Uploads |-> Outcome'[u]]
  /\ Told = [u \in Uploads |-> Told[u]] /\ Told' = [u \in Uploads |-> Told'[u]]
  BY DEF Holds, Writer, Outcome, Told

\* What Store knows of a program counter.
Kind(s) ==
  IF s \in Writing THEN "writing"
  ELSE IF s \in {"skip", "skipped"} THEN "skipped"
  ELSE IF s = "failed" THEN "failed"
  ELSE IF s \in Replying \cup {"done"} THEN "checked"
  ELSE "none"

LEMMA OutcomeOf ==
  ASSUME NEW u \in Uploads
  PROVE  /\ Outcome[u] = IF Kind(pc[u]) = "checked"
                         THEN IF ChecksumOK(u) THEN "stored" ELSE "mismatch"
                         ELSE IF Kind(pc[u]) = "writing" THEN "none" ELSE Kind(pc[u])
         /\ Kind(pc[u]) = "writing" <=> pc[u] \in Writing
  BY DEF Outcome, Kind, Checked, Writing, Replying

LEMMA OutcomeSame ==
  ASSUME NEW u \in Uploads, Kind(pc'[u]) = Kind(pc[u]),
         Kind(pc[u]) = "checked" => hash'[u] = hash[u] /\ got'[u] = got[u]
  PROVE  Outcome'[u] = Outcome[u] /\ (pc'[u] \in Writing <=> pc[u] \in Writing)
  <1>1. Kind(pc[u]) = "checked" => (ChecksumOK(u)' <=> ChecksumOK(u))
    BY DEF ChecksumOK, Received
  <1>2. CASE Kind(pc[u]) = "checked"
    BY <1>1, <1>2 DEF Outcome, Kind, Checked, Writing, Replying
  <1>3. CASE Kind(pc[u]) # "checked"
    BY <1>3 DEF Outcome, Kind, Checked, Writing, Replying
  <1> QED BY <1>2, <1>3

LEMMA Unseen ==
  ASSUME TypeInv, UNCHANGED <<disk, frames>>,
         \A u \in Uploads :
           /\ Kind(pc'[u]) = Kind(pc[u])
           /\ Kind(pc[u]) = "checked" => hash'[u] = hash[u] /\ got'[u] = got[u]
  PROVE  UNCHANGED Dir!vars
  <1>1. Holds' = Holds /\ Told' = Told
    BY DEF Holds, Content, Told, disk
  <1>2. Outcome' = Outcome
    BY OutcomeSame, Functions
  <1>3. Writer' = Writer
    <2>1. latest' = latest /\ latest \in [Paths -> Uploads \cup {None}]
      BY DEF disk, TypeInv, TypeOK
    <2>2. \A u \in Uploads : pc'[u] \in Writing <=> pc[u] \in Writing
      BY OutcomeSame
    <2> QED BY <2>1, <2>2 DEF Writer
  <1> QED BY <1>1, <1>2, <1>3 DEF Dir!vars

\* A step that changes the path of u shows at that path and at u only.
LEMMA Elsewhere ==
  ASSUME TypeInv, StoreInv, NEW u \in Uploads, ChangesPath(u)
  PROVE  LET p == PathOf[u] IN
           /\ p \in Paths
           /\ Holds' = [Holds EXCEPT ![p] = Content(p)']
           /\ Writer' = [Writer EXCEPT ![p] = Writer'[p]]
           /\ Outcome' = [Outcome EXCEPT ![u] = Outcome'[u]]
           /\ Writer'[p] = IF pc'[u] \in Writing THEN u ELSE None
  <1> DEFINE p == PathOf[u]
  <1>1. p \in Paths /\ u # None
    BY ReceiverAssumption DEF ReceiverAssumption
  <1>2. \A q \in Paths \ {p} : Holds'[q] = Holds[q]
    BY DEF ChangesPath, Holds, Content
  <1>3. \A q \in Paths \ {p} : Writer'[q] = Writer[q]
    <2> SUFFICES ASSUME NEW q \in Paths \ {p} PROVE Writer'[q] = Writer[q]
      OBVIOUS
    <2>1. latest'[q] = latest[q] /\ latest[q] \in Uploads \cup {None}
      BY DEF ChangesPath, TypeInv, TypeOK
    <2>2. latest[q] # None => PathOf[latest[q]] = q
      BY DEF StoreInv, PathInv
    <2>3. latest[q] # None => pc'[latest[q]] = pc[latest[q]]
      BY <2>1, <2>2 DEF ChangesPath
    <2> QED BY <2>1, <2>3 DEF Writer
  <1>4. \A v \in Uploads \ {u} : Outcome'[v] = Outcome[v]
    BY OutcomeSame DEF ChangesPath
  <1>5. Holds'[p] = Content(p)'
    BY <1>1 DEF Holds
  <1>6. Writer'[p] = IF pc'[u] \in Writing THEN u ELSE None
    BY <1>1 DEF ChangesPath, Writer
  <1>7. Holds' = [Holds EXCEPT ![p] = Holds'[p]]
    BY <1>1, <1>2, Functions, OneValue
  <1>8. Writer' = [Writer EXCEPT ![p] = Writer'[p]]
    BY <1>1, <1>3, Functions, OneValue
  <1>9. Outcome' = [Outcome EXCEPT ![u] = Outcome'[u]]
    BY <1>4, Functions, OneValue
  <1> QED BY <1>1, <1>5, <1>6, <1>7, <1>8, <1>9

LEMMA NobodyWrites ==
  ASSUME TypeInv, StoreInv, NEW u \in Uploads, InProgress(u), pc[u] \notin Writing
  PROVE  Writer[PathOf[u]] = None
  <1> DEFINE p == PathOf[u]
             w == latest[p]
  <1>1. p \in Paths /\ w \in Uploads \cup {None}
    BY ReceiverAssumption DEF ReceiverAssumption, TypeInv, TypeOK
  <1>2. w # None => pc[w] \notin Writing
    BY <1>1 DEF StoreInv, PathInv, Exclusive, InProgress, Writing, Storing
  <1> QED BY <1>1, <1>2 DEF Writer

-----------------------------------------------------------------------------
(***************************************************************************)
(* The steps of a data goroutine that Store sees.                          *)
(***************************************************************************)
LEMMA SkipSeen ==
  ASSUME TypeInv, StoreInv, HashInv, NEW u \in Uploads, HashFile(u), pc'[u] = "skip"
  PROVE  Dir!Skip(u)
  <1> DEFINE p == PathOf[u]
  <1>0. p \in Paths /\ pc \in [Uploads -> DataStates]
    BY ReceiverAssumption DEF ReceiverAssumption, TypeInv, TypeOK
  <1>1. /\ pc[u] = "rehash" /\ pc' = [pc EXCEPT ![u] = "skip"]
        /\ dir[p] # None /\ Digest(file[dir[p]]) = hash[u]
        /\ UNCHANGED <<disk, frames, hash, got>>
    BY <1>0 DEF HashFile, Goto, local
  <1>2. hash[u] = HashOf[u]
    BY <1>1 DEF HashInv
  <1>3. InProgress(u) /\ pc[u] \notin Writing
    BY <1>1 DEF InProgress, Storing, Writing
  <1>4. Writer[p] = None
    BY <1>3, NobodyWrites
  <1>5. Holds[p] = file[dir[p]]
    BY <1>0, <1>1 DEF Holds, Content
  <1>6. Outcome[u] = "none" /\ Outcome'[u] = "skipped"
    BY <1>0, <1>1 DEF Outcome, Checked, Replying
  <1>7. \A v \in Uploads \ {u} : Outcome'[v] = Outcome[v]
    BY <1>0, <1>1, OutcomeSame
  <1>8. Outcome' = [Outcome EXCEPT ![u] = "skipped"]
    <2>1. Outcome' = [Outcome EXCEPT ![u] = Outcome'[u]]
      BY <1>7, Functions, OneValue
    <2> QED BY <1>6, <2>1
  <1>9. Holds' = Holds /\ Told' = Told
    BY <1>1 DEF Holds, Content, Told, disk
  <1>10. Writer' = Writer
    <2>1. latest' = latest /\ latest \in [Paths -> Uploads \cup {None}]
      BY <1>1 DEF disk, TypeInv, TypeOK
    <2>2. \A v \in Uploads : pc'[v] \in Writing <=> pc[v] \in Writing
      BY <1>0, <1>1 DEF Writing
    <2> QED BY <2>1, <2>2 DEF Writer
  <1>11. Dir!Digest(Holds[p]) = HashOf[u]
    BY <1>1, <1>2, <1>5 DEF Digest, Dir!Digest
  <1> QED BY <1>4, <1>6, <1>8, <1>9, <1>10, <1>11 DEF Dir!Skip, Dir!Becomes

LEMMA CreateSeen ==
  ASSUME TypeInv, StoreInv, NEW u \in Uploads, CreateFile(u)
  PROVE  Dir!Begin(u)
  <1> DEFINE p == PathOf[u]
             f == IF dir[p] = None THEN u ELSE dir[p]
  <1>0. /\ p \in Paths /\ pc \in [Uploads -> DataStates] /\ u # None
        /\ dir \in [Paths -> Files \cup {None}]
        /\ file \in [Files -> Seq(Blocks \cup {None})]
    BY ReceiverAssumption DEF ReceiverAssumption, TypeInv, TypeOK
  <1>1. /\ pc[u] = "create" /\ pc'[u] = "copy"
        /\ dir' = [dir EXCEPT ![p] = f] /\ file' = [file EXCEPT ![f] = << >>]
        /\ UNCHANGED frames
    BY <1>0 DEF CreateFile, Goto
  <1>2. f \in Files /\ f # None
    BY <1>0 DEF Files
  <1>3. ChangesPath(u)
    BY CreateStep
  <1> HIDE DEF f
  <1>4. Content(p)' = << >>
    BY <1>0, <1>1, <1>2 DEF Content
  <1>5. Writer[p] = None
    BY <1>3, <1>1, NobodyWrites DEF ChangesPath, Writing
  <1>6. Outcome[u] = "none" /\ Outcome'[u] = "none"
    BY <1>1 DEF Outcome, Checked, Replying
  <1>7. /\ Holds' = [Holds EXCEPT ![p] = << >>]
        /\ Writer' = [Writer EXCEPT ![p] = u]
        /\ Outcome' = [Outcome EXCEPT ![u] = Outcome'[u]]
    BY <1>1, <1>3, <1>4, Elsewhere DEF Writing
  <1>8. Outcome' = Outcome
    BY <1>6, <1>7, Functions
  <1>9. Told' = Told
    BY <1>1 DEF Told
  <1> QED BY <1>5, <1>6, <1>7, <1>8, <1>9 DEF Dir!Begin

LEMMA BlockSeen ==
  ASSUME TypeInv, StoreInv, NEW u \in Uploads, CopyBlock(u)
  PROVE  Dir!Extend(u)
  <1> DEFINE p == PathOf[u]
  <1>0. /\ p \in Paths /\ got \in [Uploads -> Nat] /\ Body[u] \in Contents /\ u # None
    BY ReceiverAssumption DEF ReceiverAssumption, TypeInv, TypeOK
  <1>1. /\ pc[u] = "copy" /\ pc' = pc /\ got[u] < Len(Body[u])
        /\ got' = [got EXCEPT ![u] = @ + 1]
        /\ UNCHANGED frames
    BY DEF CopyBlock
  <1>2. ChangesPath(u) /\ UploadInv(u)'
    BY BlockStep
  <1>3. /\ latest[p] = u /\ dir[p] # None /\ file[dir[p]] = Received(u)
    BY <1>1 DEF StoreInv, UploadInv, Writing
  <1>4. dir'[p] # None /\ file'[dir'[p]] = Received(u)'
    BY <1>1, <1>2 DEF UploadInv, Writing
  <1>5. Holds[p] = SubSeq(Body[u], 1, got[u])
    BY <1>0, <1>3 DEF Holds, Content, Received
  <1>6. Content(p)' = SubSeq(Body[u], 1, got[u] + 1)
    <2>1. Content(p)' = Received(u)'
      BY <1>4 DEF Content
    <2>2. got'[u] = got[u] + 1
      BY <1>0, <1>1
    <2> QED BY <2>1, <2>2 DEF Received
  <1>7. Len(Holds[p]) = got[u]
    BY <1>0, <1>1, <1>5 DEF Contents
  <1>8. Writer[p] = u
    BY <1>0, <1>1, <1>3 DEF Writer, Writing
  <1>9. Outcome[u] = "none" /\ Outcome'[u] = "none"
    BY <1>1 DEF Outcome, Checked, Replying
  <1>10. /\ Holds' = [Holds EXCEPT ![p] = SubSeq(Body[u], 1, got[u] + 1)]
         /\ Writer' = [Writer EXCEPT ![p] = u]
         /\ Outcome' = [Outcome EXCEPT ![u] = Outcome'[u]]
    BY <1>1, <1>2, <1>6, Elsewhere DEF Writing
  <1>11. Outcome' = Outcome /\ Writer' = Writer
    BY <1>8, <1>9, <1>10, Functions
  <1>12. Told' = Told
    BY <1>1 DEF Told
  <1> QED BY <1>1, <1>7, <1>8, <1>10, <1>11, <1>12 DEF Dir!Extend

LEMMA RemoveSeen ==
  ASSUME TypeInv, StoreInv, NEW u \in Uploads, RemoveFile(u)
  PROVE  Dir!Discard(u)
  <1> DEFINE p == PathOf[u]
  <1>0. p \in Paths /\ pc \in [Uploads -> DataStates] /\ dir \in [Paths -> Files \cup {None}] /\ u # None
    BY ReceiverAssumption DEF ReceiverAssumption, TypeInv, TypeOK
  <1>1. pc[u] = "remove" /\ pc'[u] = "failed" /\ dir' = [dir EXCEPT ![p] = None] /\ UNCHANGED frames
    BY <1>0 DEF RemoveFile, Goto
  <1>2. ChangesPath(u)
    BY RemoveStep
  <1>3. latest[p] = u
    BY <1>1 DEF StoreInv, UploadInv, Writing
  <1>4. Writer[p] = u
    BY <1>0, <1>1, <1>3 DEF Writer, Writing
  <1>5. Content(p)' = None
    BY <1>0, <1>1 DEF Content
  <1>6. Outcome'[u] = "failed"
    BY <1>1 DEF Outcome, Checked, Replying
  <1>7. /\ Holds' = [Holds EXCEPT ![p] = None]
        /\ Writer' = [Writer EXCEPT ![p] = None]
        /\ Outcome' = [Outcome EXCEPT ![u] = "failed"]
    BY <1>1, <1>2, <1>5, <1>6, Elsewhere DEF Writing
  <1>8. Told' = Told
    BY <1>1 DEF Told
  <1> QED BY <1>4, <1>7, <1>8 DEF Dir!Discard, Dir!Becomes

LEMMA VerifySeen ==
  ASSUME TypeInv, StoreInv, HashInv, NEW u \in Uploads, VerifyHash(u)
  PROVE  Dir!Commit(u) \/ Dir!Discard(u)
  <1> DEFINE p == PathOf[u]
  <1>0. /\ p \in Paths /\ pc \in [Uploads -> DataStates] /\ dir \in [Paths -> Files \cup {None}]
        /\ u # None /\ Body[u] \in Contents
    BY ReceiverAssumption DEF ReceiverAssumption, TypeInv, TypeOK
  <1>1. /\ pc[u] = "verify" /\ pc'[u] \in {"success", "wait"}
        /\ dir' = IF ChecksumOK(u) THEN dir ELSE [dir EXCEPT ![p] = None]
        /\ UNCHANGED <<hash, got, file, frames>>
    BY <1>0 DEF VerifyHash, Goto, local
  <1>2. ChangesPath(u)
    BY VerifyStep
  <1>3. /\ latest[p] = u /\ dir[p] # None /\ file[dir[p]] = Received(u)
        /\ got[u] = Len(Body[u])
    BY <1>1 DEF StoreInv, UploadInv, Writing
  <1>4. Received(u) = Body[u]
    BY <1>0, <1>3 DEF Received, Contents
  <1>5. Writer[p] = u /\ Holds[p] = Body[u]
    BY <1>0, <1>1, <1>3, <1>4 DEF Writer, Writing, Holds, Content
  <1>6. ChecksumOK(u) <=> Dir!Agrees(u)
    <2>1. hash[u] = HashOf[u]
      BY <1>1 DEF HashInv
    <2> QED BY <2>1, <1>4 DEF ChecksumOK, Dir!Agrees, Digest, Dir!Digest
  <1>7. Outcome'[u] = IF ChecksumOK(u) THEN "stored" ELSE "mismatch"
    <2>1. ChecksumOK(u)' <=> ChecksumOK(u)
      BY <1>1 DEF ChecksumOK, Received
    <2> QED BY <1>1, <2>1 DEF Outcome, Checked, Replying
  <1>8. Content(p)' = IF ChecksumOK(u) THEN Body[u] ELSE None
    BY <1>0, <1>1, <1>3, <1>4 DEF Content
  <1>9. /\ Holds' = [Holds EXCEPT ![p] = IF ChecksumOK(u) THEN Body[u] ELSE None]
        /\ Writer' = [Writer EXCEPT ![p] = None]
        /\ Outcome' = [Outcome EXCEPT ![u] = IF ChecksumOK(u) THEN "stored" ELSE "mismatch"]
    BY <1>1, <1>2, <1>7, <1>8, Elsewhere DEF Writing
  <1>10. Told' = Told
    BY <1>1 DEF Told
  <1>11. CASE ChecksumOK(u)
    <2>1. Holds' = Holds
      BY <1>5, <1>9, <1>11, Functions
    <2> QED BY <1>5, <1>6, <1>9, <1>10, <1>11, <2>1 DEF Dir!Commit, Dir!Becomes
  <1>12. CASE ~ChecksumOK(u)
    BY <1>5, <1>6, <1>9, <1>10, <1>12 DEF Dir!Discard, Dir!Becomes
  <1> QED BY <1>11, <1>12

LEMMA ReceiptSeen ==
  ASSUME TypeInv, ReplyInv, NEW u \in Uploads, SendReceived(u)
  PROVE  Dir!Tell(u) \/ UNCHANGED Dir!vars
  <1> DEFINE v == held[u]
  <1>0. /\ pc \in [Uploads -> DataStates] /\ held \in [Uploads -> Uploads \cup {None}]
        /\ frames \in [Uploads -> Seq(Receipts)]
    BY DEF TypeInv, TypeOK
  <1>1. /\ pc[u] = "receipt" /\ pc'[u] \in {"acked", "success"}
        /\ \A w \in Uploads \ {u} : pc'[w] = pc[w]
        /\ \/ frames' = frames
           \/ frames' = [frames EXCEPT ![v] = Append(@, ReceiptFrames(u)[1])]
        /\ UNCHANGED <<disk, hash, got>>
    BY <1>0 DEF SendReceived, Goto, local
  <1>2. v \in Uploads /\ \A w \in Uploads : held[w] = v => w = u
    BY <1>0, <1>1 DEF ReplyInv, HeldInv
  <1>3. frames[v] = << >>
    BY <1>1, <1>2 DEF ReplyInv, FramesInv
  <1>4. \A w \in Uploads : Kind(pc'[w]) = Kind(pc[w])
    BY <1>0, <1>1 DEF Kind, Writing, Replying
  <1>5. CASE frames' = frames
    BY <1>1, <1>4, <1>5, Unseen
  <1>6. CASE frames' = [frames EXCEPT ![v] = Append(@, ReceiptFrames(u)[1])]
    <2>1. frames' = [frames EXCEPT ![v] = FirstFrame(u)]
      BY <1>3, <1>6, TwoFrames DEF FirstFrame
    <2>2. Outcome' = Outcome
      BY <1>1, <1>4, OutcomeSame, Functions
    <2>3. Outcome[u] = IF ChecksumOK(u) THEN "stored" ELSE "mismatch"
      BY <1>1 DEF Outcome, Checked, Replying
    <2>4. Holds' = Holds
      BY <1>1 DEF Holds, Content, disk
    <2>5. Writer' = Writer
      <3>1. latest' = latest /\ latest \in [Paths -> Uploads \cup {None}]
        BY <1>1 DEF disk, TypeInv, TypeOK
      <3>2. \A w \in Uploads : pc'[w] \in Writing <=> pc[w] \in Writing
        BY <1>0, <1>1 DEF Writing
      <3> QED BY <3>1, <3>2 DEF Writer
    <2>6. Told[v] = "nothing"
      BY <1>2, <1>3 DEF Told
    <2>7. Told'[v] = Outcome[u]
      <3>1. frames'[v] = FirstFrame(u)
        BY <1>0, <1>2, <2>1
      <3>2. FirstFrame(u) # << >> /\ FirstFrame(u)[1].ok = ChecksumOK(u)
        BY DEF FirstFrame, ReceiptFrames
      <3> QED BY <1>2, <2>3, <3>1, <3>2 DEF Told
    <2>8. \A w \in Uploads \ {v} : Told'[w] = Told[w]
      BY <1>0, <2>1 DEF Told
    <2> HIDE DEF v
    <2>9. Told' = [Told EXCEPT ![v] = Outcome[u]]
      <3>1. Told' = [Told EXCEPT ![v] = Told'[v]]
        BY <1>2, <2>8, Functions, OneValue
      <3> QED BY <2>7, <3>1
    <2> QED BY <1>2, <2>2, <2>3, <2>4, <2>5, <2>6, <2>9 DEF Dir!Tell
  <1> QED BY <1>1, <1>5, <1>6

\* The second frame tells nothing more.
LEMMA AckedUnseen ==
  ASSUME TypeInv, ReplyInv, NEW u \in Uploads, SendAcked(u)
  PROVE  UNCHANGED Dir!vars
  <1> DEFINE v == held[u]
             x == ReceiptFrames(u)[2]
  <1>0. /\ pc \in [Uploads -> DataStates] /\ held \in [Uploads -> Uploads \cup {None}]
        /\ frames \in [Uploads -> Seq(Receipts)]
        /\ latest \in [Paths -> Uploads \cup {None}]
    BY DEF TypeInv, TypeOK
  <1>1. /\ pc[u] = "acked" /\ pc' = [pc EXCEPT ![u] = "success"]
        /\ frames' \in {frames, [frames EXCEPT ![v] = Append(@, x)]}
        /\ UNCHANGED <<dir, file, latest, hash, got>>
    BY DEF SendAcked, Goto, local, disk
  <1>2. v \in Uploads /\ frames[v] = FirstFrame(u)
    BY <1>0, <1>1 DEF ReplyInv, HeldInv, FramesInv
  <1>3. Append(FirstFrame(u), x) # << >> /\ Append(FirstFrame(u), x)[1] = FirstFrame(u)[1]
        /\ FirstFrame(u) # << >>
    BY TwoFrames DEF FirstFrame
  <1> HIDE DEF v, x
  <1>4. \A w \in Uploads : /\ frames'[w] = << >> <=> frames[w] = << >>
                           /\ frames[w] # << >> => frames'[w][1] = frames[w][1]
    BY <1>0, <1>1, <1>2, <1>3
  <1>5. Told' = Told
    BY <1>4 DEF Told
  <1>6. \A w \in Uploads : Kind(pc'[w]) = Kind(pc[w])
    BY <1>0, <1>1 DEF Kind, Writing, Replying
  <1>7. Outcome' = Outcome
    BY <1>1, <1>6, OutcomeSame, Functions
  <1>8. \A w \in Uploads : pc'[w] \in Writing <=> pc[w] \in Writing
    BY <1>0, <1>1 DEF Writing
  <1>9. Writer' = Writer
    BY <1>0, <1>1, <1>8 DEF Writer
  <1>10. Holds' = Holds
    BY <1>1 DEF Holds, Content
  <1> QED BY <1>5, <1>7, <1>9, <1>10 DEF Dir!vars

-----------------------------------------------------------------------------
SeenByStore(u) ==
  \/ ChangesAPath(u) \/ SendReceived(u) \/ SendAcked(u)
  \/ HashFile(u) /\ pc'[u] = "skip"

\* The other steps of a data goroutine are not seen either.
LEMMA DataUnseen ==
  ASSUME TypeInv, NEW u \in Uploads, UploadInv(u), Data(u), ~SeenByStore(u)
  PROVE  UNCHANGED Dir!vars
  <1>0. pc \in [Uploads -> DataStates] /\ got \in [Uploads -> Nat]
    BY DEF TypeInv, TypeOK
  <1>1. UNCHANGED disk /\ \A v \in Uploads \ {u} : UNCHANGED <<pc[v], got[v], hash[v], fd[v]>>
    BY QuietStep DEF SeenByStore
  <1>2. UNCHANGED frames
    <2>1. ~TakeEntry(u) => UNCHANGED frames
      BY DataMoves DEF SeenByStore
    <2> QED BY <2>1 DEF TakeEntry
  <1>3. /\ Kind(pc'[u]) = Kind(pc[u])
        /\ Kind(pc[u]) = "checked" => hash'[u] = hash[u] /\ got'[u] = got[u]
    <2> USE DEF Goto, Kind, Writing, Replying, local
    <2>1. CASE ReadHeader(u) \/ CheckRejected(u) \/ CheckPath(u) \/ MarkPath(u)
      BY <1>0, <2>1 DEF ReadHeader, CheckRejected, CheckPath, MarkPath
    <2>2. CASE StatFile(u) \/ (HashFile(u) /\ pc'[u] # "skip") \/ HashFails(u)
               \/ SkipFile(u) \/ CreateFails(u)
      BY <1>0, <2>2 DEF StatFile, HashFile, HashFails, SkipFile, CreateFails
    <2>3. CASE CopyEnd(u) \/ CopyFails(u)
      BY <1>0, <2>3 DEF CopyEnd, CopyFails
    <2>4. CASE TakeEntry(u) \/ EntryMissing(u) \/ WakeByNotify(u) \/ WakeByTimer(u)
      BY <1>0, <2>4 DEF TakeEntry, EntryMissing, WakeByNotify, WakeByTimer
    <2>5. CASE SendSuccess(u)
      BY <1>0, <2>5 DEF SendSuccess
    <2> QED BY <2>1, <2>2, <2>3, <2>4, <2>5 DEF Data, SeenByStore, ChangesAPath
  <1> QED BY <1>1, <1>2, <1>3, Unseen

LEMMA CrashSeen == ASSUME TypeInv, Crash PROVE Dir!Crash
  <1>0. latest \in [Paths -> Uploads \cup {None}]
    BY DEF TypeInv, TypeOK
  <1>1. /\ pc' = [u \in Uploads |-> IF pc[u] \in Storing \cup Replying THEN "dead" ELSE pc[u]]
        /\ UNCHANGED <<disk, frames, hash, got>>
    BY DEF Crash, local
  <1>2. \A u \in Uploads : pc'[u] \notin Writing
    BY <1>1 DEF Writing, Storing
  <1>3. Writer' = [p \in Paths |-> None]
    <2>1. latest' = latest
      BY <1>1 DEF disk
    <2> QED BY <1>0, <1>2, <2>1 DEF Writer
  <1>4. ASSUME NEW u \in Uploads PROVE Outcome'[u] \in {Outcome[u], "none"}
    <2>1. CASE pc'[u] = pc[u]
      BY <1>1, <2>1, OutcomeSame
    <2>2. CASE pc'[u] = "dead"
      BY <2>2 DEF Outcome, Checked, Replying
    <2> QED BY <1>1, <2>1, <2>2
  <1>5. \A u \in Uploads : Outcome'[u] \in Dir!Outcomes
    BY DEF Outcome, Dir!Outcomes
  <1>6. Outcome' \in [Uploads -> Dir!Outcomes]
    BY <1>5, Functions
  <1>7. Holds' = Holds /\ Told' = Told
    BY <1>1 DEF Holds, Content, Told, disk
  <1> QED BY <1>3, <1>4, <1>6, <1>7 DEF Dir!Crash

DirInv == TypeInv /\ AcceptInv /\ ReplyInv /\ StoreInv /\ HashInv

LEMMA RefinementStep == DirInv /\ [Next]_vars => [Dir!Next]_(Dir!vars)
  <1> SUFFICES ASSUME DirInv, [Next]_vars PROVE Dir!Next \/ UNCHANGED Dir!vars
    OBVIOUS
  <1> USE DEF DirInv
  <1>1. ASSUME NEW u \in Uploads, Data(u) PROVE Dir!Next \/ UNCHANGED Dir!vars
    <2>1. CASE SeenByStore(u)
      <3>1. Dir!Skip(u) \/ Dir!Begin(u) \/ Dir!Extend(u) \/ Dir!Commit(u) \/ Dir!Discard(u)
              \/ Dir!Tell(u) \/ UNCHANGED Dir!vars
        BY <2>1, SkipSeen, CreateSeen, BlockSeen, RemoveSeen, VerifySeen, ReceiptSeen,
           AckedUnseen
           DEF SeenByStore, ChangesAPath
      <3> QED BY <3>1 DEF Dir!Next
    <2>2. CASE ~SeenByStore(u)
      BY <1>1, <2>2, DataUnseen DEF StoreInv
    <2> QED BY <2>1, <2>2
  <1>2. CASE Crash
    BY <1>2, CrashSeen DEF Dir!Next
  <1>3. CASE \E c \in Conns : Accept(c)
    <2>1. UNCHANGED <<disk, frames, hash, got>>
      BY <1>3 DEF Accept, local
    <2>2. PICK u \in Uploads :
            pc' = pc \/ (pc[u] = "none" /\ pc' = [pc EXCEPT ![u] = "header"])
      BY <1>3, AcceptAccept
    <2>3. \A v \in Uploads : Kind(pc'[v]) = Kind(pc[v])
      BY <2>2 DEF TypeInv, TypeOK, Kind, Writing, Replying
    <2> QED BY <2>1, <2>3, Unseen
  <1>4. CASE ~Crash /\ (~\E c \in Conns : Accept(c)) /\ ~\E u \in Uploads : Data(u)
    <2> USE DEF net, table, flags, local
    <2>1. UNCHANGED <<disk, frames, pc, hash, got>>
      BY <1>4 DEF Next, Connect, Disconnect, Sender, OpenControl, WriteTransferStart,
                  OpenData, GiveUp, WriteHeader, Stall, Control, PutEntry, ControlLost, PutNotify,
                  DeadlinePasses, vars
    <2> QED BY <2>1, Unseen
  <1> QED BY <1>1, <1>2, <1>3, <1>4

LEMMA RefinementInit == Init => Dir!Init
  <1> SUFFICES ASSUME Init PROVE Dir!Init
    OBVIOUS
  <1>1. Holds = [p \in Paths |-> Before[p]]
    <2>1. \A p \in Paths : p # None
      BY ReceiverAssumption DEF ReceiverAssumption
    <2> QED BY <2>1 DEF Init, Holds, Content, Files
  <1>2. Writer = [p \in Paths |-> None] /\ Told = [u \in Uploads |-> "nothing"]
    BY DEF Init, Writer, Told
  <1>3. Outcome = [u \in Uploads |-> "none"]
    BY DEF Init, Outcome, Checked, Replying
  <1> QED BY <1>1, <1>2, <1>3 DEF Dir!Init

(***************************************************************************)
(* The receiving side implements Store: whatever fails, dies or is lost,   *)
(* each step of it is one that Store allows, or one that Store does not    *)
(* see.                                                                    *)
(***************************************************************************)
THEOREM StoreImplemented == Apart => (Spec => ImplementsStore)
  <1> SUFFICES ASSUME Apart PROVE Spec => ImplementsStore
    OBVIOUS
  <1>1. Init => DirInv /\ Dir!Init
    BY TypeInit, AcceptInit, ReplyInit, StoreInit, HashInit, RefinementInit DEF DirInv
  <1>2. DirInv /\ [Next]_vars => DirInv'
    BY TypeStep, AcceptStep, ReplyStep, StoreStep, HashStep DEF DirInv
  <1> QED BY <1>1, <1>2, RefinementStep, PTL DEF Spec, ImplementsStore, Dir!Spec
=============================================================================
