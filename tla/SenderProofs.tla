---------------------------- MODULE SenderProofs ----------------------------
(***************************************************************************)
(* What Sender guarantees for every list of files, every degree of         *)
(* concurrency and every stream limit.                                     *)
(*                                                                         *)
(* The counters of SendDir are tied to sets of goroutines: sem and wg to   *)
(* those that still hold a token or have not called Done, sentCount and    *)
(* errCount to those that have counted.                                    *)
(***************************************************************************)
EXTENDS Sender, FiniteSetTheorems, TLAPS

\* The number of files is a number, and each of them has an index of its own.
LEMMA FilesType ==
  /\ Len(files) \in Nat /\ DOMAIN files = 1..Len(files)
  /\ \A i \in 1..Len(files) : files[i] \in Files
  /\ \A f \in Files : \E i \in 1..Len(files) : f = files[i]
  /\ \A i, j \in 1..Len(files) : files[i] = files[j] => i = j
  BY SenderAssumption DEF SenderAssumption, Files

\* SendFile has a file to send.
LEMMA FirstFile ==
  ASSUME "SendFile" \in Commands PROVE 1 \in 1..Len(files) /\ files[1] \in Files
  <1>1. Len(files) # 0
    BY SenderAssumption DEF SenderAssumption
  <1> QED BY <1>1, FilesType

-----------------------------------------------------------------------------
(***************************************************************************)
(* Types, without the ranges of the counters, which need the invariants    *)
(* that follow.                                                            *)
(***************************************************************************)
TypeInv ==
  /\ command \in Commands /\ command \in {"SendDir", "SendFile"}
  /\ main \in MainStates /\ next \in 0..Len(files)
  /\ main = "acquire" => next < Len(files)
  /\ main \in {"stat", "call"} => command = "SendFile"
  /\ sem \in Int /\ wg \in Int /\ sentCount \in Int /\ errCount \in Int
  /\ exit \in {None, ExitSuccess, ExitErrorConn, ExitErrorPartial, ExitErrorAll, ExitFatal}
  /\ link \in {"none", "up", "down"}
  /\ step \in [Files -> Steps]
  /\ tries \in [Files -> Nat]
  /\ opened \in Nat /\ allowed \in Nat
  /\ wrote \in [Files -> Nat]
  /\ fin \in [Files -> BOOLEAN]
  /\ drainer \in [Files -> {"none", "reading", "done"}]
  /\ read \in [Files -> Nat]
  /\ peer \in [Files -> {"none", "reading", "done", "closed"}]

LEMMA TypeInit == Init => TypeInv
  BY FilesType, SenderAssumption
     DEF SenderAssumption, Init, TypeInv, MainStates, Steps, Sending

LEMMA TypeMain == ASSUME TypeInv, Main PROVE TypeInv'
  <1> USE FilesType
      DEF At, Goto, MainStates, Steps, Sending, TypeInv,
          count, call, flow, env
  <1>1. CASE Dial
    BY <1>1, SenderAssumption DEF Dial, SenderAssumption
  <1>2. CASE DialFails
    BY <1>2 DEF DialFails
  <1>3. CASE WalkDir
    BY <1>3 DEF WalkDir
  <1>4. CASE WalkFails
    BY <1>4 DEF WalkFails
  <1>5. CASE AddFile
    BY <1>5 DEF AddFile
  <1>6. CASE StartFile
    <2>1. files[next + 1] \in Files
      BY <1>6 DEF StartFile
    <2>2. step' \in [Files -> Steps]
      BY <1>6, <2>1 DEF StartFile
    <2>3. next' \in 0..Len(files)
      BY <1>6 DEF StartFile
    <2> QED BY <1>6, <2>2, <2>3 DEF StartFile
  <1>7. CASE EndLoop
    BY <1>7 DEF EndLoop
  <1>8. CASE Wait
    BY <1>8 DEF Wait
  <1>9. CASE Report
    BY <1>9 DEF Report
  <1>10. CASE StatFile
    <2>1. 1 \in 1..Len(files) /\ files[1] \in Files
      BY <1>10, FirstFile DEF StatFile
    <2> QED BY <1>10, <2>1 DEF StatFile
  <1>11. CASE StatFails
    BY <1>11 DEF StatFails
  <1>12. CASE Return
    BY <1>12 DEF Return
  <1>13. CASE Close
    BY <1>13 DEF Close
  <1> QED BY <1>1, <1>2, <1>3, <1>4, <1>5, <1>6, <1>7, <1>8, <1>9, <1>10, <1>11, <1>12, <1>13 DEF Main

LEMMA TypeSendFile ==
  ASSUME TypeInv, NEW f \in Files, SendFileAeroSync(f) PROVE TypeInv'
  <1> USE DEF Goto, Steps, Sending, TypeInv, count, call, flow, env
  <1>1. CASE HashFile(f)
    BY <1>1 DEF HashFile
  <1>2. CASE HashFails(f)
    BY <1>2 DEF HashFails
  <1>3. CASE OpenControl(f)
    BY <1>3 DEF OpenControl
  <1>4. CASE OpenControlFails(f)
    BY <1>4 DEF OpenControlFails
  <1>5. CASE WriteTransferStart(f)
    BY <1>5 DEF WriteTransferStart
  <1>6. CASE OpenData(f)
    BY <1>6 DEF OpenData
  <1>7. CASE OpenDataFails(f)
    BY <1>7 DEF OpenDataFails
  <1>8. CASE WriteHeader(f)
    BY <1>8 DEF WriteHeader
  <1>9. CASE WriteFails(f)
    BY <1>9 DEF WriteFails
  <1>10. CASE CopyBlock(f)
    BY <1>10 DEF CopyBlock
  <1>11. CASE CopyEnd(f)
    BY <1>11 DEF CopyEnd
  <1>12. CASE CopyFails(f)
    BY <1>12 DEF CopyFails
  <1>13. CASE CloseData(f)
    BY <1>13 DEF CloseData
  <1> QED BY <1>1, <1>2, <1>3, <1>4, <1>5, <1>6, <1>7, <1>8, <1>9, <1>10, <1>11, <1>12, <1>13 DEF SendFileAeroSync

LEMMA TypeRest ==
  ASSUME TypeInv, NEW f \in Files,
         CountFile(f) \/ Release(f) \/ Done(f) \/ DrainEnds(f) \/ Server(f)
  PROVE  TypeInv'
  <1> USE DEF Goto, Steps, Sending, TypeInv, count, call, flow, env
  <1>1. CASE CountFile(f)
    <2>1. /\ step' \in [Files -> Steps]
          /\ \/ sentCount' = sentCount + 1 /\ errCount' = errCount
             \/ errCount' = errCount + 1 /\ sentCount' = sentCount
      BY <1>1 DEF CountFile
    <2>2. UNCHANGED <<call, sem, wg, link, flow, env>>
      BY <1>1 DEF CountFile
    <2> QED BY <2>1, <2>2
  <1>2. CASE Release(f)
    BY <1>2 DEF Release
  <1>3. CASE Done(f)
    BY <1>3 DEF Done
  <1>4. CASE DrainEnds(f)
    BY <1>4 DEF DrainEnds
  <1>5. CASE ServerReads(f)
    BY <1>5 DEF ServerReads
  <1>6. CASE ServerFinishes(f)
    BY <1>6 DEF ServerFinishes
  <1>7. CASE ServerAbandons(f)
    BY <1>7 DEF ServerAbandons
  <1> QED BY <1>1, <1>2, <1>3, <1>4, <1>5, <1>6, <1>7 DEF Server

LEMMA TypeStep == ASSUME TypeInv, [Next]_vars PROVE TypeInv'
  <1>1. CASE GrantStream \/ LoseLink
    BY <1>1 DEF GrantStream, LoseLink, TypeInv, count, call, flow, env
  <1>2. CASE UNCHANGED vars
    BY <1>2 DEF TypeInv, vars, count, call, flow, env
  <1> QED BY <1>1, <1>2, TypeMain, TypeSendFile, TypeRest DEF Next, Worker

-----------------------------------------------------------------------------
(***************************************************************************)
(* Which goroutines have been started, and what main says of them.         *)
(***************************************************************************)
StartInv ==
  /\ exit # None <=> main \in {"close", "exited"}
  /\ command = "SendDir" =>
       /\ main \in {"dial", "walk"} => next = 0
       /\ main \in {"wait", "grace"} => next = Len(files)
       /\ \A i \in 1..Len(files) : step[files[i]] = "none" <=> i > next
  /\ command = "SendFile" =>
       /\ main \in {"dial", "stat", "call", "close", "exited"}
       /\ \A f \in Files \ {files[1]} : step[f] = "none"
       /\ main \in {"dial", "stat"} => step[files[1]] = "none"
       /\ main \in {"close", "exited"} => step[files[1]] \in {"none", "end"}
       /\ step[files[1]] \notin {"release", "done"}

\* sendFileAeroSync moves the goroutine of its file from one of its steps to
\* another and leaves the counters alone.
LEMMA SendFileEdge ==
  ASSUME TypeInv, NEW f \in Files, SendFileAeroSync(f)
  PROVE  /\ UNCHANGED <<command, main, next, exit, sem, wg, sentCount, errCount>>
         /\ step[f] \in Sending \ {"sent", "failed"}
         /\ \E to \in Sending : step' = [step EXCEPT ![f] = to]
  <1> USE DEF Goto, Sending, TypeInv, count, call
  <1>1. CASE HashFile(f)
    BY <1>1 DEF HashFile
  <1>2. CASE HashFails(f)
    BY <1>2 DEF HashFails
  <1>3. CASE OpenControl(f)
    BY <1>3 DEF OpenControl
  <1>4. CASE OpenControlFails(f)
    BY <1>4 DEF OpenControlFails
  <1>5. CASE WriteTransferStart(f)
    BY <1>5 DEF WriteTransferStart
  <1>6. CASE OpenData(f)
    BY <1>6 DEF OpenData
  <1>7. CASE OpenDataFails(f)
    BY <1>7 DEF OpenDataFails
  <1>8. CASE WriteHeader(f)
    BY <1>8 DEF WriteHeader
  <1>9. CASE WriteFails(f)
    BY <1>9 DEF WriteFails
  <1>10. CASE CopyBlock(f)
    BY <1>10 DEF CopyBlock
  <1>11. CASE CopyEnd(f)
    BY <1>11 DEF CopyEnd
  <1>12. CASE CopyFails(f)
    BY <1>12 DEF CopyFails
  <1>13. CASE CloseData(f)
    BY <1>13 DEF CloseData
  <1> QED BY <1>1, <1>2, <1>3, <1>4, <1>5, <1>6, <1>7, <1>8, <1>9, <1>10, <1>11, <1>12, <1>13 DEF SendFileAeroSync

\* And so do the steps around it, outside Sending.
LEMMA WorkerEdge ==
  ASSUME TypeInv, NEW f \in Files, Worker(f)
  PROVE  /\ UNCHANGED <<command, main, next, exit>>
         /\ step[f] \in Sending \cup {"release", "done"}
         /\ \E to \in Steps \ {"none"} :
              /\ step' = [step EXCEPT ![f] = to]
              /\ to \in Sending \/ step[f] \in {"release", "done"} \/ command = "SendDir"
  <1>1. CASE SendFileAeroSync(f)
    BY <1>1, SendFileEdge DEF Steps, Sending
  <1>2. CASE CountFile(f)
    BY <1>2 DEF CountFile, Goto, Steps, Sending, call
  <1>3. CASE Release(f) \/ Done(f)
    BY <1>3 DEF Release, Done, Goto, Steps, Sending, call
  <1> QED BY <1>1, <1>2, <1>3 DEF Worker

\* Nobody else moves a goroutine.
LEMMA OthersStay ==
  ASSUME NEW f \in Files, DrainEnds(f) \/ Server(f) \/ GrantStream \/ LoseLink \/ UNCHANGED vars
  PROVE  UNCHANGED <<command, main, next, exit, sem, wg, sentCount, errCount, step, wrote, fin>>
  BY DEF DrainEnds, Server, ServerReads, ServerFinishes, ServerAbandons, GrantStream,
         LoseLink, vars, count, call, flow, env

LEMMA StartInit == Init => StartInv
  BY FilesType, SenderAssumption DEF SenderAssumption, Init, StartInv

LEMMA StartWorker ==
  ASSUME TypeInv, StartInv, NEW f \in Files, Worker(f) PROVE StartInv'
  <1>1. PICK to \in Steps \ {"none"} :
          /\ step' = [step EXCEPT ![f] = to]
          /\ to \in Sending \/ step[f] \in {"release", "done"} \/ command = "SendDir"
    BY WorkerEdge
  <1>2. UNCHANGED <<command, main, next, exit>> /\ step[f] \in Sending \cup {"release", "done"}
    BY WorkerEdge
  <1>3. step \in [Files -> Steps]
    BY DEF TypeInv
  <1>4. CASE command = "SendDir"
    <2>1. \A i \in 1..Len(files) : step'[files[i]] = "none" <=> step[files[i]] = "none"
      BY <1>1, <1>2, <1>3, FilesType DEF Sending
    <2> QED BY <1>2, <1>4, <2>1 DEF StartInv
  <1>5. CASE command = "SendFile"
    <2>1. f = files[1] /\ files[1] \in Files
      BY <1>2, <1>5, FirstFile DEF StartInv, TypeInv, Sending
    <2> QED BY <1>1, <1>2, <1>3, <1>5, <2>1 DEF StartInv, Sending
  <1> QED BY <1>4, <1>5 DEF TypeInv

LEMMA StartMain == ASSUME TypeInv, StartInv, Main PROVE StartInv'
  <1>0. /\ None \notin {ExitSuccess, ExitErrorConn, ExitErrorPartial, ExitErrorAll, ExitFatal}
        /\ command \in {"SendDir", "SendFile"}
    BY SenderAssumption DEF TypeInv, SenderAssumption, ExitSuccess, ExitErrorConn, ExitErrorPartial,
                            ExitErrorAll, ExitFatal
  <1> USE <1>0 DEF At, StartInv, call, count
  <1>1. CASE Dial \/ DialFails \/ WalkDir \/ WalkFails
    BY <1>1 DEF Dial, DialFails, WalkDir, WalkFails
  <1>2. CASE AddFile \/ EndLoop \/ Wait
    BY <1>2 DEF AddFile, EndLoop, Wait
  <1>3. CASE StartFile
    <2>1. /\ command = "SendDir" /\ command' = command /\ next + 1 \in 1..Len(files)
          /\ main' = "loop" /\ next' = next + 1 /\ exit' = exit /\ exit = None
      BY <1>3, FilesType DEF StartFile, TypeInv
    <2>2. \A i \in 1..Len(files) : step'[files[i]] = "none" <=> i > next + 1
      BY <1>3, <2>1, FilesType DEF StartFile, TypeInv
    <2> QED BY <2>1, <2>2
  <1>4. CASE Report
    BY <1>4 DEF Report
  <1>5. CASE StatFile
    BY <1>5, FirstFile DEF StatFile, TypeInv
  <1>6. CASE StatFails \/ Close
    BY <1>6 DEF StatFails, Close
  <1>7. CASE Return
    BY <1>7, FirstFile DEF Return, Goto, TypeInv
  <1> QED BY <1>1, <1>2, <1>3, <1>4, <1>5, <1>6, <1>7 DEF Main

LEMMA StartStep == ASSUME TypeInv, StartInv, [Next]_vars PROVE StartInv'
  <1>1. CASE \E f \in Files : DrainEnds(f) \/ Server(f)
    BY <1>1, OthersStay DEF StartInv
  <1>2. CASE GrantStream \/ LoseLink \/ UNCHANGED vars
    BY <1>2 DEF StartInv, GrantStream, LoseLink, vars, call, count, flow
  <1> QED BY <1>1, <1>2, StartMain, StartWorker DEF Next

-----------------------------------------------------------------------------
(***************************************************************************)
(* The end of a data stream.  It is written by the goroutine that has      *)
(* copied the whole file, and by no other.                                 *)
(***************************************************************************)
Over == {"release", "done", "end"}

FinInv == \A f \in Files :
  /\ fin[f] => step[f] \in {"sent"} \cup Over
  /\ step[f] = "sent" => fin[f]
  /\ fin[f] \/ step[f] = "fin" => wrote[f] = LengthOf[f]

LEMMA FinSendFile ==
  ASSUME TypeInv, FinInv, NEW f \in Files, SendFileAeroSync(f) PROVE FinInv'
  <1> USE DEF Goto, TypeInv, FinInv, Over, flow
  <1>1. CASE HashFile(f)
    BY <1>1 DEF HashFile
  <1>2. CASE HashFails(f)
    BY <1>2 DEF HashFails
  <1>3. CASE OpenControl(f)
    BY <1>3 DEF OpenControl
  <1>4. CASE OpenControlFails(f)
    BY <1>4 DEF OpenControlFails
  <1>5. CASE WriteTransferStart(f)
    BY <1>5 DEF WriteTransferStart
  <1>6. CASE OpenData(f)
    BY <1>6 DEF OpenData
  <1>7. CASE OpenDataFails(f)
    BY <1>7 DEF OpenDataFails
  <1>8. CASE WriteHeader(f)
    BY <1>8 DEF WriteHeader
  <1>9. CASE WriteFails(f)
    BY <1>9 DEF WriteFails
  <1>10. CASE CopyBlock(f)
    BY <1>10 DEF CopyBlock
  <1>11. CASE CopyEnd(f)
    BY <1>11 DEF CopyEnd
  <1>12. CASE CopyFails(f)
    BY <1>12 DEF CopyFails
  <1>13. CASE CloseData(f)
    BY <1>13 DEF CloseData
  <1> QED BY <1>1, <1>2, <1>3, <1>4, <1>5, <1>6, <1>7, <1>8, <1>9, <1>10, <1>11, <1>12, <1>13 DEF SendFileAeroSync

LEMMA FinStep ==
  ASSUME TypeInv, StartInv, FinInv, [Next]_vars PROVE FinInv'
  <1> USE DEF TypeInv, FinInv, Over
  <1>1. CASE StartFile
    <2>1. next + 1 \in 1..Len(files) /\ command = "SendDir"
      BY <1>1, FilesType, SenderAssumption, SMTT(30) DEF SenderAssumption, StartFile, At, StartInv
    <2>2. files[next + 1] \in Files
      BY <2>1, FilesType
    <2>3. next + 1 > next
      OBVIOUS
    <2>4. step[files[next + 1]] = "none"
      BY <2>1, <2>3 DEF StartInv
    <2> QED BY <1>1, <2>2, <2>4 DEF StartFile, flow
  <1>2. CASE StatFile
    <2>1. files[1] \in Files /\ step[files[1]] = "none"
      BY <1>2, FirstFile DEF StatFile, At, StartInv
    <2> QED BY <1>2, <2>1 DEF StatFile, flow
  <1>3. CASE Return
    <2>1. files[1] \in Files
      BY <1>3, FirstFile DEF Return, At
    <2> QED BY <1>3, <2>1 DEF Return, Goto, flow
  <1>4. CASE Main /\ ~StartFile /\ ~StatFile /\ ~Return
    BY <1>4 DEF Main, Dial, DialFails, WalkDir, WalkFails, AddFile, EndLoop, Wait, Report,
                StatFails, Close, flow
  <1>5. ASSUME NEW f \in Files, CountFile(f) \/ Release(f) \/ Done(f)
        PROVE  FinInv'
    BY <1>5 DEF CountFile, Release, Done, Goto, flow
  <1>6. ASSUME NEW f \in Files, DrainEnds(f) \/ Server(f)
        PROVE  FinInv'
    BY <1>6, OthersStay
  <1>7. CASE GrantStream \/ LoseLink \/ UNCHANGED vars
    BY <1>7 DEF GrantStream, LoseLink, vars, flow
  <1> QED BY <1>1, <1>2, <1>3, <1>4, <1>5, <1>6, <1>7, FinSendFile DEF Next, Worker

\* What IInv says so far holds in every state.
LEMMA Basics == Spec => [](TypeInv /\ StartInv /\ FinInv)
  <1>1. Init => TypeInv /\ StartInv /\ FinInv
    BY TypeInit, StartInit DEF Init, FinInv
  <1>2. TypeInv /\ StartInv /\ FinInv /\ [Next]_vars => (TypeInv /\ StartInv /\ FinInv)'
    BY TypeStep, StartStep, FinStep
  <1> QED BY <1>1, <1>2, PTL DEF Spec

\* The end of a data stream means that the whole file has been written to it,
\* so that no failure of the sender makes the server keep a part of a file as
\* if it were all (quic.go:270-275).
THEOREM EndIsWhole == Spec => []EndMeansWhole
  <1>1. FinInv => EndMeansWhole
    BY DEF FinInv, EndMeansWhole
  <1> QED BY <1>1, Basics, PTL

-----------------------------------------------------------------------------
(***************************************************************************)
(* The counters of SendDir count goroutines.                               *)
(***************************************************************************)
\* The goroutines at a step of K, and those that have counted with fin = b.
In(K) == {f \in Files : step[f] \in K}
Ended(b) == {f \in Files : step[f] \in Over /\ fin[f] = b}

Holding == Sending \cup {"release"}
Working == Holding \cup {"done"}

CountInv ==
  IF command = "SendDir"
  THEN /\ sem = Cardinality(In(Holding))
       /\ main # "acquire" => wg = Cardinality(In(Working))
       /\ main = "acquire" => wg = Cardinality(In(Working)) + 1
       /\ sentCount = Cardinality(Ended(TRUE))
       /\ errCount = Cardinality(Ended(FALSE))
  ELSE sem = 0 /\ wg = 0 /\ sentCount = 0 /\ errCount = 0

LEMMA FilesFinite ==
  /\ IsFiniteSet(Files)
  /\ \A S \in SUBSET Files : IsFiniteSet(S) /\ Cardinality(S) \in Nat
  <1>1. files \in Surjection(1..Len(files), Files)
    <2>1. files \in [1..Len(files) -> Files]
      BY FilesType, SenderAssumption DEF SenderAssumption
    <2> QED BY <2>1, FilesType DEF Surjection
  <1>2. IsFiniteSet(1..Len(files))
    BY FS_Interval, FilesType
  <1>3. IsFiniteSet(Files)
    BY <1>1, <1>2, FS_Surjection
  <1> QED BY <1>3, FS_Subset, FS_CardinalityType

\* A goroutine enters K, leaves it, or does not cross its border.
LEMMA Enter ==
  ASSUME TypeInv, NEW K, NEW f \in Files, NEW to, step' = [step EXCEPT ![f] = to],
         step[f] \notin K, to \in K
  PROVE  Cardinality(In(K)') = Cardinality(In(K)) + 1
  <1>1. In(K)' = In(K) \cup {f} /\ f \notin In(K)
    BY DEF In, TypeInv
  <1>2. IsFiniteSet(In(K))
    BY FilesFinite DEF In
  <1> QED BY <1>1, <1>2, FS_AddElement

LEMMA Leave ==
  ASSUME TypeInv, NEW K, NEW f \in Files, NEW to, step' = [step EXCEPT ![f] = to],
         step[f] \in K, to \notin K
  PROVE  Cardinality(In(K)') = Cardinality(In(K)) - 1
  <1>1. In(K)' = In(K) \ {f} /\ f \in In(K)
    BY DEF In, TypeInv
  <1>2. IsFiniteSet(In(K))
    BY FilesFinite DEF In
  <1> QED BY <1>1, <1>2, FS_RemoveElement

LEMMA Stay ==
  ASSUME TypeInv, NEW K, NEW f \in Files, NEW to, step' = [step EXCEPT ![f] = to],
         step[f] \in K <=> to \in K
  PROVE  In(K)' = In(K)
  BY DEF In, TypeInv

LEMMA CountInit == Init => CountInv
  <1> SUFFICES ASSUME Init PROVE CountInv
    OBVIOUS
  <1>1. In(Holding) = {} /\ In(Working) = {} /\ Ended(TRUE) = {} /\ Ended(FALSE) = {}
    BY DEF Init, In, Ended, Holding, Working, Sending, Over
  <1>2. main = "dial" /\ sem = 0 /\ wg = 0 /\ sentCount = 0 /\ errCount = 0
    BY DEF Init
  <1> QED BY <1>1, <1>2, FS_EmptySet DEF CountInv

LEMMA CountMain ==
  ASSUME TypeInv, StartInv, FinInv, CountInv, Main PROVE CountInv'
  <1>1. CASE StartFile
    <2>1. next + 1 \in 1..Len(files) /\ next + 1 > next /\ command = "SendDir"
      BY <1>1, FilesType, SenderAssumption
         DEF SenderAssumption, StartFile, At, StartInv, TypeInv
    <2>2. files[next + 1] \in Files /\ step[files[next + 1]] = "none"
      BY <2>1, FilesType DEF StartInv
    <2>3. step' = [step EXCEPT ![files[next + 1]] = "hash"] /\ fin' = fin
      BY <1>1 DEF StartFile, flow
    <2>4. /\ Cardinality(In(Holding)') = Cardinality(In(Holding)) + 1
          /\ Cardinality(In(Working)') = Cardinality(In(Working)) + 1
      BY <2>2, <2>3, Enter DEF Holding, Working, Sending
    <2>5. Ended(TRUE)' = Ended(TRUE) /\ Ended(FALSE)' = Ended(FALSE)
      BY <2>2, <2>3 DEF Ended, Over, TypeInv
    <2>6. Cardinality(In(Working)) \in Nat
      BY FilesFinite DEF In
    <2> QED BY <1>1, <2>1, <2>4, <2>5, <2>6 DEF CountInv, StartFile, At
  <1>2. CASE StatFile \/ Return
    BY <1>2, SenderAssumption DEF SenderAssumption, StatFile, Return, At, CountInv, TypeInv, count
  <1>3. CASE Main /\ ~StartFile /\ ~StatFile /\ ~Return
    <2>1. UNCHANGED <<step, fin>>
      BY <1>3 DEF Main, Dial, DialFails, WalkDir, WalkFails, AddFile, EndLoop, Wait, Report,
                  StatFails, Close, flow
    <2>2. /\ In(Holding)' = In(Holding) /\ In(Working)' = In(Working)
          /\ Ended(TRUE)' = Ended(TRUE) /\ Ended(FALSE)' = Ended(FALSE)
      BY <2>1 DEF In, Ended
    <2>3. Cardinality(In(Working)) \in Nat
      BY FilesFinite DEF In
    <2>4. CASE AddFile
      <3>1. command = "SendDir" /\ command' = command /\ main = "loop" /\ main' = "acquire"
        BY <2>4 DEF TypeInv, AddFile, At, StartInv
      <3> QED BY <2>2, <2>3, <2>4, <3>1 DEF CountInv, AddFile
    <2>5. CASE ~AddFile
      <3>1. main # "acquire" /\ main' # "acquire" /\ UNCHANGED <<command, sem, wg, sentCount, errCount>>
        BY <1>3, <2>5 DEF Main, Dial, DialFails, WalkDir, WalkFails, EndLoop, Wait, Report,
                          StatFails, Close, At, count
      <3> QED BY <2>2, <3>1 DEF CountInv
    <2> QED BY <2>4, <2>5
  <1> QED BY <1>1, <1>2, <1>3

LEMMA CountSendFile ==
  ASSUME TypeInv, FinInv, CountInv, NEW f \in Files, SendFileAeroSync(f) PROVE CountInv'
  <1>1. /\ UNCHANGED <<command, main, sem, wg, sentCount, errCount>>
        /\ step[f] \in Sending \ {"sent", "failed"}
    BY SendFileEdge
  <1>2. PICK to \in Sending : step' = [step EXCEPT ![f] = to]
    BY SendFileEdge
  <1>3. In(Holding)' = In(Holding) /\ In(Working)' = In(Working)
    BY <1>1, <1>2, Stay DEF Holding, Working
  <1>4. \A g \in Files \ {f} : fin'[g] = fin[g]
    BY DEF SendFileAeroSync, HashFile, HashFails, OpenControl, OpenControlFails,
           WriteTransferStart, OpenData, OpenDataFails, WriteHeader, WriteFails, CopyBlock,
           CopyEnd, CopyFails, CloseData, flow, TypeInv
  <1>5. Ended(TRUE)' = Ended(TRUE) /\ Ended(FALSE)' = Ended(FALSE)
    BY <1>1, <1>2, <1>4 DEF Ended, Over, Sending, TypeInv
  <1> QED BY <1>1, <1>3, <1>5 DEF CountInv

LEMMA CountRest ==
  ASSUME TypeInv, StartInv, FinInv, CountInv, NEW f \in Files,
         CountFile(f) \/ Release(f) \/ Done(f)
  PROVE  CountInv'
  <1>0. command = "SendDir"
    <2>1. CASE command = "SendFile"
      BY <2>1 DEF StartInv, CountFile, Release, Done, Goto
    <2> QED BY <2>1 DEF TypeInv
  <1>1. CASE CountFile(f)
    <2>1. PICK b \in BOOLEAN :
            /\ step[f] = (IF b THEN "sent" ELSE "failed") /\ fin[f] = b
            /\ sentCount' = IF b THEN sentCount + 1 ELSE sentCount
            /\ errCount' = IF b THEN errCount ELSE errCount + 1
      <3>1. CASE step[f] = "sent"
        BY <1>1, <3>1 DEF CountFile, Goto, FinInv, TypeInv
      <3>2. CASE step[f] = "failed"
        BY <1>1, <3>2 DEF CountFile, Goto, FinInv, TypeInv, Over
      <3> QED BY <1>1, <3>1, <3>2 DEF CountFile, Goto
    <2>2. step' = [step EXCEPT ![f] = "release"] /\ fin' = fin /\ UNCHANGED <<command, main, sem, wg>>
      BY <1>1 DEF CountFile, Goto, flow, call
    <2>3. In(Holding)' = In(Holding) /\ In(Working)' = In(Working)
      BY <2>1, <2>2, Stay DEF Holding, Working, Sending
    <2>4. /\ f \notin Ended(b) /\ Ended(b)' = Ended(b) \cup {f}
          /\ Ended(~b)' = Ended(~b)
      BY <2>1, <2>2 DEF Ended, Over, TypeInv
    <2>5. Cardinality(Ended(b)') = Cardinality(Ended(b)) + 1
      BY <2>4, FilesFinite, FS_AddElement DEF Ended
    <2>6. CASE b = TRUE
      BY <1>0, <2>1, <2>2, <2>3, <2>4, <2>5, <2>6 DEF CountInv
    <2>7. CASE b = FALSE
      BY <1>0, <2>1, <2>2, <2>3, <2>4, <2>5, <2>7 DEF CountInv
    <2> QED BY <2>6, <2>7
  <1>2. CASE Release(f)
    <2>1. /\ step[f] = "release" /\ step' = [step EXCEPT ![f] = "done"] /\ fin' = fin
          /\ UNCHANGED <<command, main, wg, sentCount, errCount>> /\ sem' = sem - 1
      BY <1>2 DEF Release, Goto, flow, call
    <2>2. Cardinality(In(Holding)') = Cardinality(In(Holding)) - 1
      BY <2>1, Leave DEF Holding, Sending
    <2>3. In(Working)' = In(Working)
      BY <2>1, Stay DEF Holding, Working
    <2>4. Ended(TRUE)' = Ended(TRUE) /\ Ended(FALSE)' = Ended(FALSE)
      BY <2>1 DEF Ended, Over, TypeInv
    <2> QED BY <1>0, <2>1, <2>2, <2>3, <2>4 DEF CountInv
  <1>3. CASE Done(f)
    <2>1. /\ step[f] = "done" /\ step' = [step EXCEPT ![f] = "end"] /\ fin' = fin
          /\ UNCHANGED <<command, main, sem, sentCount, errCount>> /\ wg' = wg - 1
      BY <1>3 DEF Done, Goto, flow, call
    <2>2. In(Holding)' = In(Holding)
      BY <2>1, Stay DEF Holding, Sending
    <2>3. Cardinality(In(Working)') = Cardinality(In(Working)) - 1
      BY <2>1, Leave DEF Holding, Working, Sending
    <2>4. Ended(TRUE)' = Ended(TRUE) /\ Ended(FALSE)' = Ended(FALSE)
      BY <2>1 DEF Ended, Over, TypeInv
    <2>5. Cardinality(In(Working)) \in Nat
      BY FilesFinite DEF In
    <2>6. /\ main' # "acquire" => wg' = Cardinality(In(Working)')
          /\ main' = "acquire" => wg' = Cardinality(In(Working)') + 1
      BY <1>0, <2>1, <2>3, <2>5 DEF CountInv
    <2>7. sem' = Cardinality(In(Holding)')
      BY <1>0, <2>1, <2>2 DEF CountInv
    <2> QED BY <1>0, <2>1, <2>4, <2>6, <2>7 DEF CountInv
  <1> QED BY <1>1, <1>2, <1>3

LEMMA CountStep ==
  ASSUME TypeInv, StartInv, FinInv, CountInv, [Next]_vars PROVE CountInv'
  <1>1. ASSUME NEW f \in Files, DrainEnds(f) \/ Server(f)
        PROVE  CountInv'
    BY <1>1, OthersStay DEF CountInv, In, Ended
  <1>2. CASE GrantStream \/ LoseLink \/ UNCHANGED vars
    BY <1>2 DEF GrantStream, LoseLink, vars, call, count, flow, CountInv, In, Ended
  <1> QED BY <1>1, <1>2, CountMain, CountSendFile, CountRest DEF Next, Worker

-----------------------------------------------------------------------------
(***************************************************************************)
(* What main knows when it decides on the exit code: wg = 0 means that     *)
(* every goroutine it has started is over.                                 *)
(***************************************************************************)
QuietInv ==
  main \in {"grace", "close", "exited"} => \A f \in Files : step[f] \in {"none", "end"}

Counted == TypeInv /\ StartInv /\ FinInv /\ CountInv /\ QuietInv

\* Before the first file is started there is no goroutine.
LEMMA NothingStarted ==
  ASSUME TypeInv, StartInv, main \in {"dial", "walk", "stat"}
  PROVE  \A f \in Files : step[f] = "none"
  <1>1. CASE command = "SendDir"
    <2>1. next = 0
      BY <1>1 DEF StartInv, TypeInv
    <2> QED BY <1>1, <2>1, FilesType DEF StartInv
  <1>2. CASE command = "SendFile"
    BY <1>2 DEF StartInv
  <1> QED BY <1>1, <1>2 DEF TypeInv

LEMMA QuietMain ==
  ASSUME TypeInv, StartInv, CountInv, QuietInv, Main PROVE QuietInv'
  <1>1. CASE Wait
    <2>1. command = "SendDir" /\ wg = 0 /\ main = "wait" /\ step' = step
      BY <1>1 DEF TypeInv, Wait, At, StartInv
    <2>2. In(Working) = {}
      BY <2>1, FilesFinite, FS_EmptySet DEF CountInv, In
    <2> QED BY <2>1, <2>2 DEF QuietInv, In, TypeInv, Steps, Working, Holding
  <1>2. CASE DialFails \/ WalkFails \/ StatFails
    <2>1. main \in {"dial", "walk", "stat"} /\ step' = step
      BY <1>2 DEF DialFails, WalkFails, StatFails, At
    <2> QED BY <2>1, NothingStarted DEF QuietInv
  <1>3. CASE Return
    <2>1. /\ \A f \in Files \ {files[1]} : step[f] = "none"
          /\ step' = [step EXCEPT ![files[1]] = "end"]
      BY <1>3 DEF Return, At, Goto, TypeInv, StartInv
    <2> QED BY <2>1 DEF QuietInv, TypeInv
  <1>4. CASE Report \/ Close
    BY <1>4 DEF Report, Close, At, QuietInv
  <1>5. CASE Dial \/ WalkDir \/ AddFile \/ StartFile \/ EndLoop \/ StatFile
    BY <1>5 DEF Dial, WalkDir, AddFile, StartFile, EndLoop, StatFile, At, QuietInv
  <1> QED BY <1>1, <1>2, <1>3, <1>4, <1>5 DEF Main

LEMMA QuietStep ==
  ASSUME TypeInv, StartInv, CountInv, QuietInv, [Next]_vars PROVE QuietInv'
  <1>1. ASSUME NEW f \in Files, Worker(f) PROVE QuietInv'
    <2>1. main' = main /\ step[f] \notin {"none", "end"}
      BY <1>1, WorkerEdge DEF Sending
    <2> QED BY <2>1 DEF QuietInv
  <1>2. ASSUME NEW f \in Files, DrainEnds(f) \/ Server(f) PROVE QuietInv'
    BY <1>2, OthersStay DEF QuietInv
  <1>3. CASE GrantStream \/ LoseLink \/ UNCHANGED vars
    BY <1>3 DEF GrantStream, LoseLink, vars, call, QuietInv
  <1> QED BY <1>1, <1>2, <1>3, QuietMain DEF Next

\* Once main has decided nobody writes to a stream, and it decides once.
LEMMA DecidedStays ==
  ASSUME Counted, exit # None, [Next]_vars
  PROVE  UNCHANGED <<command, exit, fin, wrote>>
  <1>1. main \in {"close", "exited"} /\ \A f \in Files : step[f] \in {"none", "end"}
    BY DEF Counted, StartInv, QuietInv
  <1>2. ASSUME NEW f \in Files, Worker(f) PROVE FALSE
    <2>1. step[f] \in Sending \cup {"release", "done"}
      BY <1>2, WorkerEdge DEF Counted
    <2> QED BY <1>1, <2>1 DEF Sending
  <1>3. CASE Main
    BY <1>1, <1>3 DEF Main, Dial, DialFails, WalkDir, WalkFails, AddFile, StartFile, EndLoop,
                      Wait, Report, StatFile, StatFails, Return, Close, At, flow
  <1>4. ASSUME NEW f \in Files, DrainEnds(f) \/ Server(f) PROVE UNCHANGED <<command, exit, fin, wrote>>
    BY <1>4, OthersStay
  <1>5. CASE GrantStream \/ LoseLink \/ UNCHANGED vars
    BY <1>5 DEF GrantStream, LoseLink, vars, call, flow
  <1> QED BY <1>2, <1>3, <1>4, <1>5 DEF Next

\* It decides on what it has counted.
LEMMA Decides ==
  ASSUME Counted, exit = None, exit' # None, [Next]_vars
  PROVE  ExitTellsStreams'
  <1> USE DEF Counted, ExitSuccess, ExitErrorConn, ExitErrorPartial, ExitErrorAll, ExitFatal
  <1>1. Main
    <2>1. ASSUME NEW f \in Files, Worker(f) PROVE FALSE
      BY <2>1, WorkerEdge
    <2>2. ASSUME NEW f \in Files, DrainEnds(f) \/ Server(f) PROVE FALSE
      BY <2>2, OthersStay
    <2> QED BY <2>1, <2>2 DEF Next, GrantStream, LoseLink, vars, call
  <1>2. CASE Report
    <2>1. /\ main = "grace" /\ command = "SendDir" /\ command' = command /\ next = Len(files)
          /\ fin' = fin /\ wrote' = wrote
          /\ exit' = IF errCount = 0 THEN ExitSuccess
                     ELSE IF sentCount = 0 THEN ExitErrorAll ELSE ExitErrorPartial
      BY <1>2, SenderAssumption DEF SenderAssumption, TypeInv, Report, At, StartInv, flow
    <2>2. \A f \in Files : step[f] = "end"
      <3>1. \A i \in 1..Len(files) : ~(i > next)
        BY <2>1, FilesType
      <3>2. \A i \in 1..Len(files) : step[files[i]] # "none"
        BY <2>1, <3>1 DEF StartInv
      <3> QED BY <2>1, <3>2, FilesType DEF QuietInv
    <2>3. Ended(TRUE) = {f \in Files : fin[f]} /\ Ended(FALSE) = {f \in Files : ~fin[f]}
      BY <2>2 DEF Ended, Over, TypeInv
    <2>4. errCount = 0 <=> Ended(FALSE) = {}
      BY <2>1, FilesFinite, FS_EmptySet DEF CountInv, Ended
    <2>5. sentCount = 0 <=> Ended(TRUE) = {}
      BY <2>1, FilesFinite, FS_EmptySet DEF CountInv, Ended
    <2>6. \A f \in Files : fin'[f] /\ wrote'[f] = LengthOf[f] <=> fin[f]
      BY <2>1 DEF FinInv
    <2>7. errCount = 0 <=> \A f \in Files : fin[f]
      BY <2>3, <2>4
    <2>8. sentCount = 0 <=> \A f \in Files : ~fin[f]
      BY <2>3, <2>5
    <2>9. /\ exit' = ExitSuccess => errCount = 0
          /\ exit' = ExitErrorPartial => errCount # 0 /\ sentCount # 0
          /\ exit' = ExitErrorAll => sentCount = 0
      BY <2>1
    <2> QED BY <2>1, <2>6, <2>7, <2>8, <2>9 DEF ExitTellsStreams, Handed, Targets
  <1>3. CASE Return
    <2>1. command' = "SendFile" /\ files[1] \in Files
      BY <1>3, FirstFile DEF Return, At, TypeInv
    <2>2. fin' = fin /\ wrote' = wrote
      BY <1>3 DEF Return, flow
    <2>3. \/ step[files[1]] = "sent" /\ exit' = ExitSuccess
          \/ step[files[1]] = "failed" /\ exit' = ExitErrorAll
      BY <1>3 DEF Return, Goto
    <2> QED BY <2>1, <2>2, <2>3 DEF FinInv, Over, Handed, ExitTellsStreams, Targets
  <1>4. CASE DialFails \/ WalkFails \/ StatFails
    <2>1. /\ main \in {"dial", "walk", "stat"} /\ fin' = fin
          /\ exit' \in {ExitErrorConn, ExitErrorAll, ExitFatal}
      BY <1>4 DEF DialFails, WalkFails, StatFails, At, flow
    <2>2. \A f \in Files : ~fin[f]
      BY <2>1, NothingStarted DEF FinInv, Over
    <2>3. Targets' \subseteq Files
      BY <1>4, FirstFile DEF Targets, TypeInv, DialFails, WalkFails, StatFails, At
    <2> QED BY <2>1, <2>2, <2>3 DEF ExitTellsStreams, Handed
  <1>5. CASE Main /\ ~Report /\ ~Return /\ ~DialFails /\ ~WalkFails /\ ~StatFails
    BY <1>5 DEF Main, Dial, WalkDir, AddFile, StartFile, EndLoop, Wait, StatFile, Close
  <1> QED BY <1>1, <1>2, <1>3, <1>4, <1>5

LEMMA CountedAlways == Spec => [](Counted /\ ExitTellsStreams)
  <1>1. Init => Counted /\ ExitTellsStreams
    BY TypeInit, StartInit, CountInit, SenderAssumption
       DEF SenderAssumption, Init, FinInv, QuietInv, Counted, ExitTellsStreams,
           ExitSuccess, ExitErrorPartial, ExitErrorAll
  <1>2. Counted /\ [Next]_vars => Counted'
    BY TypeStep, StartStep, FinStep, CountStep, QuietStep DEF Counted
  <1>3. Counted /\ ExitTellsStreams /\ [Next]_vars => ExitTellsStreams'
    <2> SUFFICES ASSUME Counted, ExitTellsStreams, [Next]_vars PROVE ExitTellsStreams'
      OBVIOUS
    <2>1. CASE exit # None
      BY <2>1, DecidedStays DEF ExitTellsStreams, Handed, Targets
    <2>2. CASE exit = None /\ exit' # None
      BY <2>2, Decides
    <2>3. CASE exit' = None
      BY <2>3, SenderAssumption DEF SenderAssumption, ExitTellsStreams, ExitSuccess,
                                    ExitErrorPartial, ExitErrorAll
    <2> QED BY <2>1, <2>2, <2>3
  <1> QED BY <1>1, <1>2, <1>3, PTL DEF Spec

\* The exit code of a command that was connected is that of what it handed to
\* the data streams (quic.go:178-184, 344-348; main.go:21, 27, 28).
THEOREM ExitIsRight == Spec => []ExitTellsStreams
  BY CountedAlways, PTL

\* A SendFile that reports an error has not written the end of its stream.
ErrorInv ==
  command = "SendFile" /\ exit \notin {None, ExitSuccess} => ~fin[files[1]]

LEMMA ErrorStep ==
  ASSUME Counted, ErrorInv, [Next]_vars PROVE ErrorInv'
  <1> USE DEF Counted
  <1>1. CASE exit # None
    BY <1>1, DecidedStays DEF ErrorInv
  <1>2. CASE exit = None /\ exit' # None
    <2>1. \A f \in Files : ~Worker(f) /\ ~DrainEnds(f) /\ ~Server(f)
      BY <1>2, WorkerEdge, OthersStay
    <2>2. Main
      BY <1>2, <2>1 DEF Next, GrantStream, LoseLink, vars, call
    <2>3. CASE DialFails \/ WalkFails \/ StatFails
      <3>1. main \in {"dial", "walk", "stat"} /\ UNCHANGED <<fin, command>>
        BY <2>3 DEF DialFails, WalkFails, StatFails, At, flow
      <3>2. \A f \in Files : ~fin[f]
        BY <3>1, NothingStarted DEF FinInv, Over
      <3> QED BY <3>1, <3>2, FirstFile DEF ErrorInv, TypeInv
    <2>4. CASE Report
      BY <2>4, SenderAssumption DEF SenderAssumption, Report, At, StartInv, TypeInv, ErrorInv
    <2>5. CASE Return
      <3>1. files[1] \in Files
        BY <2>5, FirstFile DEF Return, At, TypeInv
      <3> QED BY <2>5, <3>1 DEF Return, Goto, flow, FinInv, Over, ErrorInv
    <2> QED BY <1>2, <2>2, <2>3, <2>4, <2>5
            DEF Main, Dial, WalkDir, AddFile, StartFile, EndLoop, Wait, StatFile, Close
  <1>3. CASE exit' = None
    BY <1>3 DEF ErrorInv
  <1> QED BY <1>1, <1>2, <1>3

\* Once main has decided, no more streams have been ended than it says it has
\* sent files (quic.go:155-161, 178-184, 344-348).
EndedIsReported ==
  exit # None =>
    Cardinality({f \in Files : fin[f]}) <=
      (IF command = "SendDir" THEN sentCount ELSE IF exit = ExitSuccess THEN 1 ELSE 0)

THEOREM EndedIsReportedAlways == Spec => []EndedIsReported
  <1>1. Counted /\ ErrorInv => EndedIsReported
    <2> SUFFICES ASSUME Counted, ErrorInv, exit # None PROVE EndedIsReported
      BY DEF EndedIsReported
    <2> DEFINE Ends == {f \in Files : fin[f]}
    <2> USE DEF Counted
    <2>1. \A f \in Files : fin[f] => step[f] = "end"
      BY DEF StartInv, QuietInv, FinInv, Over
    <2>2. CASE command = "SendDir"
      <3>1. Ends = Ended(TRUE)
        BY <2>1 DEF Ended, Over, TypeInv
      <3>2. sentCount = Cardinality(Ends) /\ Cardinality(Ends) \in Nat
        BY <2>2, <3>1, FilesFinite DEF CountInv
      <3> QED BY <2>2, <3>2 DEF EndedIsReported
    <2>3. CASE command = "SendFile"
      <3>1. files[1] \in Files /\ \A f \in Files \ {files[1]} : ~fin[f]
        BY <2>1, <2>3, FirstFile DEF StartInv, TypeInv
      <3>2. CASE exit = ExitSuccess
        <4>1. Ends \subseteq {files[1]}
          BY <3>1
        <4>2. IsFiniteSet({files[1]}) /\ Cardinality({files[1]}) = 1
          BY FS_Singleton
        <4>3. Cardinality(Ends) <= 1
          BY <4>1, <4>2, FS_Subset
        <4> QED BY <2>3, <3>2, <4>3 DEF EndedIsReported
      <3>3. CASE exit # ExitSuccess
        <4>1. Ends = {}
          BY <2>3, <3>1, <3>3 DEF ErrorInv
        <4>2. Cardinality(Ends) = 0
          BY <4>1, FS_EmptySet
        <4> QED BY <2>3, <3>3, <4>2 DEF EndedIsReported
      <3> QED BY <3>2, <3>3
    <2> QED BY <2>2, <2>3 DEF TypeInv
  <1>2. Init => ErrorInv
    BY DEF Init, ErrorInv
  <1> QED BY <1>1, <1>2, ErrorStep, CountedAlways, PTL DEF Spec

\* main closes the connection after every goroutine that uses it
\* (quic.go:149-165).
THEOREM ClosesLast == Spec => []NobodyLeftBehind
  <1>1. Counted => NobodyLeftBehind
    BY DEF Counted, StartInv, QuietInv, NobodyLeftBehind
  <1> QED BY <1>1, CountedAlways, PTL

-----------------------------------------------------------------------------
(***************************************************************************)
(* How far a file has got: its tries, its receipts and its data stream.    *)
(***************************************************************************)
FileInv == \A f \in Files :
  /\ tries[f] <= OpenTries
  /\ step[f] = "open" => tries[f] < OpenTries
  /\ step[f] \in {"none", "hash", "ctrl", "start"} => tries[f] = 0 /\ drainer[f] = "none"
  /\ step[f] \in {"none", "hash", "ctrl", "start", "open", "header"} => peer[f] = "none"
  /\ step[f] \in {"open", "header", "copy", "fin", "sent"} => drainer[f] # "none"
  /\ step[f] \in {"copy", "fin", "sent"} => peer[f] # "none"
  /\ fin[f] => peer[f] # "none"
  /\ peer[f] # "none" => drainer[f] # "none"

LEMMA FileInit == Init => FileInv
  BY SenderAssumption DEF SenderAssumption, Init, FileInv

LEMMA FileSendFile ==
  ASSUME TypeInv, FileInv, NEW f \in Files, SendFileAeroSync(f) PROVE FileInv'
  <1>0. OpenTries \in Nat \ {0}
    BY SenderAssumption DEF SenderAssumption
  <1> USE <1>0 DEF Goto, TypeInv, FileInv, flow, env
  <1>1. CASE HashFile(f)
    BY <1>1 DEF HashFile
  <1>2. CASE HashFails(f)
    BY <1>2 DEF HashFails
  <1>3. CASE OpenControl(f)
    BY <1>3 DEF OpenControl
  <1>4. CASE OpenControlFails(f)
    BY <1>4 DEF OpenControlFails
  <1>5. CASE WriteTransferStart(f)
    BY <1>5 DEF WriteTransferStart
  <1>6. CASE OpenData(f)
    BY <1>6 DEF OpenData
  <1>7. CASE OpenDataFails(f)
    BY <1>7 DEF OpenDataFails
  <1>8. CASE WriteHeader(f)
    BY <1>8 DEF WriteHeader
  <1>9. CASE WriteFails(f)
    BY <1>9 DEF WriteFails
  <1>10. CASE CopyBlock(f)
    BY <1>10 DEF CopyBlock
  <1>11. CASE CopyEnd(f)
    BY <1>11 DEF CopyEnd
  <1>12. CASE CopyFails(f)
    BY <1>12 DEF CopyFails
  <1>13. CASE CloseData(f)
    BY <1>13 DEF CloseData
  <1> QED BY <1>1, <1>2, <1>3, <1>4, <1>5, <1>6, <1>7, <1>8, <1>9, <1>10, <1>11, <1>12, <1>13 DEF SendFileAeroSync

\* A goroutine main starts has not been started before.
LEMMA StartsFresh ==
  ASSUME TypeInv, StartInv, StartFile \/ StatFile
  PROVE  \E f \in Files : step[f] = "none" /\ step' = [step EXCEPT ![f] = "hash"]
  <1>1. CASE StartFile
    <2>1. next + 1 \in 1..Len(files) /\ next + 1 > next /\ command = "SendDir"
      BY <1>1, FilesType, SenderAssumption
         DEF SenderAssumption, StartFile, At, StartInv, TypeInv
    <2>2. files[next + 1] \in Files /\ step[files[next + 1]] = "none"
      BY <2>1, FilesType DEF StartInv
    <2> QED BY <1>1, <2>2 DEF StartFile
  <1>2. CASE StatFile
    BY <1>2, FirstFile DEF StatFile, At, StartInv, TypeInv
  <1> QED BY <1>1, <1>2

\* What the steps of main do to a goroutine.
LEMMA MainEdge ==
  ASSUME TypeInv, StartInv, Main
  PROVE  /\ UNCHANGED <<tries, opened, wrote, fin, drainer, allowed, read, peer>>
         /\ \/ step' = step
            \/ \E f \in Files, to \in {"hash", "end"} :
                 /\ step' = [step EXCEPT ![f] = to]
                 /\ to = "hash" => step[f] = "none"
                 /\ to = "end" => step[f] \in {"sent", "failed"}
  <1>1. UNCHANGED <<tries, opened, wrote, fin, drainer, allowed, read, peer>>
    BY DEF Main, Dial, DialFails, WalkDir, WalkFails, AddFile, StartFile, EndLoop, Wait,
           Report, StatFile, StatFails, Return, Close, flow, env
  <1>2. CASE StartFile \/ StatFile
    BY <1>1, <1>2, StartsFresh
  <1>3. CASE Return
    <2>1. files[1] \in Files
      BY <1>3, FirstFile DEF Return, At, TypeInv
    <2> QED BY <1>1, <1>3, <2>1 DEF Return, Goto
  <1>4. CASE Main /\ ~StartFile /\ ~StatFile /\ ~Return
    BY <1>1, <1>4 DEF Main, Dial, DialFails, WalkDir, WalkFails, AddFile, EndLoop, Wait,
                      Report, StatFails, Close
  <1> QED BY <1>2, <1>3, <1>4

LEMMA FileStep ==
  ASSUME TypeInv, StartInv, FileInv, [Next]_vars PROVE FileInv'
  <1> USE DEF TypeInv, FileInv
  <1>1. CASE Main
    <2>1. UNCHANGED <<tries, fin, drainer, peer>>
      BY <1>1, MainEdge
    <2>2. CASE step' = step
      BY <2>1, <2>2
    <2>3. ASSUME NEW f \in Files, NEW to \in {"hash", "end"},
                 step' = [step EXCEPT ![f] = to], to = "hash" => step[f] = "none"
          PROVE  FileInv'
      BY <2>1, <2>3
    <2> QED BY <1>1, <2>2, <2>3, MainEdge
  <1>2. ASSUME NEW f \in Files, CountFile(f) \/ Release(f) \/ Done(f)
        PROVE  FileInv'
    BY <1>2, SMTT(30) DEF CountFile, Release, Done, Goto, flow, env
  <1>3. ASSUME NEW f \in Files, DrainEnds(f) \/ Server(f)
        PROVE  FileInv'
    <2>1. CASE DrainEnds(f)
      BY <2>1 DEF DrainEnds, flow, env
    <2>2. CASE ServerReads(f)
      BY <2>2 DEF ServerReads, flow
    <2>3. CASE ServerFinishes(f)
      BY <2>3 DEF ServerFinishes, flow
    <2>4. CASE ServerAbandons(f)
      BY <2>4 DEF ServerAbandons, flow
    <2> QED BY <1>3, <2>1, <2>2, <2>3, <2>4 DEF Server
  <1>4. CASE GrantStream \/ LoseLink \/ UNCHANGED vars
    BY <1>4 DEF GrantStream, LoseLink, vars, flow, env
  <1> QED BY <1>1, <1>2, <1>3, <1>4, FileSendFile DEF Next, Worker

-----------------------------------------------------------------------------
(***************************************************************************)
(* Streams.  A file has announced itself when its control stream is open,  *)
(* and has data when its data stream is.                                   *)
(***************************************************************************)
Announced == {f \in Files : drainer[f] # "none" \/ step[f] = "start"}
HasData == {f \in Files : peer[f] # "none" \/ step[f] = "header"}
Complete == {f \in Files : peer[f] = "done"}

StreamInv ==
  /\ Cardinality(Announced) + Cardinality(HasData) <= opened
  /\ allowed <= StreamLimit + Cardinality(Complete)
  /\ HasData = {} \/ Cardinality(HasData) < StreamLimit

LEMMA Cards ==
  /\ IsFiniteSet(Announced) /\ IsFiniteSet(HasData) /\ IsFiniteSet(Complete)
  /\ Cardinality(Announced) \in Nat /\ Cardinality(HasData) \in Nat
  /\ Cardinality(Complete) \in Nat
  BY FilesFinite DEF Announced, HasData, Complete

\* Fewer streams, or more that are complete, and no other is opened or allowed.
LEMMA Shrink ==
  ASSUME TypeInv, StreamInv, UNCHANGED <<opened, allowed>>,
         Announced' \subseteq Announced, HasData' \subseteq HasData, Complete \subseteq Complete'
  PROVE  StreamInv'
  <1>1. IsFiniteSet(Complete') /\ Cardinality(Complete') \in Nat
    BY FilesFinite DEF Complete
  <1>2. Cardinality(Announced') <= Cardinality(Announced) /\ Cardinality(Announced') \in Nat
    BY Cards, FS_Subset, FS_CardinalityType
  <1>3. Cardinality(HasData') <= Cardinality(HasData) /\ Cardinality(HasData') \in Nat
    BY Cards, FS_Subset, FS_CardinalityType
  <1>4. Cardinality(Complete) <= Cardinality(Complete')
    BY <1>1, FS_Subset
  <1>5. StreamLimit \in Nat /\ opened \in Nat /\ allowed \in Nat
    BY SenderAssumption DEF SenderAssumption, TypeInv
  <1>6. HasData' = {} \/ HasData # {}
    OBVIOUS
  <1> QED BY <1>1, <1>2, <1>3, <1>4, <1>5, <1>6, Cards DEF StreamInv

\* A stream is opened while fewer files than StreamLimit have announced
\* themselves: all their control streams are open, and a data stream frees
\* no more than its own place.
LEMMA RoomToAnnounce ==
  ASSUME TypeInv, StreamInv, opened < allowed
  PROVE  Cardinality(Announced) < StreamLimit
  <1>1. Complete \subseteq HasData
    BY DEF Complete, HasData
  <1>2. Cardinality(Complete) <= Cardinality(HasData)
    BY <1>1, Cards, FS_Subset
  <1>3. StreamLimit \in Nat /\ opened \in Nat /\ allowed \in Nat
    BY SenderAssumption DEF SenderAssumption, TypeInv
  <1> QED BY <1>2, <1>3, Cards DEF StreamInv

LEMMA StreamInit == Init => StreamInv
  <1> SUFFICES ASSUME Init PROVE StreamInv
    OBVIOUS
  <1>1. Announced = {} /\ HasData = {} /\ Complete = {}
    BY DEF Init, Announced, HasData, Complete
  <1> QED BY <1>1, FS_EmptySet, SenderAssumption DEF Init, StreamInv, SenderAssumption

LEMMA StreamOpens ==
  ASSUME TypeInv, FileInv, StreamInv, NEW f \in Files, OpenControl(f) \/ OpenData(f)
  PROVE  StreamInv'
  <1>0. /\ opened < allowed /\ opened' = opened + 1 /\ UNCHANGED <<allowed, drainer, peer>>
        /\ StreamLimit \in Nat /\ opened \in Nat /\ allowed \in Nat
    BY SenderAssumption DEF SenderAssumption, OpenControl, OpenData, MayOpen, env, TypeInv
  <1>1. Cardinality(Announced) < StreamLimit
    BY <1>0, RoomToAnnounce
  <1>2. Complete' = Complete
    BY <1>0 DEF Complete
  <1>3. CASE OpenControl(f)
    <2>1. step[f] = "ctrl" /\ step' = [step EXCEPT ![f] = "start"]
      BY <1>3 DEF OpenControl, Goto
    <2>2. f \notin Announced /\ Announced' = Announced \cup {f} /\ HasData' = HasData
      BY <1>0, <2>1 DEF Announced, HasData, FileInv, TypeInv
    <2>3. Cardinality(Announced') = Cardinality(Announced) + 1
      BY <2>2, Cards, FS_AddElement
    <2> QED BY <1>0, <1>2, <2>2, <2>3, Cards DEF StreamInv
  <1>4. CASE OpenData(f)
    <2>1. step[f] = "open" /\ step' = [step EXCEPT ![f] = "header"]
      BY <1>4 DEF OpenData, Goto
    <2>2. /\ f \notin HasData /\ HasData' = HasData \cup {f} /\ Announced' = Announced
          /\ HasData' \subseteq Announced
      BY <1>0, <2>1 DEF Announced, HasData, FileInv, TypeInv
    <2>3. Cardinality(HasData') = Cardinality(HasData) + 1
      BY <2>2, Cards, FS_AddElement
    <2>4. Cardinality(HasData') <= Cardinality(Announced)
      BY <2>2, Cards, FS_Subset
    <2> QED BY <1>0, <1>1, <1>2, <2>2, <2>3, <2>4, Cards DEF StreamInv
  <1> QED BY <1>3, <1>4

LEMMA StreamStep ==
  ASSUME TypeInv, StartInv, FileInv, StreamInv, [Next]_vars PROVE StreamInv'
  <1>1. CASE Main
    <2>1. UNCHANGED <<opened, allowed, drainer, peer>>
      BY <1>1, MainEdge
    <2>2. \A g \in Files : step'[g] \in {"start", "header"} => step[g] = step'[g]
      BY <1>1, MainEdge DEF TypeInv
    <2>3. Announced' \subseteq Announced /\ HasData' \subseteq HasData /\ Complete' = Complete
      BY <2>1, <2>2 DEF Announced, HasData, Complete
    <2> QED BY <2>1, <2>3, Shrink
  <1>2. ASSUME NEW f \in Files, SendFileAeroSync(f) PROVE StreamInv'
    <2>1. CASE OpenControl(f) \/ OpenData(f)
      BY <2>1, StreamOpens
    <2>2. CASE WriteTransferStart(f) \/ WriteHeader(f)
      BY <2>2, Shrink DEF WriteTransferStart, WriteHeader, Goto, Announced, HasData, Complete,
                          TypeInv, FileInv, flow, env
    <2>3. CASE ~(OpenControl(f) \/ OpenData(f) \/ WriteTransferStart(f) \/ WriteHeader(f))
      <3>1. /\ UNCHANGED <<opened, allowed, drainer, peer>>
            /\ \A g \in Files : step'[g] \in {"start", "header"} => step[g] = step'[g]
        BY <1>2, <2>3 DEF SendFileAeroSync, HashFile, HashFails, OpenControlFails, OpenDataFails,
             WriteFails, CopyBlock, CopyEnd, CopyFails, CloseData, Goto, flow, env, TypeInv
      <3>2. /\ Announced' \subseteq Announced /\ HasData' \subseteq HasData
            /\ Complete' = Complete
        BY <3>1 DEF Announced, HasData, Complete
      <3> QED BY <3>1, <3>2, Shrink
    <2> QED BY <2>1, <2>2, <2>3
  <1>3. ASSUME NEW f \in Files, CountFile(f) \/ Release(f) \/ Done(f)
        PROVE  StreamInv'
    <2>1. /\ UNCHANGED <<opened, allowed, drainer, peer>>
          /\ \A g \in Files : step'[g] \in {"start", "header"} => step[g] = step'[g]
      BY <1>3 DEF CountFile, Release, Done, Goto, flow, env, TypeInv
    <2>2. Announced' \subseteq Announced /\ HasData' \subseteq HasData /\ Complete' = Complete
      BY <2>1 DEF Announced, HasData, Complete
    <2> QED BY <2>1, <2>2, Shrink
  <1>4. ASSUME NEW f \in Files, DrainEnds(f) \/ Server(f) PROVE StreamInv'
    <2>1. UNCHANGED <<opened, allowed, step>>
      BY <1>4 DEF DrainEnds, Server, ServerReads, ServerFinishes, ServerAbandons, flow, env
    <2>2. /\ Announced' \subseteq Announced /\ HasData' \subseteq HasData
          /\ Complete \subseteq Complete'
      BY <1>4, <2>1 DEF DrainEnds, Server, ServerReads, ServerFinishes, ServerAbandons, flow, env,
                        Announced, HasData, Complete, TypeInv
    <2> QED BY <2>1, <2>2, Shrink
  <1>5. CASE GrantStream
    <2>1. /\ UNCHANGED <<opened, step, drainer, peer>>
          /\ allowed' = allowed + 1 /\ allowed < StreamLimit + Cardinality(Complete)
      BY <1>5 DEF GrantStream, flow, Complete
    <2>2. Announced' = Announced /\ HasData' = HasData /\ Complete' = Complete
      BY <2>1 DEF Announced, HasData, Complete
    <2> QED BY <2>1, <2>2, Cards, SenderAssumption, SMTT(30) DEF SenderAssumption, StreamInv, TypeInv
  <1>6. CASE LoseLink \/ UNCHANGED vars
    BY <1>6, Shrink DEF LoseLink, vars, flow, env, Announced, HasData, Complete
  <1> QED BY <1>1, <1>2, <1>3, <1>4, <1>5, <1>6 DEF Next, Worker

LEMMA StreamsAlways == Spec => [](Counted /\ FileInv /\ StreamInv)
  <1>1. Init => FileInv /\ StreamInv
    BY FileInit, StreamInit
  <1>2. Counted /\ FileInv /\ StreamInv /\ [Next]_vars => FileInv' /\ StreamInv'
    BY FileStep, StreamStep DEF Counted
  <1> QED BY <1>1, <1>2, CountedAlways, PTL DEF Spec

\* A connection hands over fewer files than its stream limit, however many it
\* is given and however often opening is retried (quic.go:210, 247-253, 431).
THEOREM StreamsAreFew == Spec => []StreamsRunOut
  <1>1. TypeInv /\ FileInv /\ StreamInv => StreamsRunOut
    <2> SUFFICES ASSUME TypeInv, FileInv, StreamInv PROVE StreamsRunOut
      OBVIOUS
    <2> DEFINE Ends == {f \in Files : fin[f]}
    <2>1. Ends \subseteq HasData
      BY DEF FileInv, HasData
    <2>2. Cardinality(Ends) <= Cardinality(HasData) /\ Cardinality(Ends) \in Nat
      BY <2>1, Cards, FS_Subset, FilesFinite
    <2>3. HasData = {} => Cardinality(HasData) = 0
      BY FS_EmptySet
    <2>4. StreamLimit \in Nat
      BY SenderAssumption DEF SenderAssumption
    <2> QED BY <2>2, <2>3, <2>4, Cards DEF StreamInv, StreamsRunOut
  <1> QED BY <1>1, StreamsAlways, PTL DEF Counted

\* The counters stay in their ranges: the semaphore and the WaitGroup are
\* never released more often than acquired (quic.go:153-164).
THEOREM SenderTypes == Spec => []TypeOK
  <1>1. Counted /\ FileInv => TypeOK
    <2> SUFFICES ASSUME Counted, FileInv PROVE TypeOK
      OBVIOUS
    <2>1. sem \in Nat /\ wg \in Nat /\ sentCount \in Nat /\ errCount \in Nat
      BY FilesFinite DEF Counted, CountInv, In, Ended
    <2>2. tries \in [Files -> 0..OpenTries]
      BY SenderAssumption DEF SenderAssumption, Counted, FileInv, TypeInv
    <2> QED BY <2>1, <2>2 DEF Counted, TypeInv, TypeOK
  <1> QED BY <1>1, StreamsAlways, PTL
=============================================================================
