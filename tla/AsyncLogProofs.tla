--------------------------- MODULE AsyncLogProofs ---------------------------
(***************************************************************************)
(* Theorems about AsyncLog, for every capacity, flush size, file size and  *)
(* bound: how many lines are lost, the order of those that are written,    *)
(* and what a rotation leaves.                                             *)
(***************************************************************************)
EXTENDS AsyncLog, SequenceTheorems, FiniteSetTheorems, TLAPS

LEMMA RotationType == Rotation \in Seq(Calls) /\ << >> \in Seq(Calls)
  BY DEF Rotation, Remove, Rename, Calls, Names

\* The file is there while lines are written to it, and rotation is over before
\* the goroutine starts.
FileInv ==
  /\ ~up => writer = "off" /\ todo = << >>
  /\ writer = "write" => files["log"] # None
  /\ todo # << >> => writer = "off"

TypeInv == TypeOK /\ FileInv

LEMMA EmptyQueue == << >> \in Seq(Nat) /\ Len(<< >>) = 0 /\ << >> \in Seq(Calls)
  OBVIOUS

LEMMA TypeInit == Init => TypeInv
  <1> SUFFICES ASSUME Init PROVE TypeInv
    OBVIOUS
  <1>1. files \in [Names -> Seq(Nat) \cup {None}]
    BY DEF Init
  <1>2. logChan \in Seq(Nat) /\ Len(logChan) <= ChanSize /\ buf \in Seq(Nat) /\ done \in 0..Len(buf)
    BY EmptyQueue, LogAssumption DEF Init, LogAssumption
  <1>3. todo \in Seq(Calls) /\ written \in Seq(Nat)
    BY EmptyQueue DEF Init
  <1>4. logged \in 0..MaxLines /\ starts \in 0..MaxStarts /\ faults \in 0..MaxFaults
    BY LogAssumption DEF Init, LogAssumption
  <1>5. FileInv
    BY DEF Init, FileInv
  <1> QED BY <1>1, <1>2, <1>3, <1>4, <1>5 DEF Init, TypeInv, TypeOK

LEMMA TypeStep == TypeInv /\ [Next]_vars => TypeInv'
  <1> SUFFICES ASSUME TypeInv, [Next]_vars PROVE TypeInv'
    OBVIOUS
  <1> USE LogAssumption, EmptyQueue
      DEF LogAssumption, TypeInv, TypeOK, FileInv, queues, bounds, history, vars
  <1>0. "log" \in Names
    BY DEF Names
  <1>1. CASE Start
    <2>1. todo' \in Seq(Calls)
      BY <1>1, RotationType DEF Start
    <2> QED BY <1>1, <2>1 DEF Start
  <1>2. CASE Rotate
    <2>1. todo' \in Seq(Calls)
      BY <1>2 DEF Rotate
    <2>2. Head(todo) \in Calls
      BY <1>2 DEF Rotate
    <2>3. files' \in [Names -> Seq(Nat) \cup {None}]
      BY <1>2, <2>2 DEF Rotate, Calls
    <2>4. writer = "off" /\ UNCHANGED writer
      BY <1>2 DEF Rotate
    <2> QED BY <1>2, <2>1, <2>3, <2>4 DEF Rotate
  <1>3. CASE Go
    BY <1>3 DEF Go
  <1>4. CASE Write
    <2>1. logChan' \in Seq(Nat) /\ Len(logChan') <= ChanSize
      BY <1>4 DEF Write
    <2> QED BY <1>4, <2>1 DEF Write
  <1>5. CASE Tick
    BY <1>5 DEF Tick
  <1>6. CASE Receive
    <2>1. Head(logChan) \in Nat /\ Tail(logChan) \in Seq(Nat) /\ Len(Tail(logChan)) <= ChanSize
      BY <1>6, SMTT(30) DEF Receive
    <2>2. buf' \in Seq(Nat) /\ Len(buf') = Len(buf) + 1
      BY <1>6, <2>1 DEF Receive
    <2>3. done' \in 0..Len(buf') /\ logChan' \in Seq(Nat) /\ Len(logChan') <= ChanSize
      BY <1>6, <2>1, <2>2 DEF Receive
    <2>4. writer' \in {"select", "open"} /\ writer = "select"
      BY <1>6 DEF Receive
    <2>5. UNCHANGED <<up, todo, tick, files, bounds, history>>
      BY <1>6 DEF Receive
    <2> QED BY <2>2, <2>3, <2>4, <2>5
  <1>7. CASE ReceiveTick
    BY <1>7 DEF ReceiveTick
  <1>8. CASE OpenFile
    <2>1. files' \in [Names -> Seq(Nat) \cup {None}] /\ files'["log"] # None
      <3>1. files["log"] # None => files["log"] \in Seq(Nat)
        BY <1>0
      <3> QED BY <1>0, <1>8, <3>1 DEF OpenFile
    <2>2. done' \in 0..Len(buf') /\ writer' = "write" /\ todo' = << >>
      BY <1>8 DEF OpenFile
    <2> QED BY <1>8, <2>1, <2>2 DEF OpenFile
  <1>9. CASE OpenFileFails
    BY <1>9 DEF OpenFileFails
  <1>10. CASE WriteLine
    <2>1. buf[done + 1] \in Nat
      <3>1. done + 1 \in 1..Len(buf) /\ buf \in Seq(Nat)
        BY <1>10 DEF WriteLine
      <3> QED BY <3>1
    <2>2. written' \in Seq(Nat)
      BY <1>10, <2>1 DEF WriteLine
    <2>3. files["log"] \in Seq(Nat)
      BY <1>0, <1>10 DEF WriteLine
    <2>4. files' \in [Names -> Seq(Nat) \cup {None}] /\ files'["log"] # None
      <3>1. Append(files["log"], buf[done + 1]) \in Seq(Nat)
        BY <2>1, <2>3
      <3>2. files' = [files EXCEPT !["log"] = Append(files["log"], buf[done + 1])]
        BY <1>10 DEF WriteLine
      <3> QED BY <1>0, <3>1, <3>2
    <2>5. done' \in 0..Len(buf')
      BY <1>10 DEF WriteLine
    <2>6. UNCHANGED <<up, todo, writer, tick, logChan, buf, bounds, failed>>
      BY <1>10 DEF WriteLine
    <2> QED BY <2>2, <2>4, <2>5, <2>6
  <1>11. CASE WriteLineFails
    BY <1>11 DEF WriteLineFails
  <1>12. CASE EndFlush
    BY <1>12 DEF EndFlush
  <1>13. CASE Die
    <2>1. buf' \in Seq(Nat) /\ logChan' \in Seq(Nat) /\ todo' \in Seq(Calls)
      BY <1>13 DEF Die
    <2>2. Len(logChan') <= ChanSize /\ done' \in 0..Len(buf')
      BY <1>13 DEF Die
    <2>3. FileInv'
      BY <1>13 DEF Die
    <2> QED BY <1>13, <2>1, <2>2, <2>3 DEF Die
  <1>14. CASE UNCHANGED vars
    BY <1>14
  <1> QED BY <1>1, <1>2, <1>3, <1>4, <1>5, <1>6, <1>7, <1>8, <1>9, <1>10, <1>11, <1>12,
             <1>13, <1>14 DEF Next, Starting, AsyncLogWriter

LEMMA TypeAlways == Spec => []TypeInv
  BY TypeInit, TypeStep, PTL DEF Spec

(***************************************************************************)
(* Types: the channel never holds more than its capacity, and a flush      *)
(* never goes past the end of the buffer (logging.go:25, 49, 75).          *)
(***************************************************************************)
THEOREM LogTypes == Spec => []TypeOK
  BY TypeAlways, PTL DEF TypeInv

-----------------------------------------------------------------------------
\* A buffer that is full enough has been flushed, or its flush has failed.
BufferInv ==
  /\ writer \in {"off", "select", "open"} => done = 0
  /\ writer = "off" => buf = << >>
  /\ writer = "select" /\ ~failed => Len(buf) < FlushAt

LEMMA BufferStep == TypeInv /\ BufferInv /\ [Next]_vars => BufferInv'
  <1> SUFFICES ASSUME TypeInv, BufferInv, [Next]_vars PROVE BufferInv'
    OBVIOUS
  <1> USE LogAssumption
      DEF LogAssumption, TypeInv, TypeOK, BufferInv, queues, bounds, history, vars
  <1>1. CASE Start \/ Rotate \/ Write \/ Tick \/ UNCHANGED vars
    BY <1>1 DEF Start, Rotate, Write, Tick
  <1>2. CASE Go
    BY <1>2 DEF Go
  <1>3. CASE Receive
    BY <1>3 DEF Receive
  <1>4. CASE ReceiveTick
    BY <1>4 DEF ReceiveTick
  <1>5. CASE OpenFile \/ OpenFileFails
    BY <1>5 DEF OpenFile, OpenFileFails
  <1>6. CASE WriteLine \/ WriteLineFails
    BY <1>6 DEF WriteLine, WriteLineFails
  <1>7. CASE EndFlush
    BY <1>7 DEF EndFlush
  <1>8. CASE Die
    BY <1>8 DEF Die
  <1> QED BY <1>1, <1>2, <1>3, <1>4, <1>5, <1>6, <1>7, <1>8 DEF Next, Starting, AsyncLogWriter

LEMMA BufferAlways == Spec => [](TypeInv /\ BufferInv)
  <1>1. Init => BufferInv
    BY LogAssumption DEF Init, BufferInv, LogAssumption
  <1> QED BY <1>1, TypeInit, TypeStep, BufferStep, PTL DEF Spec

(***************************************************************************)
(* However the writer, the ticker and the loggers interleave, the end of   *)
(* the process costs less than a full channel and one flush while the file *)
(* can be opened.                                                          *)
(***************************************************************************)
THEOREM LossIsBoundedAlways == Spec => []LossIsBounded
  <1>1. TypeInv /\ BufferInv => LossIsBounded
    <2> SUFFICES ASSUME TypeInv, BufferInv, writer = "select", ~failed
                 PROVE  Len(Waiting) < ChanSize + FlushAt
      BY DEF LossIsBounded
    <2> USE LogAssumption DEF LogAssumption, TypeInv, TypeOK, BufferInv
    <2>1. done = 0 /\ Len(buf) < FlushAt
      OBVIOUS
    <2>2. SubSeq(buf, done + 1, Len(buf)) \in Seq(Nat)
          /\ Len(SubSeq(buf, done + 1, Len(buf))) = Len(buf)
      BY <2>1
    <2> QED BY <2>1, <2>2 DEF Waiting
  <1> QED BY <1>1, BufferAlways, PTL

-----------------------------------------------------------------------------
(***************************************************************************)
(* Rotation.  The name log.3 is never used: what is moved to it has been   *)
(* removed before.                                                         *)
(***************************************************************************)
Without1 == <<Remove("log.3"), Rename("log.2", "log.3"), Rename("log.1", "log.2"), Rename("log", "log.1")>>
Without2 == <<Rename("log.2", "log.3"), Rename("log.1", "log.2"), Rename("log", "log.1")>>
Without3 == <<Rename("log.1", "log.2"), Rename("log", "log.1")>>
Without4 == <<Rename("log", "log.1")>>

RotationInv ==
  /\ files["log.3"] = None
  /\ todo \in {Rotation, Without1, Without2, Without3, Without4, << >>}
  /\ todo \in {Without1, Without2} => files["log.2"] = None

LEMMA RotationSteps ==
  /\ Head(Rotation) = Remove("log.2") /\ Tail(Rotation) = Without1
  /\ Head(Without1) = Remove("log.3") /\ Tail(Without1) = Without2
  /\ Head(Without2) = Rename("log.2", "log.3") /\ Tail(Without2) = Without3
  /\ Head(Without3) = Rename("log.1", "log.2") /\ Tail(Without3) = Without4
  /\ Head(Without4) = Rename("log", "log.1") /\ Tail(Without4) = << >>
  BY DEF Rotation, Without1, Without2, Without3, Without4

LEMMA RotationDiffer ==
  /\ Len(Rotation) = 5 /\ Len(Without1) = 4 /\ Len(Without2) = 3 /\ Len(Without3) = 2
  /\ Len(Without4) = 1
  BY DEF Rotation, Without1, Without2, Without3, Without4

LEMMA RotationStep == TypeInv /\ RotationInv /\ [Next]_vars => RotationInv'
  <1> SUFFICES ASSUME TypeInv, RotationInv, [Next]_vars PROVE RotationInv'
    OBVIOUS
  <1> USE DEF queues, bounds, history, vars
  <1>0. /\ files \in [Names -> Seq(Nat) \cup {None}]
        /\ {"log", "log.1", "log.2", "log.3"} = Names
    BY DEF TypeInv, TypeOK, Names
  <1>1. CASE Start
    <2>1. UNCHANGED files /\ todo' \in {Rotation, << >>}
      BY <1>1 DEF Start
    <2>2. Rotation # Without1 /\ Rotation # Without2
      BY RotationDiffer
    <2>3. << >> # Without1 /\ << >> # Without2
      BY RotationDiffer, EmptyQueue
    <2> QED BY <2>1, <2>2, <2>3 DEF RotationInv
  <1>2. CASE Rotate
    <2>1. CASE todo = Rotation
      BY <1>0, <1>2, <2>1, RotationSteps, RotationDiffer DEF Rotate, RotationInv, Remove
    <2>2. CASE todo = Without1
      BY <1>0, <1>2, <2>2, RotationSteps, RotationDiffer DEF Rotate, RotationInv, Remove
    <2>3. CASE todo = Without2
      BY <1>0, <1>2, <2>3, RotationSteps, RotationDiffer DEF Rotate, RotationInv, Rename
    <2>4. CASE todo = Without3
      <3>1. Head(todo).op = "rename" /\ Head(todo).from # "log.3" /\ Head(todo).to # "log.3"
        BY <2>4, RotationSteps DEF Rename
      <3>2. todo' = Without4
        BY <1>2, <2>4, RotationSteps DEF Rotate
      <3>3. files'["log.3"] = files["log.3"]
        BY <1>0, <1>2, <3>1 DEF Rotate
      <3>4. todo' \notin {Without1, Without2}
        BY <3>2, RotationDiffer, EmptyQueue
      <3> QED BY <3>2, <3>3, <3>4 DEF RotationInv
    <2>5. CASE todo = Without4
      <3>1. Head(todo).op = "rename" /\ Head(todo).from # "log.3" /\ Head(todo).to # "log.3"
        BY <2>5, RotationSteps DEF Rename
      <3>2. todo' = << >>
        BY <1>2, <2>5, RotationSteps DEF Rotate
      <3>3. files'["log.3"] = files["log.3"]
        BY <1>0, <1>2, <3>1 DEF Rotate
      <3>4. todo' \notin {Without1, Without2}
        BY <3>2, RotationDiffer, EmptyQueue
      <3> QED BY <3>2, <3>3, <3>4 DEF RotationInv
    <2> QED BY <1>2, <2>1, <2>2, <2>3, <2>4, <2>5 DEF Rotate, RotationInv
  <1>3. CASE OpenFile \/ WriteLine
    <2>1. UNCHANGED todo /\ files'["log.3"] = files["log.3"] /\ files'["log.2"] = files["log.2"]
      BY <1>0, <1>3 DEF OpenFile, WriteLine
    <2> QED BY <2>1 DEF RotationInv
  <1>4. CASE Die
    <2>1. UNCHANGED files /\ todo' = << >>
      BY <1>4 DEF Die
    <2>2. todo' \notin {Without1, Without2}
      BY <2>1, RotationDiffer, EmptyQueue
    <2> QED BY <2>1, <2>2 DEF RotationInv
  <1>5. CASE \/ Go \/ Write \/ Tick \/ Receive \/ ReceiveTick \/ OpenFileFails \/ WriteLineFails
             \/ EndFlush \/ UNCHANGED vars
    <2>1. UNCHANGED <<todo, files>>
      BY <1>5 DEF Go, Write, Tick, Receive, ReceiveTick, OpenFileFails, WriteLineFails, EndFlush
    <2> QED BY <2>1 DEF RotationInv
  <1> QED BY <1>1, <1>2, <1>3, <1>4, <1>5 DEF Next, Starting, AsyncLogWriter

(***************************************************************************)
(* There are at most two old logs, wherever rotations are cut off.         *)
(***************************************************************************)
THEOREM TwoOldLogsAlways == Spec => []TwoOldLogs
  <1>1. Init => RotationInv
    BY DEF Init, RotationInv, Names
  <1>2. TypeInv /\ RotationInv => TwoOldLogs
    <2> SUFFICES ASSUME RotationInv PROVE TwoOldLogs
      OBVIOUS
    <2> DEFINE kept == {n \in Names \ {"log"} : files[n] # None}
    <2>1. kept \in SUBSET {"log.1", "log.2"}
      BY DEF RotationInv, Names
    <2>2. IsFiniteSet({"log.1"}) /\ Cardinality({"log.1"}) = 1
      BY FS_Singleton
    <2>3. {"log.1"} \cup {"log.2"} = {"log.1", "log.2"}
      OBVIOUS
    <2>4. IsFiniteSet({"log.1", "log.2"}) /\ Cardinality({"log.1", "log.2"}) = 2
      BY <2>2, <2>3, FS_AddElement
    <2>5. IsFiniteSet(kept) /\ Cardinality(kept) <= 2
      BY <2>1, <2>4, FS_Subset
    <2> QED BY <2>5 DEF TwoOldLogs
  <1> QED BY <1>1, <1>2, TypeInit, TypeStep, RotationStep, PTL DEF Spec

-----------------------------------------------------------------------------
(***************************************************************************)
(* Sequences: s is the end of w.                                           *)
(***************************************************************************)
IsEnd(s, w) == Len(s) <= Len(w) /\ \A i \in 1..Len(s) : s[i] = w[Len(w) - Len(s) + i]

LEMMA SubSeqOfNats ==
  ASSUME NEW w \in Seq(Nat), NEW m \in Int, NEW n \in Int, m >= 1, n <= Len(w)
  PROVE  /\ SubSeq(w, m, n) \in Seq(Nat)
         /\ Len(SubSeq(w, m, n)) = IF m <= n THEN n - m + 1 ELSE 0
         /\ \A i \in 1..(n - m + 1) : SubSeq(w, m, n)[i] = w[m + i - 1]
  <1>1. \A i \in m..n : w[i] \in Nat
    OBVIOUS
  <1> QED BY ONLY <1>1, m \in Int, n \in Int, SubSeqProperties

LEMMA EndIsSubSeq ==
  ASSUME NEW w \in Seq(Nat), NEW s \in Seq(Nat), IsEnd(s, w)
  PROVE  s = SubSeq(w, Len(w) - Len(s) + 1, Len(w))
  <1> DEFINE m == Len(w) - Len(s) + 1
             t == SubSeq(w, m, Len(w))
  <1>1. Len(w) \in Nat /\ Len(s) \in Nat /\ Len(s) <= Len(w)
    BY DEF IsEnd
  <1>2. m \in Int /\ Len(w) \in Int /\ m >= 1 /\ m <= Len(w) + 1 /\ Len(w) - m + 1 = Len(s)
    BY <1>1
  <1>3. t \in Seq(Nat) /\ Len(t) = (IF m <= Len(w) THEN Len(w) - m + 1 ELSE 0)
        /\ \A i \in 1..(Len(w) - m + 1) : t[i] = w[m + i - 1]
    <2> HIDE DEF m
    <2> QED BY <1>2, SubSeqOfNats
  <1>4. Len(t) = Len(s)
    BY <1>1, <1>2, <1>3
  <1>5. \A i \in 1..Len(s) : s[i] = t[i]
    BY <1>1, <1>3 DEF IsEnd
  <1> HIDE DEF t
  <1>6. s = t
    BY <1>3, <1>4, <1>5, SeqEqual
  <1> QED BY <1>6 DEF t

LEMMA EndDrops ==
  ASSUME NEW w \in Seq(Nat), NEW a \in Seq(Nat), NEW b \in Seq(Nat), IsEnd(a \o b, w)
  PROVE  IsEnd(b, w)
  <1>1. /\ Len(a) \in Nat /\ Len(b) \in Nat /\ Len(w) \in Nat
        /\ Len(a \o b) = Len(a) + Len(b)
        /\ \A i \in 1..(Len(a) + Len(b)) : (a \o b)[i] = IF i <= Len(a) THEN a[i] ELSE b[i - Len(a)]
    BY ConcatProperties
  <1>2. ASSUME NEW i \in 1..Len(b) PROVE b[i] = w[Len(w) - Len(b) + i]
    <2>1. Len(a) + i \in 1..(Len(a) + Len(b)) /\ ~(Len(a) + i <= Len(a)) /\ Len(a) + i - Len(a) = i
      BY <1>1
    <2>2. (a \o b)[Len(a) + i] = b[i]
      BY <1>1, <2>1
    <2>3. (a \o b)[Len(a) + i] = w[Len(w) - (Len(a) + Len(b)) + (Len(a) + i)]
      BY <1>1, <2>1 DEF IsEnd
    <2>4. Len(w) - (Len(a) + Len(b)) + (Len(a) + i) = Len(w) - Len(b) + i
      BY <1>1
    <2> QED BY <2>2, <2>3, <2>4
  <1> QED BY <1>1, <1>2 DEF IsEnd

LEMMA EndGrows ==
  ASSUME NEW w \in Seq(Nat), NEW s \in Seq(Nat), IsEnd(s, w), NEW e \in Nat
  PROVE  IsEnd(Append(s, e), Append(w, e))
  <1>1. /\ Len(s) \in Nat /\ Len(w) \in Nat /\ Len(s) <= Len(w)
        /\ Len(Append(s, e)) = Len(s) + 1 /\ Len(Append(w, e)) = Len(w) + 1
    BY DEF IsEnd
  <1>2. ASSUME NEW i \in 1..(Len(s) + 1)
        PROVE  Append(s, e)[i] = Append(w, e)[Len(w) - Len(s) + i]
    <2>1. CASE i = Len(s) + 1
      <3>1. Append(s, e)[Len(s) + 1] = e /\ Append(w, e)[Len(w) + 1] = e
        OBVIOUS
      <3>2. Len(w) - Len(s) + i = Len(w) + 1
        BY <1>1, <2>1
      <3> QED BY <2>1, <3>1, <3>2
    <2>2. CASE i # Len(s) + 1
      <3>1. i \in 1..Len(s) /\ Len(w) - Len(s) + i \in 1..Len(w)
        BY <1>1, <2>2
      <3>2. Append(s, e)[i] = s[i] /\ Append(w, e)[Len(w) - Len(s) + i] = w[Len(w) - Len(s) + i]
        BY <3>1
      <3> QED BY <3>1, <3>2 DEF IsEnd
    <2> QED BY <2>1, <2>2
  <1>3. Len(Append(w, e)) - Len(Append(s, e)) = Len(w) - Len(s)
    BY <1>1
  <1>4. \A i \in 1..Len(Append(s, e)) :
          Append(s, e)[i] = Append(w, e)[Len(Append(w, e)) - Len(Append(s, e)) + i]
    BY <1>1, <1>2, <1>3
  <1> HIDE DEF IsEnd
  <1>5. Len(Append(s, e)) <= Len(Append(w, e))
    BY <1>1
  <1> QED BY <1>4, <1>5 DEF IsEnd

LEMMA AppendToEnd ==
  ASSUME NEW a \in Seq(Nat), NEW b \in Seq(Nat), NEW e \in Nat
  PROVE  a \o Append(b, e) = Append(a \o b, e)
  <1>1. a \o Append(b, e) \in Seq(Nat) /\ Append(a \o b, e) \in Seq(Nat)
    OBVIOUS
  <1>2. Len(a \o Append(b, e)) = Len(Append(a \o b, e))
    OBVIOUS
  <1>3. \A i \in 1..Len(a \o Append(b, e)) : (a \o Append(b, e))[i] = Append(a \o b, e)[i]
    OBVIOUS
  <1> QED BY <1>1, <1>2, <1>3, SeqEqual

-----------------------------------------------------------------------------
(***************************************************************************)
(* The files.  A name a line of the rotation moves a file to is free.      *)
(***************************************************************************)
All == Lines("log.2") \o (Lines("log.1") \o Lines("log"))

GapInv ==
  /\ todo = Without3 => files["log.2"] = None
  /\ todo = Without4 => files["log.1"] = None
  /\ IsEnd(All, written)

LEMMA LinesType ==
  ASSUME TypeInv
  PROVE  \A n \in Names : Lines(n) \in Seq(Nat)
  BY DEF TypeInv, TypeOK, Lines

LEMMA KeptIsAll ==
  ASSUME TypeInv, RotationInv
  PROVE  Kept = All /\ Kept \in Seq(Nat)
  <1> DEFINE a == Lines("log.2")
             b == Lines("log.1")
             c == Lines("log")
  <1>1. Lines("log.3") = << >> /\ a \in Seq(Nat) /\ b \in Seq(Nat) /\ c \in Seq(Nat)
    BY LinesType DEF RotationInv, Lines, Names
  <1> HIDE DEF a, b, c
  <1>2. << >> \o a = a
    BY <1>1, ConcatEmptySeq
  <1>3. (a \o b) \o c = a \o (b \o c) /\ (a \o b) \o c \in Seq(Nat)
    BY <1>1, ConcatAssociative
  <1>4. Kept = ((Lines("log.3") \o a) \o b) \o c /\ All = a \o (b \o c)
    BY DEF Kept, Old, All, a, b, c
  <1> QED BY <1>1, <1>2, <1>3, <1>4

LEMMA Distinct ==
  /\ Without1 # Without3 /\ Without1 # Without4 /\ Without2 # Without3 /\ Without2 # Without4
  /\ Without3 # Without4 /\ Rotation # Without3 /\ Rotation # Without4
  /\ << >> # Without3 /\ << >> # Without4
  <1>1. Len(<< >>) = 0
    BY EmptyQueue
  <1>2. 5 # 2 /\ 5 # 1 /\ 4 # 2 /\ 4 # 1 /\ 3 # 2 /\ 3 # 1 /\ 2 # 1 /\ 0 # 2 /\ 0 # 1
    OBVIOUS
  <1> QED BY <1>1, <1>2, RotationDiffer, Zenon

LEMMA Removes ==
  ASSUME TypeInv, Rotate, NEW n \in Names, Head(todo) = Remove(n)
  PROVE  Lines(n)' = << >> /\ \A k \in Names \ {n} : Lines(k)' = Lines(k)
  <1>1. files \in [Names -> Seq(Nat) \cup {None}]
    BY DEF TypeInv, TypeOK
  <1>2. Head(todo).op = "remove" /\ Head(todo).from = n
    BY DEF Remove
  <1>3. files' = [files EXCEPT ![n] = None]
    BY <1>2 DEF Rotate
  <1> QED BY <1>1, <1>3 DEF Lines

LEMMA Renames ==
  ASSUME TypeInv, Rotate, NEW m \in Names, NEW n \in Names, m # n, Head(todo) = Rename(m, n)
  PROVE  /\ files'[m] = None
         /\ \/ Lines(m) = << >> /\ \A k \in Names : Lines(k)' = Lines(k)
            \/ /\ Lines(n)' = Lines(m) /\ Lines(m)' = << >>
               /\ \A k \in Names \ {m, n} : Lines(k)' = Lines(k)
  <1>1. files \in [Names -> Seq(Nat) \cup {None}]
    BY DEF TypeInv, TypeOK
  <1>0. Head(todo).op = "rename" /\ Head(todo).from = m /\ Head(todo).to = n
    BY DEF Rename
  <1>2. CASE files[m] = None
    <2>1. files' = files
      BY <1>0, <1>2 DEF Rotate
    <2> QED BY <1>2, <2>1 DEF Lines
  <1>3. CASE files[m] # None
    <2>1. files' = [files EXCEPT ![n] = files[m], ![m] = None]
      BY <1>0, <1>3 DEF Rotate
    <2> QED BY <1>1, <1>3, <2>1 DEF Lines
  <1> QED BY <1>2, <1>3

\* What the five calls do to the files.
LEMMA RotationMoves ==
  ASSUME TypeInv, RotationInv, GapInv, Rotate
  PROVE  /\ \/ /\ Lines("log.2")' = << >>
               /\ Lines("log.1")' = Lines("log.1") /\ Lines("log")' = Lines("log")
            \/ /\ Lines("log.2") = << >> /\ Lines("log.1")' = << >>
               /\ Lines("log.2")' = Lines("log.1") /\ Lines("log")' = Lines("log")
            \/ /\ Lines("log.1") = << >> /\ Lines("log")' = << >>
               /\ Lines("log.2")' = Lines("log.2") /\ Lines("log.1")' = Lines("log")
            \/ /\ Lines("log.2")' = Lines("log.2")
               /\ Lines("log.1")' = Lines("log.1") /\ Lines("log")' = Lines("log")
         /\ todo' = Without3 => files'["log.2"] = None
         /\ todo' = Without4 => files'["log.1"] = None
  <1>0. /\ "log" \in Names /\ "log.1" \in Names /\ "log.2" \in Names /\ "log.3" \in Names
        /\ todo # << >> /\ todo' = Tail(todo)
    BY DEF Names, Rotate
  <1>1. CASE todo = Rotation
    <2>1. todo' = Without1 /\ todo' # Without3 /\ todo' # Without4
      BY <1>0, <1>1, RotationSteps, Distinct
    <2> QED BY <1>0, <1>1, <2>1, RotationSteps, Removes
  <1>2. CASE todo = Without1
    <2>1. todo' = Without2 /\ todo' # Without3 /\ todo' # Without4
      BY <1>0, <1>2, RotationSteps, Distinct
    <2> QED BY <1>0, <1>2, <2>1, RotationSteps, Removes
  <1>3. CASE todo = Without2
    <2>1. todo' = Without3 /\ todo' # Without4 /\ Lines("log.2") = << >>
      BY <1>0, <1>3, RotationSteps, Distinct DEF RotationInv, Lines
    <2>2. /\ files'["log.2"] = None /\ Lines("log.2")' = << >>
          /\ Lines("log.1")' = Lines("log.1") /\ Lines("log")' = Lines("log")
      BY <1>0, <1>3, <2>1, RotationSteps, Renames
    <2> QED BY <2>1, <2>2
  <1>4. CASE todo = Without3
    <2>1. todo' = Without4 /\ todo' # Without3 /\ Lines("log.2") = << >>
      BY <1>0, <1>4, RotationSteps, Distinct DEF GapInv, Lines
    <2> QED BY <1>0, <1>4, <2>1, RotationSteps, Renames
  <1>5. CASE todo = Without4
    <2>1. todo' # Without3 /\ todo' # Without4 /\ Lines("log.1") = << >>
      BY <1>0, <1>5, RotationSteps, Distinct DEF GapInv, Lines
    <2> QED BY <1>0, <1>5, <2>1, RotationSteps, Renames
  <1> QED BY <1>0, <1>1, <1>2, <1>3, <1>4, <1>5 DEF RotationInv

LEMMA GapStep == TypeInv /\ TypeInv' /\ RotationInv /\ GapInv /\ [Next]_vars => GapInv'
  <1> SUFFICES ASSUME TypeInv, TypeInv', RotationInv, GapInv, [Next]_vars PROVE GapInv'
    OBVIOUS
  <1> USE DEF queues, bounds, history, vars
  <1> DEFINE a == Lines("log.2")
             b == Lines("log.1")
             c == Lines("log")
  <1>0. /\ a \in Seq(Nat) /\ b \in Seq(Nat) /\ c \in Seq(Nat) /\ b \o c \in Seq(Nat)
        /\ written \in Seq(Nat) /\ IsEnd(a \o (b \o c), written)
    BY LinesType DEF Names, GapInv, All, TypeInv, TypeOK
  <1>1. CASE Rotate
    <2>1. UNCHANGED written
      BY <1>1 DEF Rotate
    <2>2. IsEnd(All', written)
      <3>1. CASE a' = << >> /\ b' = b /\ c' = c
        <4>1. All' = b \o c
          BY <1>0, <3>1, ConcatEmptySeq DEF All
        <4> QED BY <1>0, <4>1, EndDrops
      <3>2. CASE a = << >> /\ b' = << >> /\ a' = b /\ c' = c
        <4>1. All' = b \o (<< >> \o c)
          BY <3>2 DEF All
        <4>2. << >> \o c = c
          BY <1>0, ConcatEmptySeq
        <4> QED BY <1>0, <4>1, <4>2, EndDrops
      <3>3. CASE b = << >> /\ c' = << >> /\ a' = a /\ b' = c
        <4>1. All' = a \o (c \o << >>)
          BY <3>3 DEF All
        <4>2. c \o << >> = c /\ << >> \o c = c
          BY <1>0, ConcatEmptySeq
        <4> QED BY <1>0, <3>3, <4>1, <4>2
      <3>4. CASE a' = a /\ b' = b /\ c' = c
        BY <1>0, <3>4 DEF All
      <3> QED BY <1>1, <3>1, <3>2, <3>3, <3>4, RotationMoves
    <2> QED BY <1>1, <2>1, <2>2, RotationMoves DEF GapInv, IsEnd
  <1>2. CASE WriteLine
    <2> DEFINE e == buf[done + 1]
    <2>1. e \in Nat /\ todo = << >> /\ todo' = << >>
      <3>1. buf \in Seq(Nat) /\ done + 1 \in 1..Len(buf)
        BY <1>2 DEF WriteLine, TypeInv, TypeOK
      <3> QED BY <1>2, <3>1 DEF WriteLine, TypeInv, FileInv
    <2>2. a' = a /\ b' = b /\ c' = Append(c, e) /\ written' = Append(written, e)
      <3>1. files \in [Names -> Seq(Nat) \cup {None}] /\ files["log"] # None /\ "log" \in Names
        BY <1>2 DEF TypeInv, TypeOK, FileInv, WriteLine, Names
      <3>2. files' = [files EXCEPT !["log"] = Append(files["log"], e)] /\ written' = Append(written, e)
        BY <1>2 DEF WriteLine
      <3>3. Append(files["log"], e) # None
        <4>1. files["log"] \in Seq(Nat)
          BY <3>1
        <4>2. Append(files["log"], e) \in Seq(Nat)
          BY <2>1, <4>1
        <4> QED BY <4>2, LogAssumption DEF LogAssumption
      <3> HIDE DEF e
      <3> QED BY <3>1, <3>2, <3>3 DEF Lines, Names
    <2> HIDE DEF a, b, c, e
    <2>3. a \o (b \o Append(c, e)) = Append(a \o (b \o c), e)
      <3>1. b \o Append(c, e) = Append(b \o c, e) /\ b \o c \in Seq(Nat)
        BY <1>0, <2>1, AppendToEnd
      <3> DEFINE bc == b \o c
      <3> HIDE DEF bc
      <3>2. bc \in Seq(Nat) => a \o Append(bc, e) = Append(a \o bc, e)
        BY <1>0, <2>1, AppendToEnd
      <3> QED BY <3>1, <3>2 DEF bc
    <2>4. a \o (b \o c) \in Seq(Nat)
      BY <1>0
    <2>5. IsEnd(Append(a \o (b \o c), e), Append(written, e))
      BY <1>0, <2>1, <2>4, EndGrows
    <2>6. All' = a' \o (b' \o c')
      BY DEF All, a, b, c
    <2>7. IsEnd(All', written')
      BY <2>2, <2>3, <2>5, <2>6
    <2> QED BY <2>1, <2>7, Distinct DEF GapInv, IsEnd
  <1>3. CASE OpenFile
    <2>1. UNCHANGED <<a, b, c, written, todo>> /\ todo = << >>
      <3>1. files \in [Names -> Seq(Nat) \cup {None}]
        BY DEF TypeInv, TypeOK
      <3> QED BY <1>3, <3>1 DEF OpenFile, Lines, Names, TypeInv, FileInv
    <2>2. All' = All
      BY <2>1 DEF All
    <2> QED BY <2>1, <2>2, Distinct DEF GapInv, IsEnd
  <1>4. CASE Start \/ Die
    <2>1. UNCHANGED <<files, written>> /\ todo' \in {Rotation, << >>}
      BY <1>4 DEF Start, Die
    <2>2. All' = All
      BY <2>1 DEF All, Lines
    <2> QED BY <2>1, <2>2, Distinct DEF GapInv, IsEnd
  <1>5. CASE \/ Go \/ Write \/ Tick \/ Receive \/ ReceiveTick \/ OpenFileFails \/ WriteLineFails
             \/ EndFlush \/ UNCHANGED vars
    <2>1. UNCHANGED <<todo, files, written>>
      BY <1>5 DEF Go, Write, Tick, Receive, ReceiveTick, OpenFileFails, WriteLineFails, EndFlush
    <2>2. All' = All
      BY <2>1 DEF All, Lines
    <2> QED BY <2>1, <2>2 DEF GapInv, IsEnd
  <1> QED BY <1>1, <1>2, <1>3, <1>4, <1>5 DEF Next, Starting, AsyncLogWriter

LEMMA GapInit == Init => RotationInv /\ GapInv
  <1> SUFFICES ASSUME Init PROVE RotationInv /\ GapInv
    OBVIOUS
  <1>1. All = << >> \o (<< >> \o << >>) /\ written = << >> /\ todo = << >>
    BY DEF Init, All, Lines, Names
  <1>2. << >> \in Seq(Nat) /\ Len(<< >>) = 0
    BY EmptyQueue
  <1>3. All = << >>
    BY <1>1, <1>2, ConcatEmptySeq
  <1>4. RotationInv
    BY DEF Init, RotationInv, Names
  <1>5. IsEnd(All, written)
    BY <1>1, <1>2, <1>3 DEF IsEnd
  <1> QED BY <1>1, <1>4, <1>5, Distinct DEF GapInv

LEMMA FilesAlways == Spec => [](TypeInv /\ RotationInv /\ GapInv)
  BY GapInit, TypeInit, TypeStep, RotationStep, GapStep, PTL DEF Spec

(***************************************************************************)
(* Rotation drops the oldest lines first: what the files hold is the end   *)
(* of all that was written, wherever a rotation is cut off and begun again.*)
(***************************************************************************)
THEOREM NoGapsAlways == Spec => []NoGaps
  <1>1. TypeInv /\ RotationInv /\ GapInv => NoGaps
    <2> SUFFICES ASSUME TypeInv, RotationInv, GapInv PROVE NoGaps
      OBVIOUS
    <2>1. written \in Seq(Nat) /\ Kept \in Seq(Nat) /\ IsEnd(Kept, written)
      BY KeptIsAll DEF GapInv, TypeInv, TypeOK
    <2>2. Kept = SubSeq(written, Len(written) - Len(Kept) + 1, Len(written))
      BY <2>1, EndIsSubSeq
    <2> QED BY <2>1, <2>2 DEF NoGaps, IsEnd
  <1> QED BY <1>1, FilesAlways, PTL

-----------------------------------------------------------------------------
(***************************************************************************)
(* The order of the lines: in what was written, in what is left of the     *)
(* buffer, in the channel, and from each of them to the next.              *)
(***************************************************************************)
Rising(s, m) == \A i, j \in m..Len(s) : i < j => s[i] < s[j]
Before(s, m, t, n) == \A i \in m..Len(s), j \in n..Len(t) : s[i] < t[j]
UpTo(s, m, x) == \A i \in m..Len(s) : s[i] <= x

OrderInv ==
  /\ Rising(written, 1) /\ Rising(buf, done + 1) /\ Rising(logChan, 1)
  /\ Before(written, 1, buf, done + 1) /\ Before(written, 1, logChan, 1)
  /\ Before(buf, done + 1, logChan, 1)
  /\ UpTo(written, 1, logged) /\ UpTo(buf, done + 1, logged) /\ UpTo(logChan, 1, logged)

\* A line at the end of a queue.
LEMMA Appended ==
  ASSUME NEW s \in Seq(Nat), NEW e \in Nat, NEW m \in Nat \ {0}
  PROVE  /\ Append(s, e) \in Seq(Nat)
         /\ Rising(s, m) /\ (\A i \in m..Len(s) : s[i] < e) => Rising(Append(s, e), m)
         /\ \A x : UpTo(s, m, x) /\ e <= x => UpTo(Append(s, e), m, x)
         /\ \A t, n : Before(s, m, t, n) /\ (\A j \in n..Len(t) : e < t[j]) => Before(Append(s, e), m, t, n)
         /\ \A t, n : Before(t, n, s, m) /\ (\A i \in n..Len(t) : t[i] < e) => Before(t, n, Append(s, e), m)
  <1> DEFINE r == Append(s, e)
  <1>1. /\ r \in Seq(Nat) /\ Len(r) = Len(s) + 1 /\ r[Len(s) + 1] = e /\ Len(s) \in Nat
        /\ \A i \in 1..Len(s) : r[i] = s[i]
    OBVIOUS
  <1>2. \A i \in m..Len(r) : (i \in m..Len(s) /\ r[i] = s[i]) \/ (i = Len(s) + 1 /\ r[i] = e)
    BY <1>1
  <1> HIDE DEF r
  <1>3. Rising(s, m) /\ (\A i \in m..Len(s) : s[i] < e) => Rising(r, m)
    <2> SUFFICES ASSUME Rising(s, m), \A i \in m..Len(s) : s[i] < e,
                        NEW i \in m..Len(r), NEW j \in m..Len(r), i < j
                 PROVE  r[i] < r[j]
      BY DEF Rising
    <2>1. i \in m..Len(s) /\ r[i] = s[i]
      BY <1>1, <1>2, SMTT(30)
    <2>2. CASE j \in m..Len(s) /\ r[j] = s[j]
      BY <2>1, <2>2 DEF Rising
    <2>3. CASE j = Len(s) + 1 /\ r[j] = e
      BY <2>1, <2>3
    <2> QED BY <1>2, <2>2, <2>3
  <1>4. \A x : UpTo(s, m, x) /\ e <= x => UpTo(r, m, x)
    BY <1>2 DEF UpTo
  <1>5. \A t, n : Before(s, m, t, n) /\ (\A j \in n..Len(t) : e < t[j]) => Before(r, m, t, n)
    BY <1>2 DEF Before
  <1>6. \A t, n : Before(t, n, s, m) /\ (\A i \in n..Len(t) : t[i] < e) => Before(t, n, r, m)
    BY <1>2 DEF Before
  <1> QED BY <1>1, <1>3, <1>4, <1>5, <1>6 DEF r

\* A line taken from the front of one.
LEMMA Taken ==
  ASSUME NEW s \in Seq(Nat), s # << >>
  PROVE  /\ Tail(s) \in Seq(Nat)
         /\ Rising(s, 1) => Rising(Tail(s), 1) /\ \A j \in 1..Len(Tail(s)) : s[1] < Tail(s)[j]
         /\ \A x : UpTo(s, 1, x) => UpTo(Tail(s), 1, x) /\ s[1] <= x
         /\ \A t, n : Before(t, n, s, 1) =>
              Before(t, n, Tail(s), 1) /\ \A i \in n..Len(t) : t[i] < s[1]
  <1> DEFINE r == Tail(s)
  <1>1. /\ r \in Seq(Nat) /\ Len(r) = Len(s) - 1 /\ Len(s) \in Nat \ {0}
        /\ \A i \in 1..Len(r) : r[i] = s[i + 1]
    BY HeadTailProperties, LenProperties
  <1> HIDE DEF r
  <1>2. /\ \A i \in 1..Len(r) : i + 1 \in 1..Len(s) /\ 1 < i + 1 /\ r[i] = s[i + 1]
        /\ 1 \in 1..Len(s)
    BY <1>1
  <1>3. Rising(s, 1) => Rising(r, 1) /\ \A j \in 1..Len(r) : s[1] < r[j]
    BY <1>2 DEF Rising
  <1>4. \A x : UpTo(s, 1, x) => UpTo(r, 1, x) /\ s[1] <= x
    BY <1>2 DEF UpTo
  <1>5. \A t, n : Before(t, n, s, 1) => Before(t, n, r, 1) /\ \A i \in n..Len(t) : t[i] < s[1]
    BY <1>2 DEF Before
  <1> QED BY <1>1, <1>3, <1>4, <1>5 DEF r

\* The same, of a buffer that is gone through and not cut.
LEMMA Passed ==
  ASSUME NEW s \in Seq(Nat), NEW d \in Nat, d < Len(s)
  PROVE  /\ s[d + 1] \in Nat
         /\ Rising(s, d + 1) => Rising(s, d + 2) /\ \A j \in (d + 2)..Len(s) : s[d + 1] < s[j]
         /\ \A x : UpTo(s, d + 1, x) => UpTo(s, d + 2, x) /\ s[d + 1] <= x
         /\ \A t, n : Before(t, n, s, d + 1) =>
              Before(t, n, s, d + 2) /\ \A i \in n..Len(t) : t[i] < s[d + 1]
         /\ \A t, n : Before(s, d + 1, t, n) =>
              Before(s, d + 2, t, n) /\ \A j \in n..Len(t) : s[d + 1] < t[j]
  <1>1. /\ \A i \in (d + 2)..Len(s) : i \in (d + 1)..Len(s) /\ d + 1 < i
        /\ d + 1 \in (d + 1)..Len(s) /\ d + 1 \in 1..Len(s)
    OBVIOUS
  <1> QED BY <1>1 DEF Rising, UpTo, Before

\* One after the other.
LEMMA Joined ==
  ASSUME NEW s \in Seq(Nat), NEW t \in Seq(Nat)
  PROVE  /\ Rising(s, 1) /\ Rising(t, 1) /\ Before(s, 1, t, 1) => Rising(s \o t, 1)
         /\ \A u : Before(u, 1, s, 1) /\ Before(u, 1, t, 1) => Before(u, 1, s \o t, 1)
  <1> DEFINE r == s \o t
  <1>1. /\ Len(s) \in Nat /\ Len(t) \in Nat /\ Len(r) = Len(s) + Len(t)
        /\ \A i \in 1..(Len(s) + Len(t)) : r[i] = IF i <= Len(s) THEN s[i] ELSE t[i - Len(s)]
    BY ConcatProperties
  <1> HIDE DEF r
  <1>2. \A i \in 1..Len(r) :
          \/ i \in 1..Len(s) /\ r[i] = s[i]
          \/ i - Len(s) \in 1..Len(t) /\ r[i] = t[i - Len(s)] /\ i > Len(s)
    BY <1>1
  <1>3. ASSUME Rising(s, 1), Rising(t, 1), Before(s, 1, t, 1),
               NEW i \in 1..Len(r), NEW j \in 1..Len(r), i < j
        PROVE  r[i] < r[j]
    <2>1. CASE i \in 1..Len(s) /\ r[i] = s[i]
      <3>1. CASE j \in 1..Len(s) /\ r[j] = s[j]
        BY <1>3, <2>1, <3>1 DEF Rising
      <3>2. CASE j - Len(s) \in 1..Len(t) /\ r[j] = t[j - Len(s)]
        BY <1>3, <2>1, <3>2 DEF Before
      <3> QED BY <1>2, <3>1, <3>2
    <2>2. CASE i - Len(s) \in 1..Len(t) /\ r[i] = t[i - Len(s)] /\ i > Len(s)
      <3>1. j - Len(s) \in 1..Len(t) /\ r[j] = t[j - Len(s)] /\ i - Len(s) < j - Len(s)
        BY <1>1, <1>2, <1>3, <2>2
      <3> QED BY <1>3, <2>2, <3>1 DEF Rising
    <2> QED BY <1>2, <2>1, <2>2
  <1>4. \A u : Before(u, 1, s, 1) /\ Before(u, 1, t, 1) => Before(u, 1, r, 1)
    BY <1>2 DEF Before
  <1>5. Rising(s, 1) /\ Rising(t, 1) /\ Before(s, 1, t, 1) => Rising(r, 1)
    BY <1>3 DEF Rising
  <1> QED BY <1>4, <1>5 DEF r

LEMMA OrderStep == TypeInv /\ BufferInv /\ OrderInv /\ [Next]_vars => OrderInv'
  <1> SUFFICES ASSUME TypeInv, BufferInv, OrderInv, [Next]_vars PROVE OrderInv'
    OBVIOUS
  <1> USE DEF queues, bounds, history, vars
  <1>0. /\ written \in Seq(Nat) /\ buf \in Seq(Nat) /\ logChan \in Seq(Nat)
        /\ logged \in Nat /\ done \in 0..Len(buf) /\ Len(buf) \in Nat
    BY LogAssumption DEF TypeInv, TypeOK, LogAssumption
  <1>elems. /\ \A i \in 1..Len(written) : written[i] \in Nat
            /\ \A i \in (done + 1)..Len(buf) : buf[i] \in Nat
            /\ \A i \in 1..Len(logChan) : logChan[i] \in Nat
    BY <1>0
  <1>1. CASE Write
    <2>1. UNCHANGED <<written, buf, done>> /\ logged' = logged + 1
          /\ logChan' \in {logChan, Append(logChan, logged + 1)}
      BY <1>1 DEF Write
    <2>2. CASE logChan' = logChan
      BY <1>0, <2>1, <2>2 DEF OrderInv, Rising, Before, UpTo
    <2>3. CASE logChan' = Append(logChan, logged + 1)
      <3>1. /\ \A i \in 1..Len(written) : written[i] < logged + 1
            /\ \A i \in (done + 1)..Len(buf) : buf[i] < logged + 1
            /\ \A i \in 1..Len(logChan) : logChan[i] < logged + 1
        BY <1>0, <1>elems DEF OrderInv, UpTo
      <3>2. /\ UpTo(written, 1, logged + 1) /\ UpTo(buf, done + 1, logged + 1)
            /\ UpTo(logChan, 1, logged + 1) /\ logged + 1 <= logged + 1 /\ logged + 1 \in Nat
        BY <1>0, <1>elems DEF OrderInv, UpTo
      <3>3. 1 \in Nat \ {0}
        OBVIOUS
      <3>4. /\ Rising(logChan', 1) /\ Before(written, 1, logChan', 1)
            /\ Before(buf, done + 1, logChan', 1) /\ UpTo(logChan', 1, logged + 1)
        BY <1>0, <2>3, <3>1, <3>2, <3>3, Appended DEF OrderInv
      <3> QED BY <2>1, <3>2, <3>4 DEF OrderInv
    <2> QED BY <2>1, <2>2, <2>3
  <1>2. CASE Receive
    <2>1. UNCHANGED <<written, logged, done>> /\ done = 0 /\ logChan # << >>
          /\ logChan' = Tail(logChan) /\ buf' = Append(buf, Head(logChan))
      BY <1>2 DEF Receive, BufferInv
    <2>2. logChan[1] \in Nat /\ Head(logChan) = logChan[1] /\ 1 \in Nat \ {0} /\ done + 1 = 1
      BY <1>0, <2>1
    <2>3. /\ Rising(logChan', 1) /\ Before(written, 1, logChan', 1) /\ Before(buf, 1, logChan', 1)
          /\ UpTo(logChan', 1, logged) /\ logChan[1] <= logged
          /\ \A j \in 1..Len(logChan') : logChan[1] < logChan'[j]
          /\ \A i \in 1..Len(written) : written[i] < logChan[1]
          /\ \A i \in 1..Len(buf) : buf[i] < logChan[1]
      BY <1>0, <2>1, <2>2, Taken DEF OrderInv
    <2>4. /\ Rising(buf', 1) /\ Before(written, 1, buf', 1) /\ Before(buf', 1, logChan', 1)
          /\ UpTo(buf', 1, logged)
      BY <1>0, <2>1, <2>2, <2>3, Appended DEF OrderInv
    <2> QED BY <2>1, <2>2, <2>3, <2>4 DEF OrderInv
  <1>3. CASE WriteLine
    <2>1. UNCHANGED <<logChan, buf, logged>> /\ done' = done + 1 /\ done < Len(buf)
          /\ written' = Append(written, buf[done + 1])
      BY <1>3 DEF WriteLine
    <2>2. done \in Nat /\ done' + 1 = done + 2 /\ 1 \in Nat \ {0}
      BY <1>0, <2>1
    <2>3. /\ buf[done + 1] \in Nat /\ buf[done + 1] <= logged
          /\ Rising(buf, done + 2) /\ Before(written, 1, buf, done + 2)
          /\ Before(buf, done + 2, logChan, 1) /\ UpTo(buf, done + 2, logged)
          /\ \A j \in (done + 2)..Len(buf) : buf[done + 1] < buf[j]
          /\ \A j \in 1..Len(logChan) : buf[done + 1] < logChan[j]
          /\ \A i \in 1..Len(written) : written[i] < buf[done + 1]
      BY <1>0, <2>1, <2>2, Passed DEF OrderInv
    <2>4. /\ Rising(written', 1) /\ Before(written', 1, buf, done + 2)
          /\ Before(written', 1, logChan, 1) /\ UpTo(written', 1, logged)
      BY <1>0, <2>1, <2>2, <2>3, Appended DEF OrderInv
    <2> QED BY <2>1, <2>2, <2>3, <2>4 DEF OrderInv
  <1>4. CASE WriteLineFails
    <2>1. UNCHANGED <<logChan, buf, logged, written>> /\ done' = done + 1
      BY <1>4 DEF WriteLineFails
    <2>2. \A i \in (done' + 1)..Len(buf) : i \in (done + 1)..Len(buf)
      BY <1>0, <2>1
    <2> QED BY <1>0, <2>1, <2>2 DEF OrderInv, Rising, Before, UpTo
  <1>5. CASE EndFlush
    <2>1. UNCHANGED <<logChan, logged, written>> /\ done' = 0 /\ Len(buf') = 0
      BY <1>5, EmptyQueue DEF EndFlush
    <2>2. (done' + 1)..Len(buf') = {}
      BY <2>1
    <2> QED BY <2>1, <2>2 DEF OrderInv, Rising, Before, UpTo
  <1>6. CASE Die
    <2>1. UNCHANGED <<logged, written>> /\ done' = 0 /\ Len(buf') = 0 /\ Len(logChan') = 0
      BY <1>6, EmptyQueue DEF Die
    <2>2. (done' + 1)..Len(buf') = {} /\ 1..Len(logChan') = {}
      BY <2>1
    <2> QED BY <2>1, <2>2 DEF OrderInv, Rising, Before, UpTo
  <1>7. CASE OpenFile
    <2>1. UNCHANGED <<logChan, buf, logged, written, done>>
      BY <1>7 DEF OpenFile, BufferInv
    <2> QED BY <2>1 DEF OrderInv, Rising, Before, UpTo
  <1>8. CASE \/ Start \/ Rotate \/ Go \/ Tick \/ ReceiveTick \/ OpenFileFails \/ UNCHANGED vars
    <2>1. UNCHANGED <<logChan, buf, logged, written, done>>
      BY <1>8 DEF Start, Rotate, Go, Tick, ReceiveTick, OpenFileFails
    <2> QED BY <2>1 DEF OrderInv, Rising, Before, UpTo
  <1> QED BY <1>1, <1>2, <1>3, <1>4, <1>5, <1>6, <1>7, <1>8 DEF Next, Starting, AsyncLogWriter

LEMMA OrderInit == Init => BufferInv /\ OrderInv
  <1> SUFFICES ASSUME Init PROVE BufferInv /\ OrderInv
    OBVIOUS
  <1>1. BufferInv
    BY LogAssumption DEF Init, BufferInv, LogAssumption
  <1>2. Len(written) = 0 /\ Len(buf) = 0 /\ Len(logChan) = 0 /\ done = 0
    BY EmptyQueue DEF Init
  <1>3. 1..Len(written) = {} /\ (done + 1)..Len(buf) = {} /\ 1..Len(logChan) = {}
    BY <1>2
  <1> QED BY <1>1, <1>3 DEF OrderInv, Rising, Before, UpTo

LEMMA OrderAlways == Spec => [](TypeInv /\ BufferInv /\ OrderInv)
  BY OrderInit, TypeInit, TypeStep, BufferStep, OrderStep, PTL DEF Spec

(***************************************************************************)
(* Lines stay in order and none is there twice, in the files and in what   *)
(* waits, through flushes that fail, deaths in the middle of a flush or a  *)
(* rotation, and restarts.                                                 *)
(***************************************************************************)
THEOREM OrderIsKeptAlways == Spec => []OrderIsKept
  <1>1. TypeInv /\ RotationInv /\ GapInv /\ OrderInv => OrderIsKept
    <2> SUFFICES ASSUME TypeInv, RotationInv, GapInv, OrderInv PROVE OrderIsKept
      OBVIOUS
    <2> DEFINE rest == SubSeq(buf, done + 1, Len(buf))
               w == rest \o logChan
               all == Kept \o w
               k == Len(Kept)
               r == Len(rest)
    <2>0. /\ written \in Seq(Nat) /\ buf \in Seq(Nat) /\ logChan \in Seq(Nat) /\ Kept \in Seq(Nat)
          /\ done \in 0..Len(buf) /\ IsEnd(Kept, written) /\ k \in Nat
          /\ Len(written) \in Nat /\ Len(buf) \in Nat /\ Len(logChan) \in Nat
      BY KeptIsAll DEF GapInv, TypeInv, TypeOK
    <2>1. /\ rest \in Seq(Nat) /\ r = Len(buf) - done
          /\ \A i \in 1..r : rest[i] = buf[done + i] /\ done + i \in (done + 1)..Len(buf)
      <3>1. done + 1 \in Int /\ Len(buf) \in Int /\ \A i \in (done + 1)..Len(buf) : buf[i] \in Nat
        BY <2>0
      <3>2. /\ rest \in Seq(Nat)
            /\ r = IF done + 1 <= Len(buf) THEN Len(buf) - (done + 1) + 1 ELSE 0
            /\ \A i \in 1..(Len(buf) - (done + 1) + 1) : rest[i] = buf[(done + 1) + i - 1]
        BY <3>1, SubSeqProperties
      <3>3. r = Len(buf) - done
        BY <2>0, <3>2
      <3>4. ASSUME NEW i \in 1..r PROVE rest[i] = buf[done + i] /\ done + i \in (done + 1)..Len(buf)
        <4>1. i \in 1..(Len(buf) - (done + 1) + 1) /\ (done + 1) + i - 1 = done + i
          BY <2>0, <3>3
        <4> QED BY <2>0, <3>2, <3>3, <4>1
      <3> QED BY <3>2, <3>3, <3>4
    <2> HIDE DEF rest
    <2>2. \A i \in 1..k : Kept[i] = written[Len(written) - k + i]
                         /\ Len(written) - k + i \in 1..Len(written)
      BY <2>0 DEF IsEnd
    <2>3. /\ Rising(Kept, 1) /\ Rising(rest, 1) /\ Rising(logChan, 1) /\ Before(Kept, 1, rest, 1)
          /\ Before(Kept, 1, logChan, 1) /\ Before(rest, 1, logChan, 1)
      <3>1. Rising(Kept, 1)
        <4>1. \A i, j \in 1..k : i < j => Len(written) - k + i < Len(written) - k + j
          BY <2>0
        <4> QED BY <2>2, <4>1 DEF OrderInv, Rising
      <3>2. Rising(rest, 1)
        <4>1. \A i, j \in 1..r : i < j => done + i < done + j
          BY <2>0, <2>1
        <4> QED BY <2>1, <4>1 DEF OrderInv, Rising
      <3>3. Before(Kept, 1, rest, 1) /\ Before(Kept, 1, logChan, 1) /\ Before(rest, 1, logChan, 1)
        BY <2>1, <2>2 DEF OrderInv, Before
      <3> QED BY <3>1, <3>2, <3>3 DEF OrderInv
    <2>4. /\ w \in Seq(Nat) /\ Len(w) = r + Len(logChan)
          /\ \A i \in 1..(r + Len(logChan)) : w[i] = IF i <= r THEN rest[i] ELSE logChan[i - r]
      BY <2>0, <2>1, ConcatProperties
    <2>5. Rising(w, 1) /\ Before(Kept, 1, w, 1)
      BY <2>0, <2>1, <2>3, <2>4, Joined
    <2> HIDE DEF w
    <2>6. Rising(all, 1)
      BY <2>0, <2>3, <2>4, <2>5, Joined
    <2>7. all \in Seq(Nat)
      BY <2>0, <2>4
    <2>8. all = Kept \o Waiting
      BY DEF Waiting, w, rest
    <2> HIDE DEF all
    <2>9. \A i \in 1..(Len(all) - 1) : i \in 1..Len(all) /\ i + 1 \in 1..Len(all) /\ i < i + 1
      BY <2>7
    <2> QED BY <2>6, <2>8, <2>9 DEF OrderIsKept, Rising
  <1> QED BY <1>1, FilesAlways, OrderAlways, PTL
=============================================================================
