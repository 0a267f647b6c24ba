------------------------------ MODULE AsyncLog ------------------------------
(***************************************************************************)
(* The log of a receiver, <dest>/boltgo.log: log.Printf puts a line into a *)
(* channel without waiting, a goroutine of its own collects lines in a     *)
(* buffer and appends them to the file, and the file is rotated when the   *)
(* process starts (cmd/boltgo/logging.go).                                 *)
(*                                                                         *)
(* Lines are numbered in the order they are logged in, which the mutex of  *)
(* package log makes a total one, over all runs of the process.  The       *)
(* process may die at any time (the end of main does not wait for the      *)
(* goroutine either) and be started again in the same directory.           *)
(*                                                                         *)
(* A definition named X_Fault is the code of X with a plausible bug; no    *)
(* behaviour of Spec uses one.                                             *)
(***************************************************************************)
EXTENDS Integers, Sequences, FiniteSets

CONSTANTS
  ChanSize,   \* capacity of logChan (1000)
  FlushAt,    \* lines in the buffer that are flushed at once (100)
  MaxLogSize, \* size from which the file is rotated, in lines (10 MB)
  MaxLines,   \* bound: lines that are logged
  MaxStarts,  \* bound: how often the process is started
  MaxFaults,  \* bound: how often the file cannot be opened or written
  None        \* a file that does not exist

ASSUME LogAssumption ==
  /\ ChanSize \in Nat \ {0} /\ FlushAt \in Nat \ {0} /\ MaxLogSize \in Nat \ {0}
  /\ MaxLines \in Nat /\ MaxStarts \in Nat /\ MaxFaults \in Nat
  /\ None \notin Seq(Nat)

Names == {"log", "log.1", "log.2", "log.3"}

VARIABLES
  up,      \* is the process running?
  todo,    \* what rotateLog still has to do
  writer,  \* asyncLogWriter: "off", "select", "open", "write"
  tick,    \* has the ticker fired?
  logChan, \* lines in the channel
  buf,     \* lines in the buffer
  done,    \* how many of them this flush has gone through
  files,   \* lines of each file, or None
  logged,  \* number of lines logged
  starts,  \* number of starts
  faults,  \* number of faults
  written, \* history: all lines that ever got into a file
  failed   \* history: did the last attempt to open the file fail?

queues == <<logChan, buf, done>>
bounds == <<logged, starts, faults>>
history == <<written, failed>>
vars == <<up, todo, writer, tick, queues, files, bounds, history>>

Init ==
  /\ up = FALSE /\ todo = << >> /\ writer = "off" /\ tick = FALSE
  /\ logChan = << >> /\ buf = << >> /\ done = 0
  /\ files = [n \in Names |-> None]
  /\ logged = 0 /\ starts = 0 /\ faults = 0
  /\ written = << >> /\ failed = FALSE

-----------------------------------------------------------------------------
(***************************************************************************)
(* rotateLog.  Its calls ignore their errors: nothing happens to a name    *)
(* that does not exist.                                                    *)
(***************************************************************************)
Remove(n) == [op |-> "remove", from |-> n, to |-> n]
Rename(m, n) == [op |-> "rename", from |-> m, to |-> n]
Calls == [op : {"remove", "rename"}, from : Names, to : Names]

\* The loop runs over 2 and 1.  What it moves to log.3 has been removed before.
Rotation_KeepsOldest ==
  <<Remove("log.3"), Rename("log.2", "log.3"), Rename("log.1", "log.2"), Rename("log", "log.1")>>

Rotation_NewestFirst ==
  <<Rename("log", "log.1"), Remove("log.2"), Rename("log.1", "log.2")>>

Rotation ==
  <<Remove("log.2"), Remove("log.3"), Rename("log.2", "log.3"), Rename("log.1", "log.2"),
    Rename("log", "log.1")>>

\* setupFileLogging.
Start ==
  /\ ~up /\ starts < MaxStarts
  /\ up' = TRUE /\ starts' = starts + 1
  /\ todo' = IF files["log"] # None /\ Len(files["log"]) >= MaxLogSize THEN Rotation ELSE << >>
  /\ UNCHANGED <<writer, tick, queues, files, logged, faults, history>>

Rotate ==
  /\ up /\ todo # << >>
  /\ LET c == Head(todo) IN
       files' = IF c.op = "rename" /\ files[c.from] # None
                THEN [files EXCEPT ![c.to] = files[c.from], ![c.from] = None]
                ELSE IF c.op = "remove" THEN [files EXCEPT ![c.from] = None] ELSE files
  /\ todo' = Tail(todo)
  /\ UNCHANGED <<up, writer, tick, queues, bounds, history>>

Go ==
  /\ up /\ todo = << >> /\ writer = "off"
  /\ writer' = "select"
  /\ UNCHANGED <<up, todo, tick, queues, files, bounds, history>>

-----------------------------------------------------------------------------
(***************************************************************************)
(* channelWriter.Write, and the goroutine asyncLogWriter.                  *)
(***************************************************************************)
Write_OneMore ==
  /\ writer # "off" /\ logged < MaxLines
  /\ logged' = logged + 1
  /\ logChan' = IF Len(logChan) <= ChanSize THEN Append(logChan, logged + 1) ELSE logChan
  /\ UNCHANGED <<up, todo, writer, tick, buf, done, files, starts, faults, history>>

\* A line that finds the channel full is dropped.
Write ==
  /\ writer # "off" /\ logged < MaxLines
  /\ logged' = logged + 1
  /\ logChan' = IF Len(logChan) < ChanSize THEN Append(logChan, logged + 1) ELSE logChan
  /\ UNCHANGED <<up, todo, writer, tick, buf, done, files, starts, faults, history>>

Receive_Late ==
  /\ writer = "select" /\ logChan # << >>
  /\ logChan' = Tail(logChan)
  /\ buf' = Append(buf, Head(logChan))
  /\ writer' = IF Len(buf') > FlushAt THEN "open" ELSE "select"
  /\ UNCHANGED <<up, todo, tick, done, files, bounds, history>>

Receive ==
  /\ writer = "select" /\ logChan # << >>
  /\ logChan' = Tail(logChan)
  /\ buf' = Append(buf, Head(logChan))
  /\ writer' = IF Len(buf') >= FlushAt THEN "open" ELSE "select"
  /\ UNCHANGED <<up, todo, tick, done, files, bounds, history>>

\* The ticker drops ticks nobody takes.
Tick ==
  /\ writer # "off" /\ ~tick
  /\ tick' = TRUE
  /\ UNCHANGED <<up, todo, writer, queues, files, bounds, history>>

ReceiveTick_Full ==
  /\ writer = "select" /\ tick
  /\ tick' = FALSE
  /\ writer' = IF Len(buf) < FlushAt THEN "select" ELSE "open"
  /\ UNCHANGED <<up, todo, queues, files, bounds, history>>

ReceiveTick ==
  /\ writer = "select" /\ tick
  /\ tick' = FALSE
  /\ writer' = IF buf = << >> THEN "select" ELSE "open"
  /\ UNCHANGED <<up, todo, queues, files, bounds, history>>

OpenFile ==
  /\ writer = "open"
  /\ writer' = "write" /\ done' = 0 /\ failed' = FALSE
  /\ files' = [files EXCEPT !["log"] = IF @ = None THEN << >> ELSE @]
  /\ UNCHANGED <<up, todo, tick, logChan, buf, bounds, written>>

\* The buffer is kept for the next flush.
OpenFileFails ==
  /\ writer = "open" /\ faults < MaxFaults
  /\ faults' = faults + 1 /\ failed' = TRUE
  /\ writer' = "select"
  /\ UNCHANGED <<up, todo, tick, queues, files, logged, starts, written>>

WriteLine ==
  /\ writer = "write" /\ done < Len(buf)
  /\ done' = done + 1
  /\ files' = [files EXCEPT !["log"] = Append(@, buf[done + 1])]
  /\ written' = Append(written, buf[done + 1])
  /\ UNCHANGED <<up, todo, writer, tick, logChan, buf, bounds, failed>>

\* The error is not looked at.
WriteLineFails ==
  /\ writer = "write" /\ done < Len(buf) /\ faults < MaxFaults
  /\ faults' = faults + 1
  /\ done' = done + 1
  /\ UNCHANGED <<up, todo, writer, tick, logChan, buf, files, logged, starts, history>>

EndFlush_Keeps ==
  /\ writer = "write" /\ done = Len(buf)
  /\ done' = 0
  /\ writer' = "select"
  /\ UNCHANGED <<up, todo, tick, logChan, buf, files, bounds, history>>

EndFlush ==
  /\ writer = "write" /\ done = Len(buf)
  /\ buf' = << >> /\ done' = 0
  /\ writer' = "select"
  /\ UNCHANGED <<up, todo, tick, logChan, files, bounds, history>>

\* The process ends or is killed; nothing is flushed.
Die ==
  /\ up
  /\ up' = FALSE /\ todo' = << >> /\ writer' = "off" /\ tick' = FALSE
  /\ logChan' = << >> /\ buf' = << >> /\ done' = 0 /\ failed' = FALSE
  /\ UNCHANGED <<files, bounds, written>>

-----------------------------------------------------------------------------
Starting == Rotate \/ Go

AsyncLogWriter ==
  \/ Receive \/ ReceiveTick \/ OpenFile \/ OpenFileFails \/ WriteLine \/ WriteLineFails \/ EndFlush

Next == Start \/ Starting \/ Write \/ Tick \/ AsyncLogWriter \/ Die

Spec == Init /\ [][Next]_vars

\* The goroutine is scheduled, time passes, and a select that finds both cases
\* ready over and over takes each (it picks at random).  Nothing makes a line
\* be logged, the process start or end, or a fault occur.
Fairness ==
  /\ WF_vars(Starting) /\ WF_vars(AsyncLogWriter) /\ WF_vars(Tick)
  /\ SF_vars(Receive) /\ SF_vars(ReceiveTick)

FairSpec == Spec /\ Fairness
-----------------------------------------------------------------------------
TypeOK ==
  /\ up \in BOOLEAN /\ tick \in BOOLEAN /\ failed \in BOOLEAN
  /\ todo \in Seq(Calls)
  /\ writer \in {"off", "select", "open", "write"}
  /\ logChan \in Seq(Nat) /\ Len(logChan) <= ChanSize
  /\ buf \in Seq(Nat) /\ done \in 0..Len(buf)
  /\ files \in [Names -> Seq(Nat) \cup {None}]
  /\ logged \in 0..MaxLines /\ starts \in 0..MaxStarts /\ faults \in 0..MaxFaults
  /\ written \in Seq(Nat)

Lines(n) == IF files[n] = None THEN << >> ELSE files[n]
Old == Lines("log.3") \o Lines("log.2") \o Lines("log.1")
Kept == Old \o Lines("log")
Waiting == SubSeq(buf, done + 1, Len(buf)) \o logChan

(***************************************************************************)
(* Lines stay in order and none is there twice: in the files from the      *)
(* oldest to the newest, then in what the goroutine has not written yet,   *)
(* through flushes that fail, deaths in the middle of a flush or of a      *)
(* rotation, and restarts (logging.go:41-65, 81-98).                       *)
(***************************************************************************)
OrderIsKept ==
  LET all == Kept \o Waiting IN \A i \in 1..(Len(all) - 1) : all[i] < all[i + 1]

(***************************************************************************)
(* Rotation drops the oldest lines first: what the files hold is the end   *)
(* of what was ever written, without a gap, at every step of a rotation    *)
(* and when one is cut off and begun again (logging.go:87-97).             *)
(***************************************************************************)
NoGaps ==
  /\ Len(Kept) <= Len(written)
  /\ Kept = SubSeq(written, Len(written) - Len(Kept) + 1, Len(written))

(***************************************************************************)
(* There are never more than two old logs, although the loop has a third   *)
(* name in it (maxLogFiles, logging.go:13, 88-96).                         *)
(***************************************************************************)
TwoOldLogs == Cardinality({n \in Names \ {"log"} : files[n] # None}) <= 2

(***************************************************************************)
(* What the end of the process costs: as long as the file can be opened,   *)
(* no more lines than the channel holds and one flush takes                *)
(* (logging.go:25, 60-61).                                                 *)
(***************************************************************************)
LossIsBounded ==
  writer = "select" /\ ~failed => Len(Waiting) < ChanSize + FlushAt

(***************************************************************************)
(* A line that got into the channel gets into a file or was the victim of  *)
(* a fault, unless the process ends: a full buffer or the ticker has it    *)
(* flushed, and a flush that failed is tried again (logging.go:45-65).     *)
(***************************************************************************)
InFile(l) == \E i \in DOMAIN written : written[i] = l
IsWaiting(l) == \E i \in DOMAIN Waiting : Waiting[i] = l

EverythingIsFlushed ==
  \A l \in 1..MaxLines : IsWaiting(l) ~> (~IsWaiting(l) /\ (InFile(l) \/ faults > 0)) \/ ~up
=============================================================================
