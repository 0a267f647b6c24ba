# A verification project for boltgo

boltgo (`src/cmd/boltgo`, Go) sends files and directories over QUIC to a
receiver that stores them, deduplicates by SHA-256 and answers with receipts.
This directory holds TLA+ modules that model it, TLC configurations that check
the models on small instances, and proofs that TLAPS checks.

## Inventory

| Component | Code | State | Operations |
|---|---|---|---|
| Receiving side | `quic.go:414-779` | per connection `quicConnState`: table of pending entries, one-slot notify channel, `rejected`, `pathChecked`; the receive directory, shared by all connections | accept streams, handle a control stream, handle a data stream, wait for the entry, answer |
| Sending side | `quic.go:83-349` | semaphore, WaitGroup, three atomic counters, the file list | `SendDir`, `SendFile`, `sendFileAeroSync`, `drainReceipts`, exit code |
| Upload header and names | `quic.go:258-260`, `605-692`, `main.go:198-209` | none | remote path, header line, HASH line, place below the receive directory |
| Path check | `pathutil.go` | none | `validateSubPath` |
| Control messages | `proto.go`, `receipt.go` | none | encode and decode control and receipt frames by hand |
| Logging | `logging.go`, `main.go:35-52` | 1000-slot channel, buffer, `boltgo.log` and its old files | asynchronous log file, flush, rotation at start |
| Service installation | `service.go` | what the host holds: binary, systemd unit or Windows service | install, uninstall |
| Windows service | `service_win.go`, `service_notwin.go` | `Execute` and its goroutine, `errCh`, the reported state | start, stop, answer the control manager |
| Probe | `quic.go:372-408`, `584-591`, `main.go:262-279` | none | one request, one answer |
| Command line | `main.go` | none | flags, dispatch, exit codes |
| TLS | `quic.go:30-77` | none | self-signed certificate |
| Logo | `logo.go` | none | text |

How they interact. A sender opens one QUIC connection and, for each file, a
control stream and a data stream. On the control stream it announces the
upload (`TransferStart`); on the data stream it sends a header line, a hash
line and the bytes. The receiver's accept loop starts one goroutine per stream.
The two goroutines of an upload meet in a table keyed by the receipt id: the
control goroutine posts the control stream there, the data goroutine, when the
file is stored and verified, takes it and writes the receipt on it. Goroutines
of all connections write into one directory. A drainer goroutine of the sender
reads the receipts; nothing waits for it. The receiver logs into its receive
directory, through a channel and a goroutine of its own. On a server it runs as a
systemd unit or a Windows service that `boltgo service` installs.

What is hard here:

* interleavings of data goroutines, of one connection and of several, in one
  directory: create, write and remove go by name;
* the rendezvous: lost notifications, a deadline, equal receipt ids;
* order: control and data streams are accepted in turn and handled apart;
* failure: a connection that breaks, a disk that fails, a process that dies
  while a file is half written under its final name;
* the sender's exit code, computed without looking at any receipt;
* streams as a resource: a limit of 512, control streams that are never closed,
  a data stream the receiver stops reading;
* a log that must neither block the receiver nor lose its order, through failed
  flushes and a rotation the process may die in;
* installation as a list of commands most of whose results are not looked at.

What makes each component correct:

* receiving side: what it acknowledged is what the directory holds; a failure
  leaves no file and touches no other one; a skip is exact; every receipt goes
  to its own upload, once; every goroutine ends; the path check cannot be raced;
* sending side: it always ends; every file is counted once; the exit code tells
  what happened, at least to the streams;
* both together: exit code 0 means that the files are stored;
* names: an upload lands where its remote path and name say, below the directory;
* path check: accepts exactly the names that stay below the directory;
* codec: decode(encode(f)) = f for what boltgo sends; unknown fields are skipped;
* logging: lines are written in order, none twice; what is lost is bounded, and
  rotation loses the oldest first;
* service: what a message says is so, a command without a fault repairs what
  earlier ones left, and the process answers the control manager.

## Modules

### Receiver

`Receiver.tla` is the receiving side. An upload is one pair of streams.

| Model | Code |
|---|---|
| `conn`, `queue`, `sender` | the connection, the streams opened and not accepted yet, how far the sender of an upload is (`sendFileAeroSync`) |
| `pend`, `notify` | `quicConnState.pend`, `.notify` |
| `rejected`, `pathChecked` | the two flags of a connection |
| `cpc` | the goroutine of `handleControlStream` |
| `pc`, `hash`, `got`, `fd`, `expired`, `held` | the goroutine of `handleDataStream` with its locals and those of `waitForEntry` |
| `frames` | what was written on the control stream of an upload |
| `dir`, `file` | the directory: names to files, files to contents; a file open under a name that was removed lives on |
| `latest` | history, read by the properties only |

An action is the code of one goroutine between two accesses to state others
see. For example `handleDataStream` is `ReadHeader`, `CheckRejected`,
`CheckPath`, `MarkPath`, `StatFile`, `HashFile`, `SkipFile`, `CreateFile` or
`CreateFails`, `CopyBlock`s, `CopyEnd` or `CopyFails`, `RemoveFile`,
`VerifyHash`, then `waitForEntry` as `TakeEntry`, `EntryMissing`,
`WakeByNotify`, `WakeByTimer`, then `SendReceived`, `SendAcked` (the two writes of
`sendReceiptFrames`, the second only after the first) and `SendSuccess`. The sender
of an upload appears as far as it can be seen: `OpenControl`,
`WriteTransferStart`, `OpenData` or, after its 50 tries, `GiveUp`, `WriteHeader`,
and `Stall` when it leaves the stream without an end (`quic.go:270-272`). `Crash`
ends the process; goroutines and tables are gone, the directory stays, and the
connections of after the restart are other members of `Conns`.

Abstractions. Contents are short sequences of blocks; SHA-256 is injective; the
directory behaves as on POSIX. `DiskFaults` says whether reading the file that is
there, `MkdirAll`, `Create` and a write may fail (`HashFails`, `CreateFails`,
`CopyFails`); a remove is taken to succeed. `Overlap` says whether a sender may start an
upload to a path another upload is still working on: the guarantees about the
directory hold without it, or when every upload has a path of its own, and fail
with it (run `overlap`).

### Store

`Store.tla` is what the receiving side promises about a directory, without
goroutines, streams or tables: a path `holds` nothing, an old content, a part of
the upload that is its `writer`, or a whole upload; an upload has an `outcome`,
and somebody may have been `told` of it. `Begin` empties the path, `Extend` adds
one block, `Commit` ends it whole and with the digest that was announced,
`Discard` removes it, `Skip` needs the digest to be there already, `Tell` needs
the outcome, `Crash` leaves the contents. The refinement mapping is at the end of
`Receiver`: `Holds` is what a reader of each path finds, `Writer` the upload that
opened the path last while its goroutine copies, verifies or removes, `Outcome`
is read off the goroutine's step and the comparison of digests, `Told` off the
first frame on the control stream. `ImplementsStore` says that every step of
`Receiver` is a step of `Store` under it or changes nothing `Store` speaks of.

### Sender

`Sender.tla` is one run of `boltgo send`: the main goroutine of `SendDir` or
`SendFile` (chosen by `Init` from the constant `Commands` and kept in `command`;
`SendFile` sends the first file of the list), a goroutine per file, and the exit
code `cmdSend` makes of the result.

| Model | Code |
|---|---|
| `main`, `next`, `exit` | `dialServer`, `filepath.Walk`, the loop over the files, `wg.Wait`, the 500 ms of grace, the result (`quic.go:101-185`, `330-349`; `main.go:217-259`) |
| `sem`, `wg`, `sentCount`, `errCount` | the channel `sem` (how many tokens are in it), the WaitGroup, the two counters the exit code is computed from |
| `step`, `tries`, `wrote`, `fin`, `drainer` | the goroutine in `sendFileAeroSync`, its attempts to open the data stream, what it has written and whether it has written the end, its `drainReceipts` |
| `link` | the connection as the sender sees it |
| `opened`, `allowed`, `read`, `peer` | QUIC and the server (external): streams opened and allowed, what the server has read, how its end of the data stream stands |

Errors have actions of their own (`HashFails`, `OpenControlFails`,
`OpenDataFails`, `WriteFails`, `CopyFails`), each with the condition under which
the code meets it: `OpenStream` fails when the limit is reached or the link is
down; a write fails when the link is down; reading the source fails when
`LocalFaults` says so. A write waits while the stream's window is full.
`CountFile`, `Release` and `Done` are the end of the goroutine in the order the
deferred calls run. A stream is given back when the server has read it to its
end and both sides have closed it; nobody closes a control stream.

### Transfer

`Transfer.tla` composes `Sender` and `Receiver` on one connection. A file is an
upload. What `Sender` leaves to its environment is done by the receiver: a
block read by the server is `CopyBlock` and `ServerReads` in one step, a `Close`
after the end of the stream is `SkipFile` or `SendSuccess` with
`ServerFinishes`, a `Close` without reading is `CheckRejected`, `MarkPath` or
`CreateFails` with `ServerAbandons`. Every other step belongs to one of the two.
Each side learns of the end of the connection in its own time (`LoseLink`,
`TLost`). `Patient` says that within the 500 ms the receiver has done with every
stream that has an end. A sender whose source fails leaves a stream without one: its
own state says so, and `Stall` is not taken. When the data stream cannot be opened,
`OpenDataFails` and `GiveUp` are one step (`TOpenDataFails`).

### Codec, Upload, Wire, FrameChannel

`Codec.tla` is `proto.go` as operators: varints, field tags, the fields of each
message type in the order `marshal` writes them, `decodeFields`, `unmarshal`. A
table of fields stands for the two methods of a type, which go through the same
fields. A string is a sequence of bytes. `Limit` is the number of values an integer
has, 2^64 in the code; `AppendVarint`, `Varint` and `DecodeFields` are recursive
functions, the loops of the code turned around. Messages are nested two deep, so
that `Marshal` and `Unmarshal` are unfolded twice (`Marshal0`, `Marshal1`).
`IsMessage` says which messages there are, `Normal` what is left of one when it has
been encoded and decoded.

`Upload.tla` is the name of an upload on its way: what `cmdSend` makes of the
remote path, the sender's own check of it, the header and HASH line as they are
written (`Header`) and read (`ParseHeader`, `IsHash`), `validateSubPath` and the
path `filepath.Join` makes, down to `filepath.Clean`. A string is a sequence of
tokens: the characters the code looks for, and the text between them.

`Wire.tla` is one direction of a stream, of three kinds; `Writable` says which frames
and uploads a stream may carry, any at all that fit in a frame or a header. Of a
control stream:
`WriteFrame` puts a frame with its length on the wire, `ReadLength` is one byte of
`readVarint` (with the limit of `decodeLengthDelimited` at the last), `ReadBody`
one byte of `io.ReadFull`, `DecodeFrame` the decoding and the reader's decision to
go on (`drainReceipts`) or to stop (`handleControlStream`, `Probe`). Of a data
stream: `ReadHeaderLine`, `ReadHashLine`, `ReadHashFails`, `CheckUpload` and
`ReadData` are `handleDataStream` up to the end of `io.Copy`, token by token, with
the place the upload is stored at. The connection may break anywhere.

`FrameChannel.tla` says what that is to achieve: what was sent arrives whole and
in order, or not at all. `WholeFrames` is its specification with `sent` read as
the uploads or frames written, less the messages inside a frame that have no
content: those do not survive (`Normal`). The `Place` of an upload is
computed by the instance from the arguments alone, element by element, not by
joining and cleaning.

Left out: the fields of `Metadata` above 10, which no code sets, reading
fields of a fixed width, which no code writes, and the narrowing of three decoded
numbers to 32 bits (`proto.go:333`, `554`, `674`), which is the width their fields have
when they are written.

### AsyncLog

`AsyncLog.tla` is `logging.go`. Lines are numbered in the order they are logged.

| Model | Code |
|---|---|
| `logChan`, `buf`, `done` | `logChan`, the buffer of `asyncLogWriter`, how far the flush is through it |
| `files` | `boltgo.log` and its three old names, each the lines it holds |
| `todo` | the calls `rotateLog` has still to make |
| `writer`, `tick` | where the goroutine is (in its select, before or after opening the file), whether the ticker has fired |
| `written`, `failed` | history: all lines that got into a file, whether the last opening failed |

`Start` is `setupFileLogging`, `Rotate` one remove or rename of `rotateLog`, `Go`
the start of the goroutine. `Write` is `channelWriter.Write`, which drops a line
when the channel is full; `Receive`, `ReceiveTick`, `OpenFile` (`OpenFileFails`),
`WriteLine` (`WriteLineFails`) and `EndFlush` are the goroutine. `Die` ends the
process between any two of them, also inside a rotation.

### Systemd, WinService, Host

A command of `boltgo service` is a list of steps, most of whose results nobody
looks at. In the model it is a script, `Must` for a step whose failure ends the
command and `Try` for the others. The n-th command to run installs binary n with
configuration n, so that what belongs to which can be told; `Partial` is a
truncated copy or unit file. `Fails`, `CutOff` and `Boot` are a step that fails, a
command that is killed and a host that goes down; `clean` remembers whether
every step of the command did its work.

`Systemd.tla` is Linux: `exe` is the binary in `/usr/local/bin`, `unit` the unit file,
and `loaded`, `enabled`, `proc`, `idle` are systemd's own state, changed by `systemctl`
(external). `idle` is what a service without a process is: `inactive`, `failed`, or
`activating`, which it is between the death of a receiver (`Die`) and its restart
five seconds later (`Restart`; `Restart=always`, `RestartSec=5`), and for good when its
binary cannot be executed. `IsActive` is what `systemctl is-active` prints; `Exists` is
the condition of `service.go:80` on those words, which `failed` and `activating` do not
meet, so that `Query` may skip the removal. `waiting` is a history variable for the one
case in which that matters. `WinService.tla` is Windows: the registration `service`, marked for
deletion when `doomed`, is the control manager's (external); the process is
`Execute` with its goroutine: `main`, `recv`, `errCh`, the `status` it reports, the
`request` it has to answer. `Host.tla` is the choice between the two
(`runtime.GOOS`), made by `Init`.

### Definitions named X_Fault

`TakeEntry_Any`, `CopyFails_Ignored` and the like are the code of `TakeEntry`,
`CopyFails` with a plausible bug. No specification uses them. With one in the
place of the original, TLC finds the property listed beside it in
`PROJECT.json` violated, so the property can see that bug.

## Runs

| Run | Instance | What it shows |
|---|---|---|
| `retry` | `Receiver`, 3 uploads to one path, 2 connections, 2 blocks; crashes, lost connections, streams without an end; the path holds another file of the same size; the third upload's source shrank after it was hashed; equal receipt ids | `AcknowledgedIsStored`, `FailureLeavesNoFile`, `SkipIsExact`, `TypeOK`; `OneReplier`, also when only the first frame of a receipt was written; and `ImplementsStore`: each step is one of the abstract `Store` |
| `shared` | `Receiver`, 2 uploads, 1 connection, one name that fails the path check; senders that give up or leave a stream; disk faults; fairness | `DataGoroutinesEnd` unless the sender has left the stream and the connection lasts, `WaitingEntryIsAnswered`; `StreamsAreAccepted`: of each stream that is opened, whatever the others do; `ReceiptsGoHome`; `LeftoverIsExplained`: an entry outlives its upload only if the deadline passed; `UnopenedIsKept`, `FirstNameVouches`, `RejectionIsFinal` |
| `overlap` (violation) | `Receiver`, 2 uploads of one file, the second connection does not wait for the first one's handler | `AcknowledgedIsStored` fails: the handler of the broken connection removes the file that was stored and acknowledged since |
| `send_dir` | `Sender`, both commands, 3 files (the first has 3 blocks), 2 at a time, 3 streams, all faults; fairness | `ExitTellsStreams`, `NobodyLeftBehind` at the close, `EndMeansWhole`, `StreamsRunOut`, `SendReturns` unless the server stops reading, `TypeOK` |
| `healthy` | `Transfer`, 2 files, one of them there already, 3 streams, so that the second file may not get a data stream, local faults, no others, patient; fairness | `CommandReturns`, and `ExitZeroMeansStored` |
| `lost` | `Transfer`, `SendFile`, all faults on both sides | `AcknowledgedIsReported`: nothing is acknowledged that the command does not report as sent |
| `exit_zero` (violation) | `Transfer`, `SendFile`, no faults | `ExitZeroMeansStored` fails: the close overtakes the data |
| `refused` (violation) | `Transfer`, a file that cannot be created or written | `CommandReturns` fails: the sender waits for room in a stream nobody reads |
| `wire` | `Wire`, all frames of the programs with names and sizes around the varint boundaries, integers of 22 bits, frames of at most 298 bytes; uploads over 6 receive directories, 6 remote paths less those the sender turns down, 3 names, 2 contents | `WholeFrames`, `EveryFrameArrives`, wherever the stream is split or breaks; `RefusedOnlyUnderDot`; `TypeOK` |
| `acked` (violation) | `Wire`, a receipt: Received, then Acked | `AckedEndsTheDrainer` fails: nothing of the Acked is written |
| `log` | `AsyncLog`, 5 lines, 5 starts, 1 fault; fairness | `OrderIsKept`, `NoGaps`, `TwoOldLogs`, `LossIsBounded`, `EverythingIsFlushed`, `TypeOK` |
| `service` | `Host`, 4 commands, 3 faults, 1 Interrogate, on either system; fairness for Windows | `InstalledIsTrue`, `InstallRepairs`, `UninstallLeavesNothing` (Linux), `InstalledIsRegistered`, `UninstallTakesEffect`, `FailureEndsTheService` (Windows), `TypeOK` |

Deadlock is not checked in these runs: the server is idle when all uploads are
over, the command ends, a stream is read to its end, nothing is logged any more;
the systems may stop there. That they do not stop elsewhere is what the liveness properties say.

Bounds. Two uploads suffice for a race of two goroutines, and the third of
`retry` gives a path with two earlier histories. Disk faults are in `shared`, with
two uploads and one connection, and in `lost`, since with three and two the states are
too many; the theorems have both at once. Two blocks give a first, a
partial and a whole content. Two connections give "the connection that broke
and the one after it". In `send_dir` three files at two a time let one
goroutine wait for the semaphore while others fail, and three streams (one less
than two files need; also in `healthy`) let the limit strike both when a control stream and when
a data stream is opened; with a window of one block a write waits; two tries
instead of 50 show the retry and its end. In `wire` 22 bits take three bytes and
one bit more as 64 bits take nine and one, so that the last byte of the largest
number is cut; the longest frame of the instance is exactly `MaxFrame` long. The
proofs below have none of these bounds. The uploads of `wire` cover absolute and
relative receive directories with and without a slash at the end, `/`, `.` and one
above the current one, remote paths with both kinds of slashes and with dots, also one
that goes up and down again, and a
content that begins like a HASH line. In `log` a channel and a buffer of two
lines fill and overflow, every start but the first finds a file to rotate
(`MaxLogSize = 1`), and five starts let three logs follow each other and rotations be
cut off and begun again. In `service` four commands and three faults give, for
example, an install, an uninstall that fails and an install that has to repair
it, with a reboot or the death of the receiver in between.

## Fairness

`Receiver`: `FairSpec` is used where something must happen. Each goroutine of
the server is weakly fair (the Go scheduler), the deadline of `waitForEntry`
passes (time does), the accept loop goes on, and a sender writes what comes first on
a stream it has opened as long as its connection lasts. Nothing forces it to
begin, to open a data stream (it may give up) or to send a content to its end
(it may `Stall`); nor a connection to break or to last, or the process to die. Note
that `Data(u)` is fair as a whole: no branch of a goroutine is favoured. It is not
fair while the goroutine copies from a stream that was left without an end on a
connection that lasts, where no block is sure to come.

`Sender`: the main goroutine and the goroutine of each file are weakly fair, and
the server goes on reading a data stream it has not abandoned. Nothing makes
the server give streams back or answer, and the goroutine of a file is not fair while
its Write waits for room (`Blocked`): that the source fails then is possible, not sure.

`Transfer`: the goroutines of both sides are fair in the same way and time passes; the
network loses the connection or does not.

`AsyncLog`: the goroutine and the start of the process are weakly fair and the
ticker fires. `Receive` and `ReceiveTick` are strongly fair, since a select that
finds both cases ready picks one at random. Nothing makes a line be logged, a fault
occur or the process end.

`Host`: on Windows `Execute`, the control manager and a command that was begun go on.
Nothing is assumed on Linux, where only safety is claimed.

`Wire` has safety properties only.

## Findings

* `overlap`: cleaning up after a receive error removes by name
  (`quic.go:737`), which may be the file of a newer upload, acknowledged already.
* `exit_zero`: exit code 0 does not mean stored (`main.go:21`, `README.md:282`):
  `SendFile` closes the connection with the data still under way.
* `refused`: a receiver that cannot create the file (`quic.go:722`), or cannot write
  it (`quic.go:735-740`), closes its direction only, and the sender of a larger
  file waits for ever.
* `acked`: the receiver sends `Received` and then `Acked` (`README.md:176-180`), and the
  drainer stops at the `Acked` (`quic.go:300-304`). But an `Acked` has no content and
  a field without content is not written (`proto.go:185`, `682`): its frame carries
  a receipt id only, and the drainer reads on until the connection ends. A prost
  encoder would write the field (`README.md:192`, `321`).

Other things the models show, or that were met while writing them:

* "If service already exists, remove it first" (`service.go:77`) has an exception. A
  service that is not enabled and waits for its restart is `activating` and `disabled`,
  which the query takes for none (`service.go:80`): an install by the installed binary
  itself, which stops nothing beforehand, then leaves the old configuration running
  and says "Service installed". It takes an uninstall whose stop failed and that was cut
  off after the disable. `InstallRepairs` is stated with this exception.
* A file name with a colon is cut there (`quic.go:628`, `README.md:170`): the file is
  stored under the part in front, with a size and a receipt id from the wrong places. A
  name with a line feed would end the header line in the same way; the names of `wire` and
  of the theorems about `Wire` have neither (`Plain`).
* A skipped upload is never answered on its control stream (`quic.go:704`), though
  `README.md:35` and `176-179` describe a receipt for it.
* Control streams are never closed, so a connection hands over fewer files than
  its limit of 512 streams (`StreamsRunOut`), and retrying `OpenStream`
  (`quic.go:245-253`) cannot help.
* `recv --dest .` refuses every name that does not begin with a dot
  (`RefusedOnlyUnderDot`): the cleaned base `.` is compared as a prefix.
* The check the sender makes beforehand (`main.go:204-205`) is exact for remote paths
  that stay below the directory they begin in. One that goes above it and comes down
  in the sender's own check directory, or in one whose name begins like it, passes
  there and is refused by the receiver.
* The log is rotated at a start only and grows without bound in between; an
  upload named `boltgo.log` replaces it.
* `systemctl is-active` answers "inactive" of a service that is stopped or not there,
  which contains "active" (`service.go:80`): the removal is done then too, and that is
  also what stops a process that runs without being enabled. Of a service that has
  failed and is not enabled the removal is skipped, which does no harm:
  nothing of it runs, and the unit file is written anew (`InstallRepairs`).
* An uninstall that fails after the unit file is gone is not finished by
  the next one, which finds nothing to do: the binary stays, and a process
  whose stop had failed goes on.
* On Windows "Service installed" is printed although `New-Service` failed
  (`service.go:197`); `InstalledIsRegistered` therefore speaks of commands without
  a fault.
* Exit codes 1 to 3 and 9 are never returned; `--retry` is parsed and not used.
  An accept error is retried at once.

## Proofs

`ReceiverProofs.tla` and `ReceiverStoreProofs.tla` prove, for all sets of
connections, uploads, paths, ids and contents that satisfy
`ReceiverAssumption`:

* `TypeCorrect`: the type invariant (the recorded queue and the number of
  blocks read are bounded by the upload, so that reads stay within the body).
* `OneReplierAlways`, `ReceiptsGoHomeAlways`. `OneReplier` is not inductive.
  The strengthening is `AcceptInv` (each stream is in the accept queue at most
  once, and only while its goroutine has not started, so that a control
  goroutine starts once) and `ReplyInv` (an entry is in the table only under
  the id of its TransferStart and of its connection, and only if its control
  goroutine posted it; a taken entry is in no table; frames on a control stream
  are those of the goroutine that took it).
* `LeftoverIsExplainedAlways`: `WaitInv` says that a goroutine goes without an
  entry only after its deadline; with distinct ids the entry that is taken is the
  upload's own, and taking it empties its place in the table.
* `FirstNameVouchesAlways`, `RejectionIsFinalAlways`: from `VouchInv`: a set flag has
  an upload that set it.
* `AcknowledgedIsStoredAlways`, `FailureLeavesNoFileAlways`,
  `UnopenedIsKeptAlways`, `SkipIsExactAlways`, each under `Apart`: uploads to one
  path do not overlap, or no two uploads have the same path. The invariant
  `StoreInv` says that at most one upload to a path is in progress
  (`Exclusive`), that a file has one name and the names of two paths are two
  files (`PathInv`), and what each goroutine knows at each step about the file it
  has open (`UploadInv`).

The second part of `ReceiverStoreProofs.tla` proves `StoreImplemented`: under `Apart`, `Spec` implies
`ImplementsStore`. To the invariants above it adds `HashInv` (the digest that is
compared is the one that was announced). Six steps of a data goroutine are steps of
`Store` (`SkipSeen`, `CreateSeen`, `BlockSeen`, `RemoveSeen`, `VerifySeen`,
`ReceiptSeen`), `Crash` is its `Crash`, and for every other action `Unseen` has four
conditions under which the mapped variables stay as they are.

`SenderProofs.tla` proves, for all lists of files, degrees of concurrency,
stream limits, windows and numbers of tries that satisfy `SenderAssumption`:

* `EndIsWhole`: `FinInv` adds that a goroutine about to end its stream has
  written all of it, and that no stream is ended while it is still written.
* `ExitIsRight`, `ClosesLast`. The counters say nothing by themselves; `CountInv`
  makes each of them the cardinality of a set of goroutines: `wg` of those
  added and not done, `sem` of those that hold a token, `sentCount` and
  `errCount` of those that have counted. `wg = 0` then means that the set is
  empty, so that when main goes on all goroutines are over (`QuietInv`) and the
  two counters partition the files.
* `StreamsAreFew`: every file announced holds a stream for ever and every file
  in transit another one. `StreamInv` bounds the number of announced files plus
  those with a data stream by `opened`, and `allowed`, which bounds `opened`, by the
  limit plus the number of completed data streams. A file with a data stream has
  been announced too (`FileInv`), and a completed data stream is one of those
  counted, so that the files with a data stream stay below the limit.
* `SenderTypes`: the ranges of the counters follow from `CountInv`.
* `EndedIsReportedAlways`: what the command reports as sent, once it has decided, is
  at least the number of streams that were ended. For `SendDir` the counters of
  `CountInv` say so; for `SendFile`, which decides by the error it is handed,
  `ErrorInv` adds that a result other than success leaves the stream without its end.

`TransferProofs.tla` proves, for all constants that satisfy `TransferAssumption` (the
assumptions of both sides, one connection, files that are the uploads):

* `TransferIsReceiver` and `TransferIsSender`: every step of `Transfer` is a step of
  `Receiver` or leaves its variables alone, and the same for `Sender` with a server
  that may abandon streams. So every theorem above holds of the composition; those
  of `Sender` are taken from an instance of `SenderProofs`, whose assumption is proved
  to hold (`SenderInstance`).
* `AcknowledgedIsReportedAlways`, without a condition on faults. What joins the two sides
  is `EndInv`: an upload is verified only after the sender ended its stream, and the
  end is never taken back (`EndStays`). The acknowledged files are then a subset of
  the ended ones, and those are at most the reported ones by `EndedIsReportedAlways`.
* `ExitZeroMeansStoredAlways`, under `Healthy`: the receiver is done before the close
  (`Patient`), network and disk do not fail, each file has a path of its own, as the
  files of one directory have, every name passes the check, and an announced
  digest is that of the content. The source may fail, streams may run out and the
  directory may hold anything. Each of the conditions is needed: `exit_zero` shows
  what happens without patience, and without a good name or a working disk the
  receiver refuses or abandons a stream whose bytes the sender has handed over.
  `LinkInv` says that the connection lasts from the dial to the close, `SendingInv`
  that the receiver gets to see every upload whose header was written, `CleanInv`
  that none fails and that all are over when the connection is closed.
  `SoleInv` says that a file found there with the announced digest is still there;
  with `StoreInv` and the injectivity of the digest every upload that is over is
  stored (`StoredInv`). `Healthy` has the `healthy` run as an instance.

`AsyncLogProofs.tla` proves, for every capacity, flush size, file size and bound that
satisfy `LogAssumption`, all safety properties of the log:

* `LogTypes`, with `FileInv`: the file is there while lines are written to it.
* `LossIsBoundedAlways`: `BufferInv`: a writer in its select has less than a flush
  in the buffer unless the last opening failed.
* `TwoOldLogsAlways`: `RotationInv`: the rest of a rotation is one of five, `log.3`
  is never there, and `log.2` is gone until `log.1` has been renamed.
* `NoGapsAlways`: `GapInv`: a name that is renamed to is free, so that each call
  leaves the concatenation of the files as it is or drops its beginning. Lemmas
  on sequences (`EndDrops`, `EndGrows`, `AppendToEnd`) carry it.
* `OrderIsKeptAlways`: `OrderInv`: everything written, the rest of the buffer and the
  channel are rising, each lies below the next, and all of it at most at the
  number of the last line. What the files hold is an end of what was written
  (`GapInv`), so it is rising too. The order of the files alone would not be
  inductive.

`HostProofs.tla` proves, for any number of commands and faults:

* Linux: `InstalledIsTrueAlways`, `InstallRepairsAlways`, `UninstallLeavesNothingAlways`.
  `ScriptInv` says that the script is an end of the plan of its command, so its
  length says which steps are behind, also when the query has skipped four of them
  (`Skipped`). `InstallInv`, `RepairInv` and `UninstallInv`
  say for each length what has been achieved. `InstallRepairsAlways` has one
  exception in its statement (`~waiting`), described under Findings; the five
  seconds before a restart are part of what it and `UninstallLeavesNothingAlways` say.
* Windows: `InstalledIsRegisteredAlways`. `PlanInv` is the same for the two plans of an
  install, `ProcessInv` says that the process runs what is registered and that
  only a registration is marked for deletion, `RegisteredInv` what is registered
  before and after `New-Service`.
* Both: `HostTypes`. The types are inductive only with `Numbered`: a command with
  steps left has been counted, so that what it copies, writes or registers is
  numbered from 1 and not taken for `Partial`.

`CodecProofs.tla` proves, for integers of any width and fields of any length:

* `NumberRoundTrip`: a number that is written as a varint is read as that number,
  whatever follows it, and nothing of what follows is taken.
* `RoundTrip`: every message of the thirteen types, encoded, is decoded as
  `Normal` of it: the same, but that a message without content in it is absent. The
  argument goes from a field (`FieldRoundTrip`: its tag, its length and its data are
  read and the rest is left) to the fields of a table one after the other
  (`FieldsRoundTrip`, with the suffixes of what `FlattenSeq` joins), from there to
  the fields by name (`RawRoundTrip`: numbers in a table are distinct, so the last
  field with a number is the only one) and to the messages in messages (`RoundTrip0`,
  `RoundTrip1`). `VanishesAsBytes` says when a message is written as nothing.

The functions of `Codec` are recursive, and two things have to be shown of each before
anything else: that it is what its definition says, and what it computes for every
input. Both are done with `WFMin`, which speaks of sets and not of predicates: the
inputs for which a claim fails, taken as a set, would have a least element
(`SetInduction`, `SizeInduction`), and a solution of the recursion is built the
same way (`Recursion`).

`WireProofs.tla` proves about `Wire`, for all streams that satisfy `WireAssumption`:

* `WireTypes`. That the weight and the length stay below `Limit` is not
  inductive by itself: it follows from the length that is still to come.
* `EveryFrameArrivesAlways` and `WireRefinesChannel` (`Spec` implies `WholeFrames`), for
  plain names. `Ahead` gives for every frame what was written after it; the
  invariant places the reader in that. On a control stream (`ControlAt`) it is
  between two frames, inside a length (`AtLength`: what has been read of it and a
  number v still to come, whose encoding is the next on the wire), or inside a frame
  (`AtBody`: what has been read, followed by what is on its way, is the frame
  followed by what is ahead). On a data stream (`UploadAt`) it is inside the first line,
  the second line or the content, or has lost the connection with nothing left to
  read. `ControlDecode` and `UploadData` take the message and the file from there, by
  `RoundTrip` and by `HeaderRoundTrip` and `HashRoundTrip`; every other step moves one
  byte or adds a frame behind all others.

`Plain` also says that `Place`, where the upload is meant to go, is where `JoinPath`
puts its name. TLC evaluates it on the instance (`AllPlain` in `MCWire`), where
`Place` is computed without joining or cleaning.

Only model-checked: the liveness properties (they need fairness and `ENABLED`), what
happens when uploads to one path overlap, and what becomes of a path: that
`RefusedOnlyUnderDot` holds and that `JoinPath` leads where the remote path says.
`Elements` is a fold of the community modules over a path that is itself the result
of one, with a stack as its accumulator; a statement about it for every path
depends on how far the path goes up, and was not attempted.

## Plan

Done, in the order of importance: the rendezvous and the directory (`Receiver`), the
sender's ends and counts (`Sender`), the two together (`Transfer`), the codec over a
stream of bytes (`Codec`, `Wire`), the abstract directory (`Store`) and its
refinement, the header and the names (`Upload`), the log (`AsyncLog`), the service
(`Systemd`, `WinService`, `Host`).

All safety properties but one have a theorem.

Left:

1. `filepath.Clean` as a stack machine, with the theorem that a name which does not go
   up is stored below the receive directory, and from it `RefusedOnlyUnderDot`.
2. `Probe`'s client as a run of its own, with its deadline.

## Not modelled

* TLS and the certificate, the logo, flags, addresses, the text of messages and the
  progress output: library calls, wording and I/O without state.
* `Probe`'s client: a dial, a write and a read in a row, each of whose errors ends it
  with exit code 8. Its two frames are in `Wire`.
* `MaxFileSize` is 0 in both callers, so the size check is dead code. DOWNLOAD headers
  and streams with an unknown first byte are not written by boltgo.
* Errors of `Accept` other than the end of the process.
* In `Codec`: fields above 31, whose tag would lose bits (only `UserMetadata`, which
  no code sets), and fields of a fixed width.
* In `AsyncLog`: a remove or rename that fails although the name is there, and an
  upload that overwrites `boltgo.log` (a hazard listed without a property).
* In `Upload`: the Windows form of `tempCheckDir`, and how blanks around a receipt
  id are trimmed.
* In `WinService`: that `runRecvFromService` reads its flags without the checks of
  `parseRecvFlags`.
