-------------------------------- MODULE Wire --------------------------------
(***************************************************************************)
(* One direction of a stream.  A control stream carries frames as bytes,   *)
(* each preceded by its length (cmd/boltgo/proto.go, cmd/boltgo/receipt.go) *)
(* and read by the loop or handler of the other side; a data stream        *)
(* carries one upload: two lines of header and the content, read by        *)
(* handleDataStream (cmd/boltgo/quic.go).                                  *)
(*                                                                         *)
(* The reader gets the bytes (of an upload: the tokens) in any portions,   *)
(* which is to say one at a time, and the connection may go between any    *)
(* two of them.                                                            *)
(*                                                                         *)
(* A definition named X_Fault is the code of X with a plausible bug; no    *)
(* behaviour of Spec uses one.                                             *)
(***************************************************************************)
EXTENDS Codec, Upload

CONSTANTS
  Scripts, \* what may be written: [type, frames], and of an upload the receive
           \* directory: [type, base, frames]
  MaxFrame \* longest frame that is read (1024 * 1024)

Types == {"ControlFrame", "ReceiptFrame", "Upload"}

\* The end of a data stream.
Fin == "FIN"

\* Frames that are not too long; of the receipts the programs write only the
\* two of sendReceiptFrames.
ControlWritable(type, m) ==
  /\ IsMessage(type, m) /\ Len(Marshal(type, m)) <= MaxFrame
  /\ type = "ReceiptFrame" => m.Failed = Nil /\ m.Nacked = Nil

\* An id and a digest are hexadecimal.
UploadWritable(f) ==
  LET IsText(s) == s \in Seq(ToSet(s)) IN
  /\ IsText(f.FileName) /\ IsText(f.ReceiptID) /\ IsText(f.Sha256) /\ IsText(f.Content)
  /\ f.SizeBytes \in Numbers
  /\ {LF, ":"} \cap (ToSet(f.ReceiptID) \cup ToSet(f.Sha256)) = {}
  /\ Fin \notin ToSet(f.Content)
  /\ f = [name \in {"FileName", "SizeBytes", "ReceiptID", "Sha256", "Content", "Place"} |-> f[name]]

Writable(s) ==
  /\ s.type \in Types
  /\ s.frames \in Seq(ToSet(s.frames)) \ {<< >>}
  /\ \A f \in ToSet(s.frames) :
       IF s.type = "Upload" THEN UploadWritable(f) ELSE ControlWritable(s.type, f)

\* Names that a header can carry, a colon or a line feed would end them, for
\* the places they stand for.  Only the proofs assume this.
Plain(s) ==
  s.type = "Upload" =>
    \A f \in ToSet(s.frames) :
      /\ {LF, ":"} \cap ToSet(f.FileName) = {}
      /\ f.Place = Elements(JoinPath(<<s.base, f.FileName>>))

ASSUME WireAssumption ==
  /\ MaxFrame \in 0..(Limit - 1)
  /\ {LF, ":"} \cap Numbers = {}
  /\ \A s \in Scripts : Writable(s)

VARIABLES
  script, \* what is written on this stream
  sent,   \* how many of its frames have been written
  wire,   \* bytes on their way
  broken, \* is the connection gone?
  reader, \* of a control stream "length", "body"; of a data stream "header",
          \* "peek", "check", "data"; then "done", "refused" or "error"
  weight, \* of the next byte of the length (2^shift)
  length, \* the length, as far as it is read
  body,   \* the bytes of the frame or line, as far as they are read
  head,   \* what the header of an upload said
  got     \* frames decoded, uploads read to their end

frame == <<weight, length>>
vars == <<script, sent, wire, broken, reader, frame, body, head, got>>

Init ==
  /\ script \in Scripts
  /\ sent = 0 /\ wire = << >> /\ broken = FALSE
  /\ reader = IF script.type = "Upload" THEN "header" ELSE "length"
  /\ weight = 1 /\ length = 0 /\ body = << >>
  /\ head = Nil /\ got = << >>

-----------------------------------------------------------------------------
EncodeLengthDelimited(bytes) == AppendVarint[Len(bytes)] \o bytes

Encode(f) ==
  IF script.type = "Upload" THEN Header(f) \o f.Content \o <<Fin>>
  ELSE EncodeLengthDelimited(Marshal(script.type, f))

\* One Write for each frame; an upload takes several, and loses what is not
\* written when the connection goes just as it loses what is on its way.
WriteFrame ==
  /\ ~broken /\ sent < Len(script.frames)
  /\ sent' = sent + 1
  /\ wire' = wire \o Encode(script.frames[sent + 1])
  /\ UNCHANGED <<script, broken, reader, frame, body, head, got>>

Take == wire # << >> /\ wire' = Tail(wire)

\* One more byte of the length.
AddByte(value, w, b) == (value + (b % 128) * w) % Limit

\* readVarint, and the limit decodeLengthDelimited sets to it.
ReadLength_Short ==
  /\ reader = "length" /\ Take
  /\ LET v == AddByte(length, weight, Head(wire)) IN
       IF Head(wire) < 128
       THEN /\ length' = v /\ weight' = 1
            /\ reader' = IF v >= MaxFrame THEN "error" ELSE "body"
       ELSE /\ length' = v /\ weight' = 128 * weight
            /\ reader' = IF 128 * weight >= Limit THEN "error" ELSE "length"
  /\ UNCHANGED <<script, sent, broken, body, head, got>>

ReadLength ==
  /\ reader = "length" /\ Take
  /\ LET v == AddByte(length, weight, Head(wire)) IN
       IF Head(wire) < 128
       THEN /\ length' = v /\ weight' = 1
            /\ reader' = IF v > MaxFrame THEN "error" ELSE "body"
       ELSE /\ length' = v /\ weight' = 128 * weight
            /\ reader' = IF 128 * weight >= Limit THEN "error" ELSE "length"
  /\ UNCHANGED <<script, sent, broken, body, head, got>>

\* io.ReadFull: no frame before its last byte.
ReadBody ==
  /\ reader = "body" /\ Len(body) < length /\ Take
  /\ body' = Append(body, Head(wire))
  /\ UNCHANGED <<script, sent, broken, reader, frame, head, got>>

\* handleControlStream and Probe read one frame, drainReceipts up to one that
\* is terminal.
Stops(m) ==
  \/ script.type = "ControlFrame"
  \/ m.Acked # Nil \/ m.Nacked # Nil \/ m.Failed # Nil

DecodeFrame_Early ==
  /\ reader = "body" /\ (Len(body) = length \/ broken)
  /\ LET m == Unmarshal(script.type, body) IN
       IF ~m.ok THEN reader' = "error" /\ UNCHANGED got
       ELSE got' = Append(got, m.msg) /\ reader' = IF Stops(m.msg) THEN "done" ELSE "length"
  /\ length' = 0 /\ body' = << >>
  /\ UNCHANGED <<script, sent, wire, broken, weight, head>>

DecodeFrame ==
  /\ reader = "body" /\ Len(body) = length
  /\ LET m == Unmarshal(script.type, body) IN
       IF ~m.ok THEN reader' = "error" /\ UNCHANGED got
       ELSE got' = Append(got, m.msg) /\ reader' = IF Stops(m.msg) THEN "done" ELSE "length"
  /\ length' = 0 /\ body' = << >>
  /\ UNCHANGED <<script, sent, wire, broken, weight, head>>

\* A read fails when the connection is gone, bytes on their way or not.
ReadFails ==
  /\ broken
  /\ reader \in {"length", "header", "data"} \/ (reader = "body" /\ Len(body) < length)
  /\ reader' = "error"
  /\ UNCHANGED <<script, sent, wire, broken, frame, body, head, got>>

-----------------------------------------------------------------------------
(***************************************************************************)
(* handleDataStream, up to the end of io.Copy.                             *)
(***************************************************************************)
ReadHeaderLine ==
  /\ reader = "header" /\ Take
  /\ IF Head(wire) # LF
     THEN body' = Append(body, Head(wire)) /\ UNCHANGED <<reader, head>>
     ELSE /\ body' = << >>
          /\ IF IsHeader(body) THEN reader' = "peek" /\ head' = ParseHeader(body)
             ELSE reader' = "error" /\ UNCHANGED head
  /\ UNCHANGED <<script, sent, broken, frame, got>>

ReadHashLine ==
  /\ reader = "peek" /\ Take
  /\ IF Head(wire) # LF
     THEN body' = Append(body, Head(wire)) /\ UNCHANGED reader
     ELSE reader' = "check" /\ UNCHANGED body
  /\ UNCHANGED <<script, sent, broken, frame, head, got>>

\* The loop is left, and what there is of the line is taken.  No later read
\* succeeds.
ReadHashFails ==
  /\ reader = "peek" /\ broken
  /\ reader' = "check" /\ wire' = << >>
  /\ UNCHANGED <<script, sent, broken, frame, body, head, got>>

\* What was read is the digest, or the beginning of the data.  The first name
\* of a connection is checked.
CheckUpload ==
  /\ reader = "check"
  /\ head' = [FileName |-> head.FileName, SizeBytes |-> head.SizeBytes,
              ReceiptID |-> head.ReceiptID,
              Sha256 |-> IF IsHash(body) THEN SubSeq(body, 3, Len(body)) ELSE << >>]
  /\ body' = IF IsHash(body) THEN << >> ELSE body
  /\ reader' = IF ValidateSubPath(script.base, head.FileName) THEN "data" ELSE "refused"
  /\ UNCHANGED <<script, sent, wire, broken, frame, got>>

\* destPath, and what has been stored there.
Stored(content) ==
  [FileName |-> head.FileName, SizeBytes |-> head.SizeBytes, ReceiptID |-> head.ReceiptID,
   Sha256 |-> head.Sha256, Content |-> content,
   Place |-> Elements(JoinPath(<<script.base, head.FileName>>))]

ReadData_Short ==
  /\ reader = "data" /\ (wire # << >> \/ broken)
  /\ IF wire # << >> /\ Head(wire) # Fin
     THEN body' = Append(body, Head(wire)) /\ wire' = Tail(wire) /\ UNCHANGED <<reader, got>>
     ELSE got' = Append(got, Stored(body)) /\ reader' = "done" /\ UNCHANGED <<body, wire>>
  /\ UNCHANGED <<script, sent, broken, frame, head>>

ReadData ==
  /\ reader = "data" /\ Take
  /\ IF Head(wire) # Fin
     THEN body' = Append(body, Head(wire)) /\ UNCHANGED <<reader, got>>
     ELSE got' = Append(got, Stored(body)) /\ reader' = "done" /\ UNCHANGED body
  /\ UNCHANGED <<script, sent, broken, frame, head>>

-----------------------------------------------------------------------------
Break ==
  /\ ~broken
  /\ broken' = TRUE
  /\ UNCHANGED <<script, sent, wire, reader, frame, body, head, got>>

Reader ==
  \/ ReadLength \/ ReadBody \/ DecodeFrame \/ ReadFails
  \/ ReadHeaderLine \/ ReadHashLine \/ ReadHashFails \/ CheckUpload \/ ReadData

Next == WriteFrame \/ Reader \/ Break

Spec == Init /\ [][Next]_vars
-----------------------------------------------------------------------------
TypeOK ==
  /\ sent \in 0..Len(script.frames)
  /\ broken \in BOOLEAN
  /\ reader \in {"length", "body", "header", "peek", "check", "data", "done", "refused", "error"}
  /\ weight \in 1..(Limit - 1) /\ length \in 0..(Limit - 1)
  /\ script.type # "Upload" =>
       /\ wire \in Seq(Byte) /\ body \in Seq(Byte) /\ head = Nil
       /\ \A i \in DOMAIN got : DOMAIN got[i] = DOMAIN Zero(script.type)

(***************************************************************************)
(* What is written arrives whole and in order, however the bytes are split *)
(* and wherever the connection breaks: a frame with nothing changed but    *)
(* that a message without content is absent (proto.go:113-133,             *)
(* receipt.go); an upload, when io.Copy ends without an error, with the    *)
(* name, size, receipt id, digest and content the sender gave it, at the   *)
(* place its remote path and its own path name below the receive directory *)
(* (quic.go:258-275, 605-692).                                             *)
(***************************************************************************)
Arrived ==
  [i \in 1..sent |-> IF script.type = "Upload" THEN script.frames[i]
                    ELSE Normal(script.type, script.frames[i])]

Channel == INSTANCE FrameChannel WITH sent <- Arrived, got <- got

WholeFrames == Channel!Spec

(***************************************************************************)
(* Every frame the programs write can be read: the reader meets no error   *)
(* as long as the connection holds, and when it waits for another length   *)
(* with nothing on its way, or has stopped, it has got them all            *)
(* (proto.go:120-165, quic.go:605-667).                                    *)
(***************************************************************************)
EveryFrameArrives ==
  /\ reader = "error" => broken
  /\ reader \in {"length", "done"} /\ weight = 1 /\ wire = << >> => Len(got) = sent

(***************************************************************************)
(* A receipt is Received and then Acked (README.md:176-180, quic.go:763),  *)
(* and the drainer stops at the Acked (quic.go:300-303).  But an Acked     *)
(* marshals to nothing, and a field with nothing in it is not written      *)
(* (proto.go:185-187, 572-573, 682): the frame arrives with a receipt id   *)
(* only, and the drainer reads on until the connection ends.               *)
(***************************************************************************)
AckedEndsTheDrainer ==
  script.type = "ReceiptFrame" =>
    \A i \in DOMAIN got : script.frames[i].Acked # Nil => reader = "done"

(***************************************************************************)
(* The sender checks its remote path against a directory of its own to     *)
(* foresee what the receiver will say (main.go:204-205).  As long as the   *)
(* path stays below the directory it begins in, it foresees it for every   *)
(* receive directory but the current one: under "." the receiver refuses   *)
(* all names that do not begin with a dot (pathutil.go:11-14,              *)
(* quic.go:681-687).                                                       *)
(***************************************************************************)
RefusedOnlyUnderDot == reader = "refused" => Clean(script.base) = <<".">>
=============================================================================
