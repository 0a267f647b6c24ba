------------------------------- MODULE Codec --------------------------------
(***************************************************************************)
(* The messages of the control streams as bytes: marshal and unmarshal of  *)
(* cmd/boltgo/proto.go.  A string is a sequence of bytes.  The table of    *)
(* fields of a type stands for its two methods, which go through the same  *)
(* fields in the same order.                                               *)
(*                                                                         *)
(* An integer of the code has 64 bits and Limit is 2^64: a varint takes    *)
(* seven bits a byte, and of its last byte only the bits that are left.    *)
(* Three fields are narrowed to 32 bits when they are decoded (proto.go:   *)
(* 333, 554, 674), which is left out here: the types of the same fields    *)
(* have 32 bits too, so that what boltgo writes in them comes back.        *)
(*                                                                         *)
(* What decodes returns a record that says whether it succeeded, as the    *)
(* code returns an error.  A definition named X_Fault is the code of X     *)
(* with a plausible bug.                                                   *)
(***************************************************************************)
EXTENDS Integers, Sequences, SequencesExt

CONSTANT Limit \* how many values an integer has

ASSUME CodecAssumption == Limit \in Nat /\ Limit > 1

Byte == 0..255

\* An absent message: no message has such a field.
Nil == [nil |-> TRUE]

\* An error.
Failure == [ok |-> FALSE]

-----------------------------------------------------------------------------
(***************************************************************************)
(* Types.  The fields of Metadata that no program here sets are left out.  *)
(* A field that holds a message is named for the message's type.           *)
(***************************************************************************)
Str(no, name) == [no |-> no, name |-> name, kind |-> "string"]
Num(no, name) == [no |-> no, name |-> name, kind |-> "number"]
Flag(no, name) == [no |-> no, name |-> name, kind |-> "bool"]
Msg(no, name) == [no |-> no, name |-> name, kind |-> "message"]

TransferStart ==
  <<Str(1, "ReceiptID"), Str(2, "FileName"), Num(3, "SizeBytes"), Str(4, "Sha256"),
    Msg(5, "Metadata"), Num(6, "ChunkSize")>>

Metadata ==
  <<Str(1, "ID"), Str(2, "FromNode"), Str(3, "ToNode"), Str(5, "ContentType"),
    Num(6, "SizeBytes"), Str(7, "Sha256"), Str(8, "FileName"), Str(9, "Protocol"),
    Str(10, "SessionID")>>

Handshake ==
  <<Str(1, "ProtocolVersion"), Str(2, "SenderNodeID"), Str(3, "AuthProof"),
    Num(4, "Capabilities")>>

Cancel == <<Str(1, "ReceiptID"), Str(2, "Reason")>>
ProbeResponse == <<Str(1, "SaveDir")>>

ControlFrame ==
  <<Msg(1, "Handshake"), Msg(2, "TransferStart"), Msg(3, "Cancel"), Msg(4, "ProbeRequest"),
    Msg(5, "ProbeResponse")>>

BytesReceived == <<Num(1, "Bytes")>>
Received == <<Flag(1, "ChecksumOK"), Str(2, "Sha256")>>
Failed == <<Num(1, "Code"), Str(2, "Detail")>>
Nacked == <<Str(1, "Reason")>>

ReceiptFrame ==
  <<Str(1, "ReceiptID"), Msg(2, "BytesReceived"), Msg(3, "Received"), Msg(4, "Failed"),
    Msg(5, "Acked"), Msg(6, "Nacked")>>

Fields ==
  [TransferStart |-> TransferStart, Metadata |-> Metadata, Handshake |-> Handshake,
   Cancel |-> Cancel, ProbeRequest |-> << >>, ProbeResponse |-> ProbeResponse,
   ControlFrame |-> ControlFrame, BytesReceived |-> BytesReceived, Received |-> Received,
   Failed |-> Failed, Acked |-> << >>, Nacked |-> Nacked, ReceiptFrame |-> ReceiptFrame]

Table(type) == ToSet(Fields[type])
FieldNames(type) == {f.name : f \in Table(type)}
FieldOf(type, name) == CHOOSE f \in Table(type) : f.name = name

\* A message none of whose fields has been set.
ZeroOf(kind) ==
  CASE kind = "string" -> << >> [] kind = "number" -> 0
    [] kind = "bool" -> FALSE   [] kind = "message" -> Nil

Zero(type) == [name \in FieldNames(type) |-> ZeroOf(FieldOf(type, name).kind)]

\* The values a variable of the type has.  Messages hold messages two levels deep.
Typed(type, m, Is(_, _)) ==
  /\ m = [name \in FieldNames(type) |-> m[name]]
  /\ \A f \in Table(type) :
       CASE f.kind = "string" -> m[f.name] \in Seq(Byte)
         [] f.kind = "number" -> m[f.name] \in 0..(Limit - 1)
         [] f.kind = "bool" -> m[f.name] \in BOOLEAN
         [] f.kind = "message" -> m[f.name] = Nil \/ Is(f.name, m[f.name])

IsMessage0(type, m) == Typed(type, m, LAMBDA name, v : FALSE)
IsMessage1(type, m) == Typed(type, m, IsMessage0)
IsMessage(type, m) == Typed(type, m, IsMessage1)

-----------------------------------------------------------------------------
(***************************************************************************)
(* Encoding.                                                               *)
(***************************************************************************)
\* A byte that is not the last: byte(v) | 0x80.
Continued_Unmasked(v) == v + 128
Continued(v) == (v % 128) + 128

AppendVarint[v \in Nat] ==
  IF v >= 128 THEN <<Continued(v)>> \o AppendVarint[v \div 128] ELSE <<v>>

\* A byte: (fieldNumber << 3) | wireType loses the bits above the eighth.
FieldTag(no, wire) == (no * 8 + wire) % 256

AppendNumber(no, v) == <<FieldTag(no, 0)>> \o AppendVarint[v]

\* An empty string is not written, nor is a message that is empty.
AppendBytes(no, data) ==
  IF data = << >> THEN << >> ELSE <<FieldTag(no, 2)>> \o AppendVarint[Len(data)] \o data

AppendField(f, v) ==
  CASE f.kind \in {"string", "message"} -> AppendBytes(f.no, v)
    [] f.kind = "number" -> AppendNumber(f.no, v)
    [] f.kind = "bool" -> IF v THEN AppendNumber(f.no, 1) ELSE << >>

\* A message whose messages are bytes already.  A ProbeRequest is a single
\* zero, so that it is not empty.
AppendFields(type, m) ==
  IF type = "ProbeRequest" THEN <<0>>
  ELSE FlattenSeq([i \in DOMAIN Fields[type] |->
                     AppendField(Fields[type][i], m[Fields[type][i].name])])

\* The messages in m as bytes.
Inner(type, m, Bytes(_, _)) ==
  [name \in FieldNames(type) |->
     IF FieldOf(type, name).kind # "message" THEN m[name]
     ELSE IF m[name] = Nil THEN << >> ELSE Bytes(name, m[name])]

Marshal0(type, m) == AppendFields(type, m)
Marshal1(type, m) == AppendFields(type, Inner(type, m, Marshal0))
Marshal(type, m) == AppendFields(type, Inner(type, m, Marshal1))

-----------------------------------------------------------------------------
(***************************************************************************)
(* Decoding.                                                               *)
(***************************************************************************)
\* A varint in front of buf, its bits all kept, and the weight of its last byte.
Varint[buf \in Seq(Byte)] ==
  IF buf = << >> THEN Failure
  ELSE IF Head(buf) < 128
  THEN [ok |-> TRUE, value |-> Head(buf), weight |-> 1, rest |-> Tail(buf)]
  ELSE LET more == Varint[Tail(buf)] IN
       IF ~more.ok THEN Failure
       ELSE [ok |-> TRUE, value |-> (Head(buf) % 128) + 128 * more.value,
             weight |-> 128 * more.weight, rest |-> more.rest]

DecodeVarint(buf) ==
  LET n == Varint[buf] IN
  IF ~n.ok THEN Failure ELSE IF n.weight >= Limit THEN Failure
  ELSE [ok |-> TRUE, value |-> n.value % Limit, rest |-> n.rest]

\* The field in front of buf.  Neither side writes one of a fixed width, and
\* how that is read is left out.
FirstField(buf) ==
  LET wire == Head(buf) % 8
      n == DecodeVarint(Tail(buf))
      field(value, data, rest) ==
        [ok |-> TRUE, no |-> Head(buf) \div 8, value |-> value, data |-> data, rest |-> rest]
  IN IF Len(buf) < 2 \/ wire \notin {0, 2} THEN Failure ELSE IF ~n.ok THEN Failure
     ELSE IF wire = 0 THEN field(n.value, << >>, n.rest)
     ELSE IF Len(n.rest) < n.value THEN Failure
     ELSE field(0, SubSeq(n.rest, 1, n.value), SubSeq(n.rest, n.value + 1, Len(n.rest)))

DecodeFields[buf \in Seq(Byte)] ==
  IF buf = << >> THEN [ok |-> TRUE, fields |-> << >>]
  ELSE LET x == FirstField(buf) IN
       IF ~x.ok THEN Failure
       ELSE LET others == DecodeFields[x.rest] IN
            IF ~others.ok THEN Failure ELSE [ok |-> TRUE, fields |-> <<x>> \o others.fields]

\* A message from the fields d that were decoded, its messages read by Read.  Of
\* the fields with a number the last one counts; one with an unknown number says
\* nothing.
SetFields(type, d, Read(_, _)) ==
  LET said(f) == {i \in DOMAIN d.fields : d.fields[i].no = f.no}
      value(f, x) ==
        CASE f.kind = "string" -> x.data
          [] f.kind = "number" -> x.value
          [] f.kind = "bool" -> x.value # 0
          [] f.kind = "message" -> Read(f.name, x.data).msg
      set(f) ==
        IF said(f) = {} THEN ZeroOf(f.kind)
        ELSE value(f, d.fields[CHOOSE i \in said(f) : \A j \in said(f) : j <= i])
  IN IF type \in {"ProbeRequest", "Acked"} THEN [ok |-> TRUE, msg |-> Zero(type)]
     ELSE IF ~d.ok THEN Failure
     ELSE IF \E f \in Table(type) :
               f.kind = "message" /\ \E i \in said(f) : ~Read(f.name, d.fields[i].data).ok
     THEN Failure
     ELSE [ok |-> TRUE, msg |-> [name \in FieldNames(type) |-> set(FieldOf(type, name))]]

Unmarshal0(type, buf) == SetFields(type, DecodeFields[buf], LAMBDA name, data : Failure)
Unmarshal1(type, buf) == SetFields(type, DecodeFields[buf], Unmarshal0)
Unmarshal(type, buf) == SetFields(type, DecodeFields[buf], Unmarshal1)

-----------------------------------------------------------------------------
(***************************************************************************)
(* What is left of a message when it has been encoded and decoded: a       *)
(* message inside it that has nothing to write is as good as absent.  A    *)
(* number or a message makes something to write.                           *)
(***************************************************************************)
Vanishes(type, m) ==
  /\ type # "ProbeRequest"
  /\ \A f \in Table(type) : f.kind \in {"string", "bool"} /\ m[f.name] = ZeroOf(f.kind)

Reduced(type, m, Form(_, _)) ==
  [name \in FieldNames(type) |->
     IF FieldOf(type, name).kind # "message" \/ m[name] = Nil THEN m[name]
     ELSE IF Vanishes(name, m[name]) THEN Nil ELSE Form(name, m[name])]

Normal0(type, m) == m
Normal1(type, m) == Reduced(type, m, Normal0)
Normal(type, m) == Reduced(type, m, Normal1)
=============================================================================
