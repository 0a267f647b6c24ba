----------------------------- MODULE WireProofs -----------------------------
(***************************************************************************)
(* Theorems about Wire, for any streams: the types of the variables, that  *)
(* every frame arrives, and that a stream implements FrameChannel.         *)
(*                                                                         *)
(* The invariant says where the reader is in what has been written: h[i]   *)
(* are the symbols of the frames after the i-th, and what the reader has   *)
(* read of a length, a frame or a line, followed by what is on its way, is *)
(* where h has it.  The frames themselves are read by CodecProofs, the     *)
(* lines of a header by the lemmas that come first.                        *)
(***************************************************************************)
EXTENDS Wire, CodecProofs

-----------------------------------------------------------------------------
(***************************************************************************)
(* The lines of a header.                                                  *)
(***************************************************************************)
\* The token does not occur.
Without(s, sep) == \A i \in DOMAIN s : s[i] # sep

\* What is cut at the first sep, and what follows.
LEMMA CutFound ==
  ASSUME NEW T, NEW s \in Seq(T), NEW sep \in T, NEW t \in Seq(T), Without(s, sep)
  PROVE  Cut(s \o (<<sep>> \o t), sep) = [found |-> TRUE, before |-> s, after |-> t]
<1> DEFINE u == s \o (<<sep>> \o t)
           at == {i \in DOMAIN u : u[i] = sep}
           first == CHOOSE i \in at : \A j \in at : i <= j
           k == Len(s) + 1
<1>1. /\ u \in Seq(T) /\ Len(u) = k + Len(t) /\ Len(s) \in Nat /\ Len(t) \in Nat /\ DOMAIN u = 1..Len(u)
      /\ \A i \in 1..Len(s) : u[i] = s[i]
      /\ u[k] = sep
  OBVIOUS
<1>2. \A i \in 1..Len(s) : s[i] # sep
  BY DEF Without
<1>3. SubSeq(u, 1, k - 1) = s /\ SubSeq(u, k + 1, Len(u)) = t
  OBVIOUS
<1> HIDE DEF u
<1>4. k \in at /\ \A j \in at : k <= j
  BY <1>1, <1>2, SMTT(30)
<1>5. at # {} /\ at \subseteq Nat
  BY <1>1, <1>4
<1>6. first = k
  <2>1. \A i \in at : (\A j \in at : i <= j) => i = k
    BY <1>1, <1>4, <1>5, SMTT(30)
  <2> HIDE DEF at, k
  <2> QED BY <1>4, <2>1
<1>7. Cut(u, sep) = [found |-> TRUE, before |-> SubSeq(u, 1, first - 1), after |-> SubSeq(u, first + 1, Len(u))]
  BY <1>5 DEF Cut
<1> HIDE DEF first, at, k
<1> QED BY <1>3, <1>6, <1>7 DEF u

\* Without one nothing is cut off.
LEMMA CutMissing ==
  ASSUME NEW T, NEW s \in Seq(T), NEW sep, Without(s, sep)
  PROVE  Cut(s, sep).before = s
<1>1. {i \in DOMAIN s : s[i] = sep} = {}
  BY DEF Without
<1> QED BY <1>1 DEF Cut

\* The two lines of a header, without their ends.
FirstLine(f) == <<"UPLOAD", ":">> \o f.FileName \o <<":", f.SizeBytes, ":", ":">> \o f.ReceiptID
HashLine(f) == <<"HASH", ":">> \o f.Sha256

\* The two lines of a header are read as what they were made of.
LEMMA HeaderRoundTrip ==
  ASSUME NEW T, {":", "UPLOAD"} \subseteq T, NEW f,
         f.FileName \in Seq(T), f.ReceiptID \in Seq(T), f.SizeBytes \in T,
         f.SizeBytes \in Numbers, ":" \notin Numbers,
         Without(f.FileName, ":"), Without(f.ReceiptID, ":")
  PROVE  /\ FirstLine(f) \in Seq(T)
         /\ IsHeader(FirstLine(f))
         /\ ParseHeader(FirstLine(f)) =
              [FileName |-> f.FileName, SizeBytes |-> f.SizeBytes, ReceiptID |-> f.ReceiptID]
<1> DEFINE line == FirstLine(f)
           n == f.FileName
           z == f.SizeBytes
           id == f.ReceiptID
           afterSize == <<":">> \o id
           afterName == <<z>> \o (<<":">> \o afterSize)
           afterTag == n \o (<<":">> \o afterName)
<1>1. n \in Seq(T) /\ id \in Seq(T) /\ z \in T /\ ":" \in T /\ "UPLOAD" \in T /\ z # ":"
  OBVIOUS
<1> HIDE DEF n, z, id
<1>2. afterSize \in Seq(T) /\ afterName \in Seq(T)
  BY <1>1
<1>3. line = <<"UPLOAD", ":">> \o afterTag
  <2>1. <<":", z, ":", ":">> \o id = <<":">> \o afterName
    BY <1>1
  <2>2. line = ((<<"UPLOAD", ":">> \o n) \o <<":", z, ":", ":">>) \o id
    BY DEF FirstLine, n, z, id
  <2>3. ((<<"UPLOAD", ":">> \o n) \o <<":", z, ":", ":">>) \o id = <<"UPLOAD", ":">> \o (n \o (<<":", z, ":", ":">> \o id))
    BY <1>1, SMTT(30)
  <2> QED BY <2>1, <2>2, <2>3
<1> HIDE DEF afterSize, line
<1>4. afterTag \in Seq(T)
  BY <1>1, <1>2
<1>5. Cut(afterTag, ":") = [found |-> TRUE, before |-> n, after |-> afterName]
  <2> HIDE DEF afterName
  <2>1. Without(n, ":")
    BY DEF n
  <2> QED BY <1>1, <1>2, <2>1, CutFound
<1>6. Cut(afterName, ":") = [found |-> TRUE, before |-> <<z>>, after |-> afterSize]
  <2>1. Without(<<z>>, ":") /\ <<z>> \in Seq(T)
    BY <1>1 DEF Without
  <2> QED BY <1>1, <1>2, <2>1, CutFound
<1>7. Cut(afterSize, ":").after = id
  <2>1. << >> \in Seq(T) /\ Without(<< >>, ":") /\ afterSize = << >> \o (<<":">> \o id)
    BY <1>1, <1>2 DEF Without, afterSize
  <2>2. Cut(<< >> \o (<<":">> \o id), ":") = [found |-> TRUE, before |-> << >>, after |-> id]
    BY <1>1, <2>1, CutFound
  <2> QED BY <2>1, <2>2
<1>8. Cut(id, ":").before = id
  BY <1>1, CutMissing DEF id
<1> HIDE DEF afterTag, afterName
<1>9. line \in Seq(T) /\ Len(line) = 2 + Len(afterTag) /\ Len(afterTag) \in Nat
      /\ SubSeq(line, 3, Len(line)) = afterTag /\ IsPrefix(<<"UPLOAD", ":">>, line)
  BY <1>1, <1>3, <1>4 DEF IsPrefix
<1>10. NamePart(line) = [found |-> TRUE, before |-> n, after |-> afterName]
  BY <1>5, <1>9 DEF NamePart
<1>11. SizePart(line) = [found |-> TRUE, before |-> <<z>>, after |-> afterSize]
  BY <1>6, <1>10 DEF SizePart
<1>12. TokenPart(line).after = id
  BY <1>7, <1>11 DEF TokenPart
<1>13. ParseUint(<<z>>) = z
  <2>1. z \in Numbers
    BY DEF z
  <2>2. \E m \in Numbers : <<z>> = <<m>>
    BY <2>1
  <2> QED BY <2>2 DEF ParseUint
<1>14. IsHeader(line)
  BY <1>9, <1>10, <1>11 DEF IsHeader
<1>15. ParseHeader(line) = [FileName |-> n, SizeBytes |-> z, ReceiptID |-> id]
  BY <1>8, <1>10, <1>11, <1>12, <1>13 DEF ParseHeader
<1> QED BY <1>9, <1>14, <1>15 DEF line, n, z, id

\* A digest is read as it was written.
LEMMA HashRoundTrip ==
  ASSUME NEW T, {":", "HASH"} \subseteq T, NEW f, f.Sha256 \in Seq(T)
  PROVE  /\ HashLine(f) \in Seq(T) /\ IsHash(HashLine(f))
         /\ SubSeq(HashLine(f), 3, Len(HashLine(f))) = f.Sha256
<1> DEFINE d == f.Sha256
<1>1. d \in Seq(T) /\ ":" \in T /\ "HASH" \in T
  OBVIOUS
<1> HIDE DEF d
<1>2. /\ <<"HASH", ":">> \o d \in Seq(T) /\ IsPrefix(<<"HASH", ":">>, <<"HASH", ":">> \o d)
      /\ SubSeq(<<"HASH", ":">> \o d, 3, Len(<<"HASH", ":">> \o d)) = d
  BY <1>1 DEF IsPrefix
<1> QED BY <1>2 DEF HashLine, IsHash, d

\* One more of what is on its way has been read.
LEMMA TakeOne ==
  ASSUME NEW T, NEW past \in Seq(T), NEW ahead \in Seq(T), ahead # << >>
  PROVE  /\ Append(past, Head(ahead)) \in Seq(T) /\ Tail(ahead) \in Seq(T) /\ Head(ahead) \in T
         /\ Append(past, Head(ahead)) \o Tail(ahead) = past \o ahead
         /\ Len(Append(past, Head(ahead))) = Len(past) + 1
<1> DEFINE a == Head(ahead)
           t == Tail(ahead)
<1>1. a \in T /\ t \in Seq(T) /\ ahead = <<a>> \o t
  OBVIOUS
<1> HIDE DEF a, t
<1>2. Append(past, a) = past \o <<a>> /\ Append(past, a) \in Seq(T) /\ Len(Append(past, a)) = Len(past) + 1
  BY <1>1
<1>3. (past \o <<a>>) \o t = past \o (<<a>> \o t)
  BY <1>1
<1> QED BY <1>1, <1>2, <1>3 DEF a, t

\* What stands before and behind a token.
LEMMA Behind ==
  ASSUME NEW T, NEW s \in Seq(T), NEW a \in T, NEW t \in Seq(T)
  PROVE  LET u == s \o (<<a>> \o t)
         IN  /\ u \in Seq(T) /\ Len(s) \in Nat /\ u[Len(s) + 1] = a
             /\ \A i \in 1..Len(s) : u[i] = s[i]
             /\ SubSeq(u, 1, Len(s)) = s /\ SubSeq(u, Len(s) + 2, Len(u)) = t
OBVIOUS

\* past is what has been read, and ahead what is to be read, of a line, the
\* token that ends it and the rest.
Midway(T, line, end, rest, past, ahead) ==
  /\ line \in Seq(T) /\ end \in T /\ rest \in Seq(T) /\ Without(line, end)
  /\ past \in Seq(T) /\ ahead \in Seq(T) /\ Without(past, end)
  /\ past \o ahead = line \o (<<end>> \o rest)

\* A line is read up to the end of it.
LEMMA LineStep ==
  ASSUME NEW T, NEW line, NEW end, NEW rest, NEW past, NEW ahead,
         Midway(T, line, end, rest, past, ahead), ahead # << >>
  PROVE  /\ Head(ahead) # end => Midway(T, line, end, rest, Append(past, Head(ahead)), Tail(ahead))
         /\ Head(ahead) = end => past = line /\ Tail(ahead) = rest
         /\ Tail(ahead) \in Seq(T)
<1>0. /\ line \in Seq(T) /\ end \in T /\ rest \in Seq(T) /\ Without(line, end)
      /\ past \in Seq(T) /\ ahead \in Seq(T) /\ Without(past, end)
      /\ past \o ahead = line \o (<<end>> \o rest)
  BY DEF Midway
<1> DEFINE a == Head(ahead)
           t == Tail(ahead)
           u == line \o (<<end>> \o rest)
<1>1. a \in T /\ t \in Seq(T) /\ ahead = <<a>> \o t
  BY <1>0
<1> HIDE DEF a, t
<1>2. u = past \o (<<a>> \o t)
  BY <1>0, <1>1
<1>3. /\ Len(line) \in Nat /\ u[Len(line) + 1] = end /\ \A i \in 1..Len(line) : u[i] = line[i]
      /\ SubSeq(u, 1, Len(line)) = line /\ SubSeq(u, Len(line) + 2, Len(u)) = rest
  BY <1>0, Behind
<1> HIDE DEF u
<1>4. /\ Len(past) \in Nat /\ u[Len(past) + 1] = a /\ \A i \in 1..Len(past) : u[i] = past[i]
      /\ SubSeq(u, 1, Len(past)) = past /\ SubSeq(u, Len(past) + 2, Len(u)) = t
  BY <1>0, <1>1, <1>2, Behind
<1>5. (\A i \in 1..Len(line) : line[i] # end) /\ (\A i \in 1..Len(past) : past[i] # end)
  BY <1>0 DEF Without
<1>6. ASSUME a # end
      PROVE  Append(past, a) \in Seq(T) /\ Without(Append(past, a), end) /\ Append(past, a) \o t = past \o ahead
  <2>1. Without(Append(past, a), end)
    BY <1>5, <1>6 DEF Without
  <2>2. Append(past, a) \in Seq(T) /\ Append(past, a) \o t = past \o ahead
    <3>0. past \in Seq(T) /\ ahead \in Seq(T) /\ ahead # << >>
      BY <1>0
    <3>1. Append(past, Head(ahead)) \in Seq(T) /\ Append(past, Head(ahead)) \o Tail(ahead) = past \o ahead
      BY ONLY <3>0, TakeOne
    <3> QED BY <3>1 DEF a, t
  <2> QED BY <2>1, <2>2
<1>7. ASSUME a = end PROVE past = line /\ t = rest
  <2>1. ~(Len(past) < Len(line))
    <3>1. Len(past) < Len(line) => line[Len(past) + 1] = end
      BY <1>3, <1>4, <1>7
    <3>2. Len(past) < Len(line) => Len(past) + 1 \in 1..Len(line)
      BY <1>3, <1>4
    <3> QED BY <1>5, <3>1, <3>2
  <2>2. ~(Len(line) < Len(past))
    <3>1. Len(line) < Len(past) => past[Len(line) + 1] = end
      BY <1>3, <1>4
    <3>2. Len(line) < Len(past) => Len(line) + 1 \in 1..Len(past)
      BY <1>3, <1>4
    <3> QED BY <1>5, <3>1, <3>2
  <2>3. Len(past) = Len(line)
    <3>1. PICK l \in Nat, b \in Nat : l = Len(line) /\ b = Len(past)
      BY <1>3, <1>4
    <3> QED BY ONLY <2>1, <2>2, <3>1, l \in Nat, b \in Nat
  <2> QED BY <1>3, <1>4, <2>3
<1> QED BY <1>0, <1>1, <1>6, <1>7 DEF a, t, Midway

-----------------------------------------------------------------------------
(***************************************************************************)
(* Streams as symbols.                                                     *)
(***************************************************************************)
\* The symbols on a stream.
Tokens(s) ==
  {"UPLOAD", "HASH", ":", LF, Fin} \cup Numbers
    \cup UNION {ToSet(f.FileName) \cup ToSet(f.ReceiptID) \cup ToSet(f.Sha256) \cup ToSet(f.Content) :
                  f \in ToSet(s.frames)}
Symbols(s) == IF s.type = "Upload" THEN Tokens(s) ELSE Byte

\* How a frame of s is written.
EncodeOf(s, f) ==
  IF s.type = "Upload" THEN Header(f) \o f.Content \o <<Fin>>
  ELSE EncodeLengthDelimited(Marshal(s.type, f))

\* Encode writes a frame of the script.
LEMMA EncodeIs == \A f : Encode(f) = EncodeOf(script, f)
BY DEF Encode, EncodeOf

\* Of the n frames that have been written, h[i] are those after the i-th.
Ahead(s, n, h) ==
  /\ h \in [0..n -> Seq(Symbols(s))] /\ h[n] = << >>
  /\ \A i \in 1..n : h[i - 1] = EncodeOf(s, s.frames[i]) \o h[i]

\* It does not matter which of three parts are joined first.
LEMMA SymbolsAssociative ==
  ASSUME NEW T, NEW s \in Seq(T), NEW t \in Seq(T), NEW u \in Seq(T)
  PROVE  (s \o t) \o u = s \o (t \o u) /\ s \o t \in Seq(T)
OBVIOUS

\* There is a frame on every stream, and each can be written.
LEMMA ScriptFrames ==
  ASSUME NEW s, Writable(s)
  PROVE  /\ s.type \in Types /\ Len(s.frames) \in Nat /\ Len(s.frames) > 0 /\ DOMAIN s.frames = 1..Len(s.frames)
         /\ \A i \in 1..Len(s.frames) :
              /\ s.frames[i] \in ToSet(s.frames)
              /\ s.type = "Upload" => UploadWritable(s.frames[i])
              /\ s.type # "Upload" => ControlWritable(s.type, s.frames[i])
<1> DEFINE fr == s.frames
           S == ToSet(fr)
<1>1. fr \in Seq(S) /\ fr # << >>
  BY DEF Writable
<1> HIDE DEF S
<1>2. Len(fr) \in Nat /\ Len(fr) > 0 /\ DOMAIN fr = 1..Len(fr) /\ \A i \in 1..Len(fr) : fr[i] \in S
  BY <1>1
<1> HIDE DEF fr
<1>3. \A f \in S : IF s.type = "Upload" THEN UploadWritable(f) ELSE ControlWritable(s.type, f)
  BY DEF Writable, S, fr
<1>4. s.type \in Types
  BY DEF Writable
<1> QED BY <1>2, <1>3, <1>4 DEF S, fr

\* A frame of a control stream: its length, and its bytes.
LEMMA ControlBytes ==
  ASSUME NEW type \in Types, type # "Upload", NEW m, ControlWritable(type, m)
  PROVE  /\ type \in Typenames
         /\ Marshal(type, m) \in Seq(Byte)
         /\ Len(Marshal(type, m)) \in Nat /\ Len(Marshal(type, m)) <= MaxFrame
         /\ Len(Marshal(type, m)) < Limit
         /\ Unmarshal(type, Marshal(type, m)) = [ok |-> TRUE, msg |-> Normal(type, m)]
<1>1. type \in Typenames
  BY DEF Types, Typenames
<1>2. IsMessage(type, m) /\ Len(Marshal(type, m)) <= MaxFrame
  BY DEF ControlWritable
<1>3. Marshal(type, m) \in Seq(Byte)
  BY <1>1, <1>2, RoundTrip
<1>4. Len(Marshal(type, m)) \in Nat
  BY <1>3
<1>5. Len(Marshal(type, m)) < Limit
  BY <1>2, <1>4, WireAssumption, CodecAssumption DEF WireAssumption, CodecAssumption
<1> QED BY <1>1, <1>2, <1>3, <1>4, <1>5, RoundTrip

\* The tokens of an upload are among those of its stream.
LEMMA UploadTokens ==
  ASSUME NEW s, Writable(s), s.type = "Upload", NEW i \in 1..Len(s.frames)
  PROVE  LET f == s.frames[i] IN
         /\ f.FileName \in Seq(Tokens(s)) /\ f.ReceiptID \in Seq(Tokens(s))
         /\ f.Sha256 \in Seq(Tokens(s)) /\ f.Content \in Seq(Tokens(s))
         /\ f.SizeBytes \in Numbers /\ f.SizeBytes \in Tokens(s)
         /\ {"UPLOAD", "HASH", ":", LF, Fin} \subseteq Tokens(s)
<1> DEFINE f == s.frames[i]
           T == Tokens(s)
<1>1. f \in ToSet(s.frames) /\ UploadWritable(f)
  BY ScriptFrames
<1>2. /\ f.FileName \in Seq(ToSet(f.FileName)) /\ f.ReceiptID \in Seq(ToSet(f.ReceiptID))
      /\ f.Sha256 \in Seq(ToSet(f.Sha256)) /\ f.Content \in Seq(ToSet(f.Content))
      /\ f.SizeBytes \in Numbers
  BY <1>1 DEF UploadWritable
<1>3. ToSet(f.FileName) \subseteq T /\ ToSet(f.ReceiptID) \subseteq T /\ ToSet(f.Sha256) \subseteq T
      /\ ToSet(f.Content) \subseteq T
  BY <1>1 DEF Tokens
<1>4. Numbers \subseteq T /\ {"UPLOAD", "HASH", ":", LF, Fin} \subseteq T
  BY DEF Tokens
<1>5. ASSUME NEW A, NEW B, A \subseteq B, NEW x \in Seq(A) PROVE x \in Seq(B)
  BY <1>5
<1> HIDE DEF f, T
<1> QED BY <1>2, <1>3, <1>4, <1>5 DEF f, T

\* What the lines of a header are made of.
LineParts(T, f) ==
  /\ {":", "UPLOAD", "HASH", LF} \subseteq T
  /\ f.FileName \in Seq(T) /\ f.ReceiptID \in Seq(T) /\ f.Sha256 \in Seq(T) /\ f.SizeBytes \in T

\* A header, c and r, line by line; and as they are written.
Lined(f, c, r) == FirstLine(f) \o (<<LF>> \o (HashLine(f) \o (<<LF>> \o (c \o r))))
Headed(f, c, r) == (Header(f) \o c) \o r

\* The two are the same.
LEMMA HeaderLines ==
  ASSUME NEW T, NEW f, LineParts(T, f), NEW c \in Seq(T), NEW r \in Seq(T)
  PROVE  /\ FirstLine(f) \in Seq(T) /\ HashLine(f) \in Seq(T) /\ Header(f) \in Seq(T) /\ Header(f) # << >>
         /\ Headed(f, c, r) = Lined(f, c, r)
<1>0. /\ {":", "UPLOAD", "HASH", LF} \subseteq T
      /\ f.FileName \in Seq(T) /\ f.ReceiptID \in Seq(T) /\ f.Sha256 \in Seq(T) /\ f.SizeBytes \in T
  BY DEF LineParts
<1> DEFINE a == FirstLine(f)
           d == f.Sha256
           b == HashLine(f)
<1>1. a \in Seq(T) /\ a # << >>
  <2>1. <<"UPLOAD", ":">> \in Seq(T) /\ <<":", f.SizeBytes, ":", ":">> \in Seq(T)
    BY <1>0
  <2>2. <<"UPLOAD", ":">> \o f.FileName \in Seq(T) /\ <<"UPLOAD", ":">> \o f.FileName # << >>
    BY <1>0
  <2> QED BY <1>0, <2>1, <2>2 DEF FirstLine
<1>2. d \in Seq(T) /\ LF \in T /\ ":" \in T /\ "HASH" \in T /\ b = <<"HASH", ":">> \o d
  BY <1>0 DEF HashLine
<1>3. b \in Seq(T)
  BY <1>2
<1>4. Header(f) = (((a \o <<LF>>) \o <<"HASH", ":">>) \o d) \o <<LF>>
  BY DEF Header, FirstLine
<1> HIDE DEF a, d
<1>5. Header(f) = ((a \o <<LF>>) \o b) \o <<LF>>
  BY <1>1, <1>2, <1>4
<1> HIDE DEF b
<1>6. Header(f) \in Seq(T) /\ Header(f) # << >>
  BY <1>1, <1>2, <1>3, <1>5
<1>7. ((((((a \o <<LF>>) \o b) \o <<LF>>) \o c) \o r)) = a \o (<<LF>> \o (b \o (<<LF>> \o (c \o r))))
  <2> DEFINE x == (a \o <<LF>>) \o b
             y == <<LF>> \o (c \o r)
  <2>1. <<LF>> \in Seq(T) /\ a \o <<LF>> \in Seq(T) /\ x \in Seq(T) /\ c \o r \in Seq(T) /\ y \in Seq(T)
        /\ b \o y \in Seq(T)
    BY <1>1, <1>2, <1>3
  <2>2. x \o y = a \o (<<LF>> \o (b \o y))
    <3>1. ((a \o <<LF>>) \o b) \o y = (a \o <<LF>>) \o (b \o y)
      <4> HIDE DEF y
      <4> QED BY <1>3, <2>1
    <3>2. (a \o <<LF>>) \o (b \o y) = a \o (<<LF>> \o (b \o y))
      <4> DEFINE z == b \o y
      <4>1. z \in Seq(T) /\ <<LF>> \in Seq(T)
        BY <2>1
      <4> HIDE DEF y, z
      <4>2. (a \o <<LF>>) \o z = a \o (<<LF>> \o z)
        BY <1>1, <4>1
      <4> QED BY <4>2 DEF z
    <3> QED BY <3>1, <3>2
  <2> HIDE DEF x
  <2>3. ((x \o <<LF>>) \o c) \o r = (x \o <<LF>>) \o (c \o r)
    <3>1. x \o <<LF>> \in Seq(T)
      BY <2>1
    <3> QED BY <3>1
  <2>4. (x \o <<LF>>) \o (c \o r) = x \o y
    BY <2>1, SMTT(30)
  <2> QED BY <2>2, <2>3, <2>4 DEF x
<1>8. Headed(f, c, r) = Lined(f, c, r)
  BY <1>5, <1>7 DEF Headed, Lined, a, b
<1> QED BY <1>1, <1>3, <1>6, <1>8 DEF a, b

\* A frame is written as symbols, at least one.
LEMMA EncodeType ==
  ASSUME NEW s, Writable(s), NEW i \in 1..Len(s.frames)
  PROVE  EncodeOf(s, s.frames[i]) \in Seq(Symbols(s)) /\ EncodeOf(s, s.frames[i]) # << >>
<1> DEFINE f == s.frames[i]
<1>1. CASE s.type # "Upload"
  <2> DEFINE m == Marshal(s.type, f)
             l == AppendVarint[Len(m)]
  <2>1. m \in Seq(Byte) /\ Len(m) \in Nat
    BY <1>1, ScriptFrames, ControlBytes
  <2>2. l \in Seq(Byte) /\ l # << >>
    BY <2>1, AppendVarintType, AppendVarintShort, AppendVarintLong
  <2>3. EncodeOf(s, f) = l \o m
    BY <1>1 DEF EncodeOf, EncodeLengthDelimited
  <2> HIDE DEF l, m
  <2>4. l \o m \in Seq(Byte) /\ l \o m # << >>
    BY <2>1, <2>2, BytesConcat
  <2> QED BY <1>1, <2>3, <2>4 DEF Symbols
<1>2. CASE s.type = "Upload"
  <2>1. EncodeOf(s, f) = (Header(f) \o f.Content) \o <<Fin>>
    BY <1>2 DEF EncodeOf
  <2> DEFINE T == Tokens(s)
             hd == Header(f)
             c == f.Content
  <2>2. c \in Seq(T) /\ Fin \in T
    BY <1>2, UploadTokens
  <2>3. hd \in Seq(T) /\ hd # << >>
    <3>1. LineParts(T, f)
      BY <1>2, UploadTokens DEF LineParts
    <3> QED BY <2>2, <3>1, HeaderLines
  <2> HIDE DEF T, hd, c
  <2>4. (hd \o c) \o <<Fin>> \in Seq(T) /\ (hd \o c) \o <<Fin>> # << >>
    BY <2>2, <2>3
  <2> QED BY <1>2, <2>1, <2>4 DEF Symbols, T, hd, c
<1> QED BY <1>1, <1>2

\* Before the first frame nothing is ahead.
LEMMA AheadStart == ASSUME NEW s PROVE Ahead(s, 0, [i \in 0..0 |-> << >>])
BY DEF Ahead

\* One more frame comes behind all that are on their way.
LEMMA AheadMore ==
  ASSUME NEW s, Writable(s), NEW n \in Nat, n < Len(s.frames), NEW h, Ahead(s, n, h)
  PROVE  \E g : /\ Ahead(s, n + 1, g)
                /\ \A i \in 0..n : g[i] = h[i] \o EncodeOf(s, s.frames[n + 1])
<1> DEFINE e == EncodeOf(s, s.frames[n + 1])
           g == [i \in 0..(n + 1) |-> IF i = n + 1 THEN << >> ELSE h[i] \o e]
           T == Symbols(s)
<1>1. e \in Seq(T)
  BY EncodeType, ScriptFrames
<1>2. h \in [0..n -> Seq(T)] /\ h[n] = << >> /\ \A i \in 1..n : h[i - 1] = EncodeOf(s, s.frames[i]) \o h[i]
  BY DEF Ahead
<1>3. \A i \in 1..n : EncodeOf(s, s.frames[i]) \in Seq(T)
  BY EncodeType, ScriptFrames
<1> HIDE DEF T
<1>4. ASSUME NEW i \in 0..n PROVE g[i] = h[i] \o e /\ h[i] \in Seq(T)
  <2>1. i \in 0..(n + 1) /\ i # n + 1
    OBVIOUS
  <2> HIDE DEF e
  <2> QED BY <1>2, <2>1
<1>5. g \in [0..(n + 1) -> Seq(T)] /\ g[n + 1] = << >>
  BY <1>1, <1>2
<1>6. ASSUME NEW i \in 1..(n + 1) PROVE g[i - 1] = EncodeOf(s, s.frames[i]) \o g[i]
  <2>1. CASE i = n + 1
    <3>0. i - 1 = n /\ n \in 0..n
      BY <2>1
    <3>1. g[n] = h[n] \o e /\ g[n + 1] = << >>
      <4> HIDE DEF g
      <4> QED BY <1>4, <1>5, <3>0
    <3>2. << >> \o e = e /\ e \o << >> = e
      BY <1>1
    <3>3. g[n] = e \o g[n + 1]
      <4> HIDE DEF g, e
      <4> QED BY <1>2, <3>1, <3>2
    <3> HIDE DEF g
    <3> QED BY <2>1, <3>0, <3>3
  <2>2. CASE i # n + 1
    <3>1. i \in 1..n /\ i \in 0..n /\ i - 1 \in 0..n
      BY <2>2
    <3> DEFINE d == EncodeOf(s, s.frames[i])
    <3>2. h[i - 1] = d \o h[i] /\ d \in Seq(T) /\ h[i] \in Seq(T)
      BY <1>2, <1>3, <3>1
    <3>3. g[i - 1] = h[i - 1] \o e /\ g[i] = h[i] \o e
      <4> HIDE DEF g
      <4> QED BY <1>4, <3>1
    <3>4. (d \o h[i]) \o e = d \o (h[i] \o e)
      <4> DEFINE x == h[i]
      <4>1. x \in Seq(T) /\ d \in Seq(T) /\ e \in Seq(T)
        BY <1>1, <3>2
      <4> HIDE DEF d, e, x
      <4>2. (d \o x) \o e = d \o (x \o e)
        BY <4>1
      <4> QED BY <4>2 DEF x
    <3> HIDE DEF e, g
    <3> QED BY <3>2, <3>3, <3>4
  <2> QED BY <2>1, <2>2
<1> HIDE DEF g
<1>7. Ahead(s, n + 1, g)
  BY <1>5, <1>6 DEF Ahead, T
<1> QED BY <1>4, <1>7

-----------------------------------------------------------------------------
(***************************************************************************)
(* Control streams.                                                        *)
(***************************************************************************)
\* What the reader makes of the frames.
Delivered(s) ==
  [i \in 1..Len(s.frames) |->
     IF s.type = "Upload" THEN s.frames[i] ELSE Normal(s.type, s.frames[i])]

\* The first k of them.
FirstOf(s, k) == [i \in 1..k |-> Delivered(s)[i]]

\* With the next one they are the first k + 1.
LEMMA AppendNext ==
  ASSUME NEW s, NEW k \in Nat
  PROVE  /\ Len(FirstOf(s, k)) = k /\ DOMAIN FirstOf(s, k) = 1..k
         /\ Append(FirstOf(s, k), Delivered(s)[k + 1]) = FirstOf(s, k + 1)
<1> DEFINE f == Delivered(s)
           a == [i \in 1..k |-> f[i]]
           b == [i \in 1..(k + 1) |-> f[i]]
<1> HIDE DEF f
<1>1. Len(a) = k /\ DOMAIN a = 1..k
  OBVIOUS
<1>2. Append(a, f[k + 1]) = b
  OBVIOUS
<1> QED BY <1>1, <1>2 DEF FirstOf, f

\* The bytes of a frame, without their length.
BytesOf(s, i) == Marshal(s.type, s.frames[i])

\* What is ahead of the reader of a control stream begins with the length and
\* the bytes of the next frame.
LEMMA NextBytes ==
  ASSUME NEW s, Writable(s), s.type # "Upload", NEW n \in 0..Len(s.frames), NEW h, Ahead(s, n, h),
         NEW k \in 0..n, k < n
  PROVE  /\ h[k + 1] \in Seq(Byte) /\ BytesOf(s, k + 1) \in Seq(Byte) /\ Len(BytesOf(s, k + 1)) \in Nat
         /\ Len(BytesOf(s, k + 1)) <= MaxFrame /\ Len(BytesOf(s, k + 1)) < Limit
         /\ h[k] = AppendVarint[Len(BytesOf(s, k + 1))] \o (BytesOf(s, k + 1) \o h[k + 1])
<1> DEFINE i == k + 1
           m == BytesOf(s, i)
           l == AppendVarint[Len(m)]
<1>1. i \in 1..n /\ i \in 0..n /\ i \in 1..Len(s.frames) /\ i - 1 = k
  BY ScriptFrames
<1> HIDE DEF i
<1>2. m \in Seq(Byte) /\ Len(m) \in Nat /\ Len(m) <= MaxFrame /\ Len(m) < Limit
  BY <1>1, ScriptFrames, ControlBytes DEF BytesOf
<1>3. l \in Seq(Byte)
  BY <1>2, AppendVarintType
<1>4. h[i] \in Seq(Byte)
  BY <1>1 DEF Ahead, Symbols
<1>5. h[i - 1] = EncodeOf(s, s.frames[i]) \o h[i]
  BY <1>1 DEF Ahead
<1>6. EncodeOf(s, s.frames[i]) = l \o m
  BY DEF EncodeOf, EncodeLengthDelimited, BytesOf
<1> DEFINE r == h[i]
<1>7. (l \o m) \o r = l \o (m \o r)
  <2> HIDE DEF l, m, r
  <2>1. r \in Seq(Byte)
    BY <1>4 DEF r
  <2> QED BY <1>2, <1>3, <2>1, BytesAssociative
<1>8. h[k] = l \o (m \o h[i])
  BY <1>1, <1>5, <1>6, <1>7
<1> QED BY <1>2, <1>4, <1>8 DEF i

\* The length of the frame, as it is being read: v is still to come.
AtLength(k, h) ==
  /\ body = << >>
  /\ \/ k = sent /\ weight = 1 /\ length = 0 /\ wire = << >>
     \/ /\ k < sent
        /\ \E v \in Nat : /\ length + weight * v = Len(BytesOf(script, k + 1))
                          /\ wire = AppendVarint[v] \o (BytesOf(script, k + 1) \o h[k + 1])

\* Its bytes, as they are being read.
AtBody(k, h) ==
  /\ k < sent /\ weight = 1
  /\ length = Len(BytesOf(script, k + 1)) /\ Len(body) <= length
  /\ body \o wire = BytesOf(script, k + 1) \o h[k + 1]

\* A control stream whose reader has got k frames.
ControlAt(k, h) ==
  /\ k \in 0..sent /\ Ahead(script, sent, h)
  /\ got = FirstOf(script, k)
  /\ wire \in Seq(Byte) /\ body \in Seq(Byte) /\ head = Nil
  /\ reader \in {"length", "body", "done", "error"}
  /\ reader = "length" => AtLength(k, h)
  /\ reader = "body" => AtBody(k, h)
  /\ reader = "done" => wire = h[k] /\ script.type = "ControlFrame"
  /\ reader = "error" => broken

\* What holds of every stream.
Common ==
  /\ script \in Scripts
  /\ sent \in 0..Len(script.frames)
  /\ broken \in BOOLEAN
  /\ reader \in {"length", "body", "header", "peek", "check", "data", "done", "refused", "error"}
  /\ weight \in 1..(Limit - 1) /\ length \in 0..(Limit - 1)

\* The invariant of a control stream.
ControlInv == script.type # "Upload" => \E k, h : ControlAt(k, h)

\* The frames of the script can be written.
LEMMA ScriptWritable == ASSUME Common PROVE Writable(script)
BY WireAssumption DEF Common, WireAssumption

\* It holds when nothing has been written.
LEMMA ControlInit == Init => Common /\ ControlInv
<1> SUFFICES ASSUME Init PROVE Common /\ ControlInv
  OBVIOUS
<1>0. Writable(script)
  BY WireAssumption DEF Init, WireAssumption
<1>1. Common
  <2>1. sent = 0 /\ weight = 1 /\ length = 0 /\ broken \in BOOLEAN /\ script \in Scripts
    BY DEF Init
  <2>2. sent \in 0..Len(script.frames)
    BY <1>0, <2>1, ScriptFrames
  <2>3. weight \in 1..(Limit - 1) /\ length \in 0..(Limit - 1)
    BY <2>1, CodecAssumption DEF CodecAssumption
  <2>4. reader \in {"header", "length"}
    BY DEF Init
  <2> QED BY <2>1, <2>2, <2>3, <2>4 DEF Common
<1>2. ASSUME script.type # "Upload" PROVE ControlAt(0, [i \in 0..0 |-> << >>])
  <2>1. Ahead(script, 0, [i \in 0..0 |-> << >>])
    BY AheadStart
  <2>2. got = FirstOf(script, 0)
    BY DEF Init, FirstOf
  <2>3. << >> \in Seq(Byte)
    OBVIOUS
  <2> QED BY <1>2, <2>1, <2>2, <2>3 DEF Init, ControlAt, AtLength
<1> QED BY <1>1, <1>2 DEF ControlInv

\* A frame written comes after all that is on its way.
LEMMA ControlWrite ==
  ASSUME Common, script.type # "Upload", NEW k, NEW h, ControlAt(k, h), WriteFrame
  PROVE  ControlInv'
<1> DEFINE e == EncodeOf(script, script.frames[sent + 1])
<1>0. Writable(script) /\ sent \in Nat /\ sent < Len(script.frames) /\ sent' = sent + 1 /\ wire' = wire \o e
  <2>1. sent < Len(script.frames) /\ sent' = sent + 1 /\ wire' = wire \o Encode(script.frames[sent + 1])
    BY DEF WriteFrame
  <2>2. sent \in Nat
    BY DEF Common
  <2> QED BY <2>1, <2>2, ScriptWritable, EncodeIs
<1>1. PICK g : Ahead(script, sent + 1, g) /\ \A i \in 0..sent : g[i] = h[i] \o e
  BY <1>0, AheadMore DEF ControlAt
<1>2. e \in Seq(Byte)
  BY <1>0, EncodeType, ScriptFrames DEF Symbols
<1>3. k \in 0..sent /\ wire \in Seq(Byte) /\ body \in Seq(Byte) /\ wire' \in Seq(Byte)
  <2>1. k \in 0..sent /\ wire \in Seq(Byte) /\ body \in Seq(Byte)
    BY DEF ControlAt
  <2> HIDE DEF e
  <2> QED BY <1>0, <1>2, <2>1, BytesConcat
<1>4. h[sent] = << >> /\ \A i \in 0..sent : h[i] \in Seq(Byte)
  BY DEF ControlAt, Ahead, Symbols
<1>5. UNCHANGED <<script, broken, reader, weight, length, body, head, got>>
  BY DEF WriteFrame, frame
<1> HIDE DEF e
<1>6. ASSUME reader = "length" PROVE AtLength(k, g)'
  <2>1. CASE k = sent
    <3>1. wire = << >> /\ weight = 1 /\ length = 0 /\ body = << >>
      <4>1. AtLength(k, h)
        BY <1>6 DEF ControlAt
      <4>2. ~(k < sent)
        BY <1>0, <2>1
      <4> QED BY <4>1, <4>2 DEF AtLength
    <3> DEFINE m == BytesOf(script, k + 1)
    <3>2. g[k] = AppendVarint[Len(m)] \o (m \o g[k + 1]) /\ Len(m) \in Nat
      <4>1. sent + 1 \in 0..Len(script.frames) /\ k \in 0..(sent + 1) /\ k < sent + 1
        BY <1>0, <1>3, ScriptFrames
      <4> QED BY <1>0, <1>1, <4>1, NextBytes
    <3>3. wire' = g[k]
      BY <1>0, <1>1, <1>2, <1>3, <1>4, <2>1, <3>1
    <3>4. 0 + 1 * Len(m) = Len(m)
      BY <3>2
    <3> HIDE DEF m
    <3>5. length' + weight' * Len(m) = Len(m)
      BY <1>5, <3>1, <3>4
    <3>6. k < sent' /\ body' = << >>
      BY <1>0, <1>3, <1>5, <3>1
    <3>7. script' = script
      BY <1>5
    <3> QED BY <3>2, <3>3, <3>5, <3>6, <3>7 DEF AtLength, m
  <2>2. CASE k # sent
    <3>1. k < sent /\ body = << >>
      BY <1>0, <1>3, <1>6, <2>2 DEF ControlAt, AtLength
    <3> DEFINE m == BytesOf(script, k + 1)
    <3>2. PICK v \in Nat : length + weight * v = Len(m) /\ wire = AppendVarint[v] \o (m \o h[k + 1])
      BY <1>6, <2>2 DEF ControlAt, AtLength
    <3>3. m \in Seq(Byte) /\ h[k + 1] \in Seq(Byte)
      BY <1>0, <1>3, <3>1, NextBytes DEF ControlAt, Common
    <3>4. AppendVarint[v] \in Seq(Byte)
      BY AppendVarintType
    <3>5. g[k + 1] = h[k + 1] \o e
      BY <1>0, <1>1, <1>3, <3>1
    <3>6. wire' = AppendVarint[v] \o (m \o g[k + 1])
      <4> DEFINE a == AppendVarint[v]
                 r == h[k + 1]
      <4>1. a \in Seq(Byte) /\ r \in Seq(Byte) /\ m \o r \in Seq(Byte)
        BY <3>3, <3>4, BytesConcat
      <4> HIDE DEF a, r, m
      <4>2. (a \o (m \o r)) \o e = a \o ((m \o r) \o e)
        BY <1>2, <4>1, BytesAssociative
      <4>3. (m \o r) \o e = m \o (r \o e)
        BY <1>2, <3>3, <4>1, BytesAssociative, ZenonT(40)
      <4> QED BY <1>0, <3>2, <3>5, <4>2, <4>3 DEF a, r
    <3> HIDE DEF m
    <3>7. (length + weight * v = Len(m))' /\ k < sent'
      BY <1>0, <1>3, <1>5, <3>1, <3>2 DEF m
    <3> QED BY <1>5, <3>1, <3>6, <3>7 DEF AtLength, m
  <2> QED BY <2>1, <2>2
<1>7. ASSUME reader = "body" PROVE AtBody(k, g)'
  <2> DEFINE m == BytesOf(script, k + 1)
  <2>1. k < sent /\ weight = 1 /\ length = Len(m) /\ Len(body) <= length /\ body \o wire = m \o h[k + 1]
    BY <1>7 DEF ControlAt, AtBody
  <2>2. m \in Seq(Byte) /\ h[k + 1] \in Seq(Byte)
    BY <1>0, <1>3, <2>1, NextBytes DEF ControlAt, Common
  <2>3. g[k + 1] = h[k + 1] \o e
    BY <1>0, <1>1, <1>3, <2>1
  <2>4. body \o wire' = m \o g[k + 1]
    <3> DEFINE r == h[k + 1]
    <3>1. r \in Seq(Byte)
      BY <2>2
    <3> HIDE DEF r, m
    <3>2. body \o (wire \o e) = (body \o wire) \o e
      BY <1>2, <1>3, BytesAssociative
    <3>3. (m \o r) \o e = m \o (r \o e)
      BY <1>2, <2>2, <3>1, BytesAssociative
    <3> QED BY <1>0, <2>1, <2>3, <3>2, <3>3 DEF r
  <2> HIDE DEF m
  <2>5. k < sent'
    BY <1>0, <1>3, <2>1
  <2> QED BY <1>5, <2>1, <2>4, <2>5 DEF AtBody, m
<1>8. ASSUME reader = "done" PROVE wire' = g[k]
  BY <1>0, <1>1, <1>3, <1>8 DEF ControlAt
<1>9. ControlAt(k, g)'
  <2>1. k \in 0..sent' /\ Ahead(script', sent', g)
    BY <1>0, <1>1, <1>3, <1>5
  <2>2. got' = FirstOf(script', k) /\ head' = Nil /\ reader' \in {"length", "body", "done", "error"}
    BY <1>5 DEF ControlAt
  <2>3. (reader' = "done" => script'.type = "ControlFrame") /\ (reader' = "error" => broken')
    BY <1>5 DEF ControlAt
  <2> QED BY <1>3, <1>5, <1>6, <1>7, <1>8, <2>1, <2>2, <2>3 DEF ControlAt
<1> QED BY <1>9 DEF ControlInv

\* One more byte of a number: what it adds and what is still to come, without an
\* overflow.
LEMMA LengthStep ==
  ASSUME NEW value \in Nat, NEW w \in Nat, w >= 1, NEW v \in Nat, NEW l \in Nat,
         value + w * v = l, l < Limit
  PROVE  /\ v < 128 => AddByte(value, w, v) = l
         /\ v >= 128 =>
              LET b == (v % 128) + 128
                  rest == v \div 128
              IN  /\ AddByte(value, w, b) \in Nat
                  /\ AddByte(value, w, b) + (128 * w) * rest = l
                  /\ 128 * w < Limit /\ AddByte(value, w, b) < Limit
<1> DEFINE m == v % 128
           q == v \div 128
<1>0. Limit \in Nat
  BY CodecAssumption DEF CodecAssumption
<1>1. m \in 0..127 /\ q \in Nat /\ v = 128 * q + m
  OBVIOUS
<1>2. (m + 128) % 128 = m
  BY <1>1
<1>3. ASSUME v < 128 PROVE AddByte(value, w, v) = l
  <2>1. v % 128 = v
    BY <1>3
  <2>2. v * w = w * v
    OBVIOUS
  <2>3. l % Limit = l
    BY <1>0
  <2> QED BY <2>1, <2>2, <2>3 DEF AddByte
<1>4. ASSUME v >= 128
      PROVE  /\ AddByte(value, w, m + 128) \in Nat
             /\ AddByte(value, w, m + 128) + (128 * w) * q = l
             /\ 128 * w < Limit /\ AddByte(value, w, m + 128) < Limit
  <2>0. q >= 1
    BY <1>1, <1>4
  <2> HIDE DEF m, q
  <2> DEFINE a == m * w
             c == (128 * w) * q
  <2>1. w * v = c + a
    <3>1. w * v = w * (128 * q + m)
      BY <1>1
    <3>2. w * (128 * q + m) = w * (128 * q) + w * m
      BY <1>1
    <3>3. w * (128 * q) = (128 * w) * q /\ w * m = m * w
      BY <1>1
    <3> QED BY <3>1, <3>2, <3>3
  <2>2. a \in Nat /\ c \in Nat
    BY <1>1
  <2>3. 128 * w <= c
    <3>1. PICK x \in Nat : x = 128 * w
      OBVIOUS
    <3>2. x <= x * q
      BY <1>1, <2>0, <3>1
    <3> QED BY <3>1, <3>2
  <2> HIDE DEF a, c
  <2>4. value + a + c = l
    BY <2>1, <2>2
  <2>5. value + a \in Nat /\ value + a < Limit /\ 128 * w < Limit
    BY <1>0, <2>2, <2>3, <2>4
  <2>6. (value + a) % Limit = value + a
    BY <1>0, <2>5
  <2>7. AddByte(value, w, m + 128) = value + a
    BY <1>2, <2>6 DEF AddByte, a
  <2> QED BY <2>2, <2>4, <2>5, <2>7 DEF c
<1> QED BY <1>3, <1>4

\* The two parts of what is joined.
LEMMA Halves ==
  ASSUME NEW T, NEW s \in Seq(T), NEW t \in Seq(T)
  PROVE  SubSeq(s \o t, 1, Len(s)) = s /\ SubSeq(s \o t, Len(s) + 1, Len(s \o t)) = t
OBVIOUS

\* What has been read is the frame when it is as long.
LEMMA Whole ==
  ASSUME NEW T, NEW past \in Seq(T), NEW ahead \in Seq(T), NEW m \in Seq(T), NEW r \in Seq(T),
         past \o ahead = m \o r, Len(past) = Len(m)
  PROVE  past = m /\ ahead = r
<1> DEFINE u == m \o r
<1>1. SubSeq(u, 1, Len(m)) = m /\ SubSeq(u, Len(m) + 1, Len(u)) = r
  BY Halves
<1>2. SubSeq(past \o ahead, 1, Len(past)) = past /\ SubSeq(past \o ahead, Len(past) + 1, Len(past \o ahead)) = ahead
  BY Halves
<1>3. past \o ahead = u
  OBVIOUS
<1> HIDE DEF u
<1> QED BY <1>1, <1>2, <1>3

\* Where the reader of a control stream is before a frame.
LEMMA BeforeFrame ==
  ASSUME Common, script.type # "Upload", NEW k \in 0..sent, NEW h, Ahead(script, sent, h)
  PROVE  \/ k = sent /\ h[k] = << >>
         \/ /\ k < sent
            /\ \E v \in Nat : /\ 0 + 1 * v = Len(BytesOf(script, k + 1))
                              /\ h[k] = AppendVarint[v] \o (BytesOf(script, k + 1) \o h[k + 1])
<1>0. sent \in Nat /\ Writable(script) /\ sent \in 0..Len(script.frames)
  BY ScriptWritable DEF Common
<1>1. CASE k = sent
  BY <1>1 DEF Ahead
<1>2. CASE k < sent
  <2> DEFINE m == BytesOf(script, k + 1)
  <2>1. Len(m) \in Nat /\ h[k] = AppendVarint[Len(m)] \o (m \o h[k + 1])
    BY <1>0, <1>2, NextBytes
  <2> HIDE DEF m
  <2>2. 0 + 1 * Len(m) = Len(m)
    BY <2>1
  <2> QED BY <1>2, <2>1, <2>2 DEF m
<1>3. k = sent \/ k < sent
  BY <1>0
<1> QED BY <1>1, <1>2, <1>3

\* A byte of the length.
LEMMA ControlLength ==
  ASSUME Common, script.type # "Upload", NEW k, NEW h, ControlAt(k, h), ReadLength
  PROVE  ControlAt(k, h)' /\ weight' \in 1..(Limit - 1) /\ length' \in 0..(Limit - 1)
<1>0. /\ k \in 0..sent /\ sent \in Nat /\ wire \in Seq(Byte) /\ reader = "length" /\ wire # << >>
      /\ wire' = Tail(wire) /\ AtLength(k, h) /\ body = << >>
  <2>1. k \in 0..sent /\ wire \in Seq(Byte) /\ (reader = "length" => AtLength(k, h))
    BY DEF ControlAt
  <2>2. reader = "length" /\ wire # << >> /\ wire' = Tail(wire)
    BY DEF ReadLength, Take
  <2>3. sent \in Nat
    BY DEF Common
  <2>4. AtLength(k, h) => body = << >>
    BY DEF AtLength
  <2> QED BY <2>1, <2>2, <2>3, <2>4
<1>1. UNCHANGED <<script, sent, broken, body, head, got>>
  BY DEF ReadLength
<1> DEFINE m == BytesOf(script, k + 1)
           r == m \o h[k + 1]
           b == Head(wire)
           x == AddByte(length, weight, b)
<1>2. k < sent
  BY <1>0 DEF AtLength
<1>3. PICK v \in Nat : length + weight * v = Len(m) /\ wire = AppendVarint[v] \o r
  BY <1>0 DEF AtLength
<1>4. m \in Seq(Byte) /\ h[k + 1] \in Seq(Byte) /\ Len(m) \in Nat /\ Len(m) <= MaxFrame /\ Len(m) < Limit
  BY <1>0, <1>2, ScriptWritable, NextBytes DEF ControlAt, Common
<1>5. r \in Seq(Byte)
  BY <1>4, BytesConcat
<1>6. /\ Limit \in Nat /\ Limit > 1 /\ MaxFrame \in Nat
      /\ length \in Nat /\ weight \in Nat /\ weight >= 1
  BY CodecAssumption, WireAssumption DEF CodecAssumption, WireAssumption, Common
<1> DEFINE a == AppendVarint[v]
<1>7. a \in Seq(Byte)
  BY AppendVarintType
<1>8. IF b < 128
      THEN length' = x /\ weight' = 1 /\ reader' = IF x > MaxFrame THEN "error" ELSE "body"
      ELSE length' = x /\ weight' = 128 * weight /\ reader' = IF 128 * weight >= Limit THEN "error" ELSE "length"
  BY DEF ReadLength
<1>9. wire' \in Seq(Byte)
  BY <1>0
<1>10. /\ v < 128 => AddByte(length, weight, v) = Len(m)
       /\ v >= 128 =>
            /\ AddByte(length, weight, (v % 128) + 128) \in Nat
            /\ AddByte(length, weight, (v % 128) + 128) + (128 * weight) * (v \div 128) = Len(m)
            /\ 128 * weight < Limit /\ AddByte(length, weight, (v % 128) + 128) < Limit
  <2> HIDE DEF m
  <2> QED BY <1>3, <1>4, <1>6, LengthStep, ZenonT(40)
<1>11. k \in 0..sent' /\ Ahead(script', sent', h) /\ got' = FirstOf(script', k) /\ body' = << >>
       /\ body' \in Seq(Byte) /\ head' = Nil
  BY <1>0, <1>1 DEF ControlAt
<1>12. CASE v < 128
  <2>1. b = v /\ wire' = r
    <3>1. a # << >> /\ Head(a) = v /\ Tail(a) = << >>
      BY <1>12, AppendVarintShort
    <3> HIDE DEF a, r
    <3>2. Head(a \o r) = Head(a) /\ Tail(a \o r) = Tail(a) \o r /\ << >> \o r = r
      BY <1>5, <1>7, <3>1, BytesConcat
    <3> QED BY <1>0, <1>3, <3>1, <3>2 DEF a
  <2>2. x = Len(m)
    BY <1>10, <1>12, <2>1
  <2>3. length' = Len(m) /\ weight' = 1 /\ reader' = "body"
    <3>1. ~(x > MaxFrame)
      BY <1>4, <1>6, <2>2
    <3> HIDE DEF x, m
    <3> QED BY <1>8, <1>12, <2>1, <2>2, <3>1
  <2>4. AtBody(k, h)'
    <3>1. Len(body') = 0 /\ Len(body') <= length'
      BY <1>4, <1>11, <2>3
    <3>2. body' \o wire' = m \o h[k + 1]
      <4>1. << >> \o r = r
        BY <1>5, EmptyConcat
      <4> QED BY <1>11, <2>1, <4>1
    <3> QED BY <1>1, <1>2, <2>3, <3>1, <3>2 DEF AtBody
  <2>5. weight' \in 1..(Limit - 1) /\ length' \in 0..(Limit - 1)
    <3> HIDE DEF m
    <3> QED BY <1>4, <1>6, <2>3
  <2>6. ControlAt(k, h)'
    BY <1>9, <1>11, <2>3, <2>4 DEF ControlAt
  <2> QED BY <2>5, <2>6
<1>13. CASE v >= 128
  <2> DEFINE q == v \div 128
  <2>1. b = (v % 128) + 128 /\ wire' = AppendVarint[q] \o r /\ q \in Nat
    <3>1. a # << >> /\ Head(a) = (v % 128) + 128 /\ Tail(a) = AppendVarint[q] /\ q \in Nat
      BY <1>13, AppendVarintLong
    <3> HIDE DEF a, r, q
    <3>2. Head(a \o r) = Head(a) /\ Tail(a \o r) = Tail(a) \o r
      BY <1>5, <1>7, <3>1, BytesConcat
    <3> QED BY <1>0, <1>3, <3>1, <3>2 DEF a
  <2>2. x \in Nat /\ x + (128 * weight) * q = Len(m) /\ 128 * weight < Limit /\ x < Limit
    BY <1>10, <1>13, <2>1
  <2>3. length' = x /\ weight' = 128 * weight /\ reader' = "length"
    <3>1. ~(b < 128)
      BY <2>1
    <3>2. ~(128 * weight >= Limit)
      BY <1>6, <2>2
    <3> HIDE DEF x, b
    <3> QED BY <1>8, <3>1, <3>2
  <2>4. AtLength(k, h)'
    <3> HIDE DEF x, q, b
    <3>1. length' + weight' * q = Len(m)
      BY <2>2, <2>3
    <3> HIDE DEF m
    <3>2. q \in Nat /\ wire' = AppendVarint[q] \o (m \o h[k + 1])
      BY <2>1
    <3>3. k < sent'
      BY <1>1, <1>2
    <3>4. m = BytesOf(script', k + 1)
      BY <1>1 DEF m
    <3> QED BY <1>11, <3>1, <3>2, <3>3, <3>4 DEF AtLength
  <2>5. weight' \in 1..(Limit - 1) /\ length' \in 0..(Limit - 1)
    <3> HIDE DEF x
    <3> QED BY <1>6, <2>2, <2>3
  <2>6. ControlAt(k, h)'
    BY <1>9, <1>11, <2>3, <2>4 DEF ControlAt
  <2> QED BY <2>5, <2>6
<1> QED BY <1>12, <1>13

\* A byte of the frame.
LEMMA ControlBody ==
  ASSUME Common, script.type # "Upload", NEW k, NEW h, ControlAt(k, h), ReadBody
  PROVE  ControlAt(k, h)'
<1>1. reader = "body" /\ Len(body) < length /\ wire # << >> /\ wire' = Tail(wire)
      /\ body' = Append(body, Head(wire)) /\ AtBody(k, h) /\ wire \in Seq(Byte) /\ body \in Seq(Byte)
  BY DEF ReadBody, Take, ControlAt
<1>2. UNCHANGED <<script, sent, broken, reader, weight, length, head, got>>
  BY DEF ReadBody, frame
<1>3. body' \in Seq(Byte) /\ wire' \in Seq(Byte) /\ body' \o wire' = body \o wire /\ Len(body') = Len(body) + 1
  BY <1>1, TakeOne
<1>4. Len(body') <= length'
  <2>1. Len(body) \in Nat /\ length \in Nat
    BY <1>1, CodecAssumption DEF Common, CodecAssumption
  <2> QED BY <1>1, <1>2, <1>3, <2>1
<1>5. AtBody(k, h)'
  BY <1>1, <1>2, <1>3, <1>4 DEF AtBody
<1> QED BY <1>1, <1>2, <1>3, <1>5 DEF ControlAt

\* No receipt a program writes ends the drainer: an Acked is not in what is
\* read.
LEMMA ReceiptStops ==
  ASSUME NEW m, ControlWritable("ReceiptFrame", m)
  PROVE  LET n == Normal("ReceiptFrame", m) IN n.Acked = Nil /\ n.Nacked = Nil /\ n.Failed = Nil
<1> DEFINE T == "ReceiptFrame"
<1>1. GoodTable(Fields[T], 6) /\ T \in Typenames
  BY ReceiptTable DEF Typenames
<1>2. Fields[T][4].name = "Failed" /\ Fields[T][5].name = "Acked" /\ Fields[T][6].name = "Nacked"
  BY DEF Fields, ReceiptFrame, Str, Msg
<1>3. {"Acked", "Nacked", "Failed"} \subseteq FieldNames(T)
  <2>1. \A i \in 1..6 : Fields[T][i] \in Table(T)
    BY <1>1, TableFields
  <2>2. \A f \in Table(T) : f.name \in FieldNames(T)
    BY <1>1, TableFields
  <2> QED BY <1>2, <2>1, <2>2
<1>4. m.Failed = Nil /\ m.Nacked = Nil
  BY DEF ControlWritable
<1>5. \A name \in FieldNames(T) :
        Normal(T, m)[name] =
          IF FieldOf(T, name).kind # "message" \/ m[name] = Nil THEN m[name]
          ELSE IF Vanishes(name, m[name]) THEN Nil ELSE Normal1(name, m[name])
  BY DEF Normal, Reduced
<1>6. FieldOf(T, "Acked").kind = "message"
  <2>1. Fields[T][5] \in Table(T) /\ Fields[T][5].kind = "message"
    <3>1. Fields[T][5].kind = "message"
      BY DEF Fields, ReceiptFrame, Str, Msg
    <3> QED BY <1>1, <3>1, TableFields
  <2>2. FieldOf(T, Fields[T][5].name) = Fields[T][5]
    BY <1>1, <2>1, TableFields
  <2> QED BY <1>2, <2>1, <2>2
<1>7. Vanishes("Acked", m["Acked"])
  BY NoFields DEF Vanishes
<1>8. Normal(T, m)["Failed"] = Nil /\ Normal(T, m)["Nacked"] = Nil
  BY <1>3, <1>4, <1>5
<1>9. Normal(T, m)["Acked"] = Nil
  BY <1>3, <1>5, <1>6, <1>7
<1> QED BY <1>8, <1>9

\* The last byte of a frame has been read: it is the next one.
LEMMA ControlDecode ==
  ASSUME Common, script.type # "Upload", NEW k, NEW h, ControlAt(k, h), DecodeFrame
  PROVE  /\ ControlAt(k + 1, h)' /\ length' = 0
         /\ k < sent /\ got' = Append(got, Delivered(script)[k + 1])
<1> DEFINE m == BytesOf(script, k + 1)
           n == Normal(script.type, script.frames[k + 1])
<1>1. reader = "body" /\ Len(body) = length /\ length' = 0 /\ body' = << >>
      /\ AtBody(k, h) /\ wire \in Seq(Byte) /\ body \in Seq(Byte) /\ k \in 0..sent /\ Ahead(script, sent, h)
  BY DEF DecodeFrame, ControlAt
<1>2. UNCHANGED <<script, sent, wire, broken, weight, head>>
  BY DEF DecodeFrame
<1>3. k < sent /\ weight = 1 /\ length = Len(m) /\ body \o wire = m \o h[k + 1]
  BY <1>1 DEF AtBody
<1>0. Writable(script) /\ sent \in Nat /\ sent \in 0..Len(script.frames) /\ k \in Nat /\ k + 1 \in 1..Len(script.frames)
  <2>1. Writable(script) /\ sent \in Nat /\ sent \in 0..Len(script.frames)
    BY ScriptWritable DEF Common
  <2>2. Len(script.frames) \in Nat
    BY <2>1, ScriptFrames
  <2> QED BY <1>1, <1>3, <2>1, <2>2
<1>4. m \in Seq(Byte) /\ h[k + 1] \in Seq(Byte)
  BY <1>0, <1>1, <1>3, NextBytes
<1>5. body = m /\ wire = h[k + 1]
  <2> HIDE DEF m
  <2> QED BY <1>1, <1>3, <1>4, Whole, ZenonT(40)
<1>6. ControlWritable(script.type, script.frames[k + 1]) /\ script.type \in Types
  BY <1>0, ScriptFrames
<1>7. Unmarshal(script.type, body) = [ok |-> TRUE, msg |-> n]
  BY <1>5, <1>6, ControlBytes DEF BytesOf
<1>8. got' = Append(got, n) /\ reader' = IF Stops(n) THEN "done" ELSE "length"
  BY <1>7 DEF DecodeFrame
<1>9. n = Delivered(script)[k + 1]
  BY <1>0 DEF Delivered
<1>10. got' = FirstOf(script, k + 1)
  <2>1. got = FirstOf(script, k)
    BY DEF ControlAt
  <2> QED BY <1>0, <1>8, <1>9, <2>1, AppendNext
<1>11. k + 1 \in 0..sent
  BY <1>0, <1>3
<1>12. reader' = "done" => script.type = "ControlFrame"
  <2>1. ASSUME script.type = "ReceiptFrame" PROVE ~Stops(n)
    <3>1. n.Acked = Nil /\ n.Nacked = Nil /\ n.Failed = Nil
      BY <1>6, <2>1, ReceiptStops
    <3> HIDE DEF n
    <3> QED BY <2>1, <3>1 DEF Stops
  <2>2. script.type \in {"ControlFrame", "ReceiptFrame"}
    BY <1>6 DEF Types
  <2> HIDE DEF n
  <2> QED BY <1>8, <2>1, <2>2
<1>13. AtLength(k + 1, h)'
  <2> DEFINE j == k + 1
  <2>1. \/ j = sent /\ h[j] = << >>
        \/ /\ j < sent
           /\ \E v \in Nat : /\ 0 + 1 * v = Len(BytesOf(script, j + 1))
                             /\ h[j] = AppendVarint[v] \o (BytesOf(script, j + 1) \o h[j + 1])
    <3> HIDE DEF j
    <3> QED BY <1>1, <1>11, BeforeFrame DEF j
  <2>2. wire' = h[j] /\ weight' = 1 /\ length' = 0 /\ body' = << >> /\ script' = script /\ sent' = sent
    BY <1>1, <1>2, <1>3, <1>5
  <2> HIDE DEF j
  <2>3. AtLength(j, h)'
    BY <2>1, <2>2 DEF AtLength
  <2> QED BY <2>3 DEF j
<1>14. reader' \in {"done", "length"}
  <2> HIDE DEF n
  <2> QED BY <1>8
<1>15. ControlAt(k + 1, h)'
  <2>1. head' = Nil /\ wire' \in Seq(Byte) /\ body' \in Seq(Byte) /\ wire' = h[k + 1]
    BY <1>1, <1>2, <1>5 DEF ControlAt
  <2>2. k + 1 \in 0..sent' /\ Ahead(script', sent', h) /\ got' = FirstOf(script', k + 1)
    BY <1>1, <1>2, <1>10, <1>11
  <2> QED BY <1>2, <1>12, <1>13, <1>14, <2>1, <2>2 DEF ControlAt
<1> QED BY <1>1, <1>3, <1>8, <1>9, <1>15

\* A read that fails, the end of the connection, and a step that changes nothing.
LEMMA ControlFails ==
  ASSUME NEW k, NEW h, ControlAt(k, h), ReadFails
  PROVE  ControlAt(k, h)'
<1>1. broken /\ reader' = "error" /\ UNCHANGED <<script, sent, wire, broken, weight, length, body, head, got>>
  BY DEF ReadFails, frame
<1> QED BY <1>1 DEF ControlAt

LEMMA ControlBreaks ==
  ASSUME NEW k, NEW h, ControlAt(k, h), Break
  PROVE  ControlAt(k, h)'
<1>1. broken' /\ UNCHANGED <<script, sent, wire, reader, weight, length, body, head, got>>
  BY DEF Break, frame
<1>2. AtLength(k, h)' = AtLength(k, h) /\ AtBody(k, h)' = AtBody(k, h)
  BY <1>1 DEF AtLength, AtBody
<1> QED BY <1>1, <1>2 DEF ControlAt

LEMMA ControlStays ==
  ASSUME NEW k, NEW h, ControlAt(k, h), UNCHANGED vars
  PROVE  ControlAt(k, h)'
<1>1. UNCHANGED <<script, sent, wire, broken, reader, weight, length, body, head, got>>
  BY DEF vars, frame
<1>2. AtLength(k, h)' = AtLength(k, h) /\ AtBody(k, h)' = AtBody(k, h)
  BY <1>1 DEF AtLength, AtBody
<1> QED BY <1>1, <1>2 DEF ControlAt

\* An upload has no length, and its reader never asks for one.
UploadReader ==
  script.type = "Upload" =>
    /\ weight = 1 /\ length = 0
    /\ reader \in {"header", "peek", "check", "data", "done", "refused", "error"}

\* The invariant of all streams; of an upload it says only that.
StreamInv == Common /\ ControlInv /\ UploadReader

\* It holds at the beginning,
LEMMA StreamInit == Init => StreamInv
<1> SUFFICES ASSUME Init PROVE StreamInv
  OBVIOUS
<1>1. UploadReader
  BY DEF Init, UploadReader
<1> QED BY <1>1, ControlInit DEF StreamInv

\* What a step does to the variables all streams have.
LEMMA CommonStep ==
  ASSUME Common, Next, ~ReadLength, ~DecodeFrame
  PROVE  Common' /\ weight' = weight /\ length' = length
<1> USE DEF frame
<1>1. CASE WriteFrame
  <2>1. sent < Len(script.frames) /\ sent' = sent + 1 /\ UNCHANGED <<script, broken, reader, weight, length>>
    BY <1>1 DEF WriteFrame
  <2>2. sent \in 0..Len(script.frames) /\ Len(script.frames) \in Nat
    BY ScriptWritable, ScriptFrames DEF Common
  <2>3. sent' \in 0..Len(script'.frames)
    BY <2>1, <2>2
  <2> QED BY <2>1, <2>3 DEF Common
<1>2. CASE ReadBody \/ ReadFails \/ Break
  BY <1>2 DEF Common, ReadBody, ReadFails, Break
<1>3. CASE ReadHeaderLine
  <2>1. reader' \in {reader, "peek", "error"} /\ UNCHANGED <<script, sent, broken, weight, length>>
    BY <1>3 DEF ReadHeaderLine
  <2> QED BY <2>1 DEF Common
<1>4. CASE ReadHashLine \/ ReadHashFails
  <2>1. reader' \in {reader, "check"} /\ UNCHANGED <<script, sent, broken, weight, length>>
    BY <1>4 DEF ReadHashLine, ReadHashFails
  <2> QED BY <2>1 DEF Common
<1>5. CASE CheckUpload
  <2>1. reader' \in {"data", "refused"} /\ UNCHANGED <<script, sent, broken, weight, length>>
    BY <1>5 DEF CheckUpload
  <2> QED BY <2>1 DEF Common
<1>6. CASE ReadData
  <2>1. reader' \in {reader, "done"} /\ UNCHANGED <<script, sent, broken, weight, length>>
    BY <1>6 DEF ReadData
  <2> QED BY <2>1 DEF Common
<1> QED BY <1>1, <1>2, <1>3, <1>4, <1>5, <1>6 DEF Next, Reader

\* A step of a control stream.
LEMMA ControlStep ==
  ASSUME Common, script.type # "Upload", NEW k, NEW h, ControlAt(k, h), Next
  PROVE  Common' /\ ControlInv'
<1>1. script' = script
  BY DEF Next, Reader, WriteFrame, ReadLength, ReadBody, DecodeFrame, ReadFails, ReadHeaderLine, ReadHashLine,
         ReadHashFails, CheckUpload, ReadData, Break
<1>2. ASSUME NEW j, NEW g, ControlAt(j, g)' PROVE ControlInv'
  BY <1>2 DEF ControlInv
<1>3. CASE ReadLength
  <2>1. ControlAt(k, h)' /\ weight' \in 1..(Limit - 1) /\ length' \in 0..(Limit - 1)
    BY <1>3, ControlLength
  <2>2. sent' = sent /\ broken' = broken
    BY <1>3 DEF ReadLength
  <2>3. reader' \in {"length", "body", "done", "error"}
    BY <2>1 DEF ControlAt
  <2>4. Common'
    BY <1>1, <2>1, <2>2, <2>3 DEF Common
  <2> QED BY <1>2, <2>1, <2>4
<1>4. CASE DecodeFrame
  <2>1. ControlAt(k + 1, h)' /\ length' = 0
    BY <1>4, ControlDecode
  <2>2. sent' = sent /\ broken' = broken /\ weight' = weight
    BY <1>4 DEF DecodeFrame
  <2>3. reader' \in {"length", "body", "done", "error"}
    BY <2>1 DEF ControlAt
  <2>4. length' \in 0..(Limit - 1)
    BY <2>1, CodecAssumption DEF CodecAssumption
  <2>5. Common'
    BY <1>1, <2>2, <2>3, <2>4 DEF Common
  <2> QED BY <1>2, <2>1, <2>5
<1>5. CASE ~ReadLength /\ ~DecodeFrame
  <2>1. Common'
    BY <1>5, CommonStep
  <2>2. reader \in {"length", "body", "done", "error"}
    BY DEF ControlAt
  <2>3. ~ReadHeaderLine /\ ~ReadHashLine /\ ~ReadHashFails /\ ~CheckUpload /\ ~ReadData
    BY <2>2 DEF ReadHeaderLine, ReadHashLine, ReadHashFails, CheckUpload, ReadData
  <2>4. CASE WriteFrame
    BY <2>1, <2>4, ControlWrite
  <2>5. CASE ReadBody
    BY <1>2, <2>1, <2>5, ControlBody
  <2>6. CASE ReadFails
    BY <1>2, <2>1, <2>6, ControlFails
  <2>7. CASE Break
    BY <1>2, <2>1, <2>7, ControlBreaks
  <2> QED BY <1>5, <2>3, <2>4, <2>5, <2>6, <2>7 DEF Next, Reader
<1> QED BY <1>3, <1>4, <1>5

\* and every step keeps it.
LEMMA StreamStep == StreamInv /\ [Next]_vars => StreamInv'
<1> SUFFICES ASSUME StreamInv, [Next]_vars PROVE StreamInv'
  OBVIOUS
<1>0. Common /\ ControlInv /\ UploadReader
  BY DEF StreamInv
<1>1. CASE UNCHANGED vars
  <2>1. UNCHANGED <<script, sent, wire, broken, reader, weight, length, body, head, got>>
    BY <1>1 DEF vars, frame
  <2>2. Common' /\ UploadReader'
    BY <1>0, <2>1 DEF Common, UploadReader
  <2>3. ControlInv'
    <3>1. ASSUME NEW k, NEW h, ControlAt(k, h) PROVE ControlAt(k, h)'
      BY <1>1, <3>1, ControlStays
    <3> QED BY <1>0, <2>1, <3>1 DEF ControlInv
  <2> QED BY <2>2, <2>3 DEF StreamInv
<1>2. CASE Next
  <2>1. script' = script
    BY <1>2 DEF Next, Reader, WriteFrame, ReadLength, ReadBody, DecodeFrame, ReadFails, ReadHeaderLine,
                ReadHashLine, ReadHashFails, CheckUpload, ReadData, Break
  <2>2. CASE script.type # "Upload"
    <3>1. PICK k, h : ControlAt(k, h)
      BY <1>0, <2>2 DEF ControlInv
    <3>2. Common' /\ ControlInv'
      BY <1>0, <1>2, <2>2, <3>1, ControlStep
    <3>3. UploadReader'
      BY <2>1, <2>2 DEF UploadReader
    <3> QED BY <3>2, <3>3 DEF StreamInv
  <2>3. CASE script.type = "Upload"
    <3>1. reader \in {"header", "peek", "check", "data", "done", "refused", "error"} /\ weight = 1 /\ length = 0
      BY <1>0, <2>3 DEF UploadReader
    <3>2. ~ReadLength /\ ~ReadBody /\ ~DecodeFrame
      BY <3>1 DEF ReadLength, ReadBody, DecodeFrame
    <3>3. Common' /\ weight' = weight /\ length' = length
      BY <1>0, <1>2, <3>2, CommonStep
    <3>4. reader' \in {reader, "header", "peek", "check", "data", "done", "refused", "error"}
      BY <1>2, <3>2 DEF Next, Reader, WriteFrame, ReadFails, ReadHeaderLine, ReadHashLine, ReadHashFails,
                        CheckUpload, ReadData, Break
    <3>5. UploadReader' /\ ControlInv'
      BY <2>1, <2>3, <3>1, <3>3, <3>4 DEF UploadReader, ControlInv
    <3> QED BY <3>3, <3>5 DEF StreamInv
  <2> QED BY <2>2, <2>3
<1> QED BY <1>1, <1>2

\* The reader of a control stream is always where the bytes on their way say.
THEOREM StreamAlways == Spec => []StreamInv
<1>1. Init => StreamInv
  BY StreamInit
<1>2. StreamInv /\ [Next]_vars => StreamInv'
  BY StreamStep
<1> QED BY <1>1, <1>2, PTL DEF Spec

\* What has been read are messages with the fields of their type.
LEMMA TypesFollow == StreamInv => TypeOK
<1> SUFFICES ASSUME StreamInv PROVE TypeOK
  OBVIOUS
<1>0. Common /\ ControlInv
  BY DEF StreamInv
<1>1. ASSUME script.type # "Upload"
      PROVE  /\ wire \in Seq(Byte) /\ body \in Seq(Byte) /\ head = Nil
             /\ \A i \in DOMAIN got : DOMAIN got[i] = DOMAIN Zero(script.type)
  <2>1. PICK k, h : ControlAt(k, h)
    BY <1>0, <1>1 DEF ControlInv
  <2>2. wire \in Seq(Byte) /\ body \in Seq(Byte) /\ head = Nil /\ got = FirstOf(script, k) /\ k \in 0..sent
    BY <2>1 DEF ControlAt
  <2>3. ASSUME NEW i \in DOMAIN got PROVE DOMAIN got[i] = DOMAIN Zero(script.type)
    <3>1. i \in 1..k /\ k \in Nat /\ i \in 1..Len(script.frames)
      <4>1. DOMAIN got = 1..k
        BY <2>2 DEF FirstOf
      <4>2. Len(script.frames) \in Nat /\ sent \in 0..Len(script.frames)
        BY <1>0, ScriptWritable, ScriptFrames DEF Common
      <4> QED BY <2>2, <2>3, <4>1, <4>2
    <3>2. got[i] = Normal(script.type, script.frames[i])
      BY <1>1, <2>2, <3>1 DEF FirstOf, Delivered
    <3>3. DOMAIN Normal(script.type, script.frames[i]) = FieldNames(script.type)
      BY DEF Normal, Reduced
    <3>4. DOMAIN Zero(script.type) = FieldNames(script.type)
      BY DEF Zero
    <3> QED BY <3>2, <3>3, <3>4
  <2> QED BY <2>2, <2>3
<1> QED BY <1>0, <1>1 DEF TypeOK, Common

\* The variables of a stream have their types: the length and its weight stay
\* below the limit of an integer, and what is read are messages with the
\* fields of their type (proto.go:135-165, receipt.go).
THEOREM WireTypes == Spec => []TypeOK
<1> QED BY StreamAlways, TypesFollow, PTL

-----------------------------------------------------------------------------
(***************************************************************************)
(* Data streams.                                                           *)
(***************************************************************************)
\* What follows the first line of an upload, its second line, and the content.
DataAnd(f, r) == f.Content \o (<<Fin>> \o r)
SecondAnd(f, r) == HashLine(f) \o (<<LF>> \o DataAnd(f, r))
FirstAnd(f, r) == FirstLine(f) \o (<<LF>> \o SecondAnd(f, r))

\* The file of an upload, from the receiver's point of view.
IsFile(s, f) ==
  /\ f.FileName \in Seq(Tokens(s)) /\ f.ReceiptID \in Seq(Tokens(s))
  /\ f.Sha256 \in Seq(Tokens(s)) /\ f.Content \in Seq(Tokens(s))
  /\ f.SizeBytes \in Numbers /\ f.SizeBytes \in Tokens(s)
  /\ {"UPLOAD", "HASH", ":", LF, Fin} \subseteq Tokens(s)
  /\ Without(f.FileName, ":") /\ Without(f.ReceiptID, ":")
  /\ Without(FirstLine(f), LF) /\ Without(HashLine(f), LF) /\ Without(f.Content, Fin)
  /\ f = [FileName |-> f.FileName, SizeBytes |-> f.SizeBytes, ReceiptID |-> f.ReceiptID,
          Sha256 |-> f.Sha256, Content |-> f.Content,
          Place |-> Elements(JoinPath(<<s.base, f.FileName>>))]

\* A token that is not one of a sequence's.
LEMMA WithoutOf ==
  ASSUME NEW T, NEW s \in Seq(T), NEW x, x \notin ToSet(s)
  PROVE  Without(s, x)
<1>1. ToSet(s) = {s[i] : i \in DOMAIN s}
  BY DEF ToSet
<1> QED BY <1>1 DEF Without

\* A token in neither of two sequences.
LEMMA WithoutJoin ==
  ASSUME NEW T, NEW s \in Seq(T), NEW t \in Seq(T), NEW x, Without(s, x), Without(t, x)
  PROVE  Without(s \o t, x) /\ s \o t \in Seq(T)
BY DEF Without

\* The separators are not words of the header.
LEMMA Separators ==
  /\ LF \notin {"UPLOAD", "HASH", ":"} /\ LF # Fin
  /\ ":" \notin {"UPLOAD", "HASH"}
BY DEF LF, Fin

\* Every upload of a plain script is one.
LEMMA UploadFile ==
  ASSUME NEW s, Writable(s), s.type = "Upload", Plain(s), NEW i \in 1..Len(s.frames)
  PROVE  IsFile(s, s.frames[i])
<1> DEFINE f == s.frames[i]
           T == Tokens(s)
           n == f.FileName
           z == f.SizeBytes
           id == f.ReceiptID
           d == f.Sha256
           c == f.Content
<1>1. f \in ToSet(s.frames) /\ UploadWritable(f)
  BY ScriptFrames
<1>2. /\ n \in Seq(T) /\ id \in Seq(T) /\ d \in Seq(T) /\ c \in Seq(T)
      /\ z \in Numbers /\ z \in T /\ {"UPLOAD", "HASH", ":", LF, Fin} \subseteq T
  BY UploadTokens
<1>3. /\ LF \notin ToSet(n) /\ ":" \notin ToSet(n) /\ LF \notin ToSet(id) /\ ":" \notin ToSet(id)
      /\ LF \notin ToSet(d) /\ Fin \notin ToSet(c)
      /\ f.Place = Elements(JoinPath(<<s.base, n>>))
      /\ f = [name \in {"FileName", "SizeBytes", "ReceiptID", "Sha256", "Content", "Place"} |-> f[name]]
  BY <1>1 DEF Plain, UploadWritable
<1>4. z # LF
  BY <1>2, WireAssumption DEF WireAssumption
<1>5. f = [FileName |-> n, SizeBytes |-> z, ReceiptID |-> id, Sha256 |-> d, Content |-> c,
           Place |-> Elements(JoinPath(<<s.base, n>>))]
  <2> DEFINE p == Elements(JoinPath(<<s.base, n>>))
  <2>1. f.Place = p
    BY <1>3
  <2> HIDE DEF p
  <2>2. f = [FileName |-> f.FileName, SizeBytes |-> f.SizeBytes, ReceiptID |-> f.ReceiptID,
             Sha256 |-> f.Sha256, Content |-> f.Content, Place |-> f.Place]
    <3> HIDE DEF f
    <3> QED BY <1>3 DEF f
  <2> QED BY <2>1, <2>2 DEF p
<1> HIDE DEF T, n, z, id, d, c
<1>6. /\ Without(n, ":") /\ Without(n, LF) /\ Without(id, ":") /\ Without(id, LF) /\ Without(d, LF)
      /\ Without(c, Fin)
  BY <1>2, <1>3, WithoutOf
<1>7. Without(FirstLine(f), LF)
  <2>1. <<"UPLOAD", ":">> \in Seq(T) /\ Without(<<"UPLOAD", ":">>, LF)
    BY <1>2, Separators DEF Without
  <2>2. <<":", z, ":", ":">> \in Seq(T) /\ Without(<<":", z, ":", ":">>, LF)
    BY <1>2, <1>4, Separators DEF Without
  <2>3. <<"UPLOAD", ":">> \o n \in Seq(T) /\ Without(<<"UPLOAD", ":">> \o n, LF)
    BY <1>2, <1>6, <2>1, WithoutJoin
  <2>4. /\ (<<"UPLOAD", ":">> \o n) \o <<":", z, ":", ":">> \in Seq(T)
        /\ Without((<<"UPLOAD", ":">> \o n) \o <<":", z, ":", ":">>, LF)
    BY <2>2, <2>3, WithoutJoin
  <2>5. Without(((<<"UPLOAD", ":">> \o n) \o <<":", z, ":", ":">>) \o id, LF)
    BY <1>2, <1>6, <2>4, WithoutJoin
  <2> QED BY <2>5 DEF FirstLine, n, z, id
<1>8. Without(HashLine(f), LF)
  <2>1. <<"HASH", ":">> \in Seq(T) /\ Without(<<"HASH", ":">>, LF)
    BY <1>2, Separators DEF Without
  <2>2. Without(<<"HASH", ":">> \o d, LF)
    BY <1>2, <1>6, <2>1, WithoutJoin
  <2> QED BY <2>2 DEF HashLine, d
<1> QED BY <1>2, <1>5, <1>6, <1>7, <1>8 DEF IsFile, T, n, z, id, d, c

\* An upload as it is written, line by line.
LEMMA Lines ==
  ASSUME NEW s, NEW f, IsFile(s, f), NEW r \in Seq(Tokens(s))
  PROVE  LET T == Tokens(s) IN
         /\ FirstLine(f) \in Seq(T) /\ HashLine(f) \in Seq(T) /\ f.Content \in Seq(T) /\ LF \in T /\ Fin \in T
         /\ DataAnd(f, r) \in Seq(T) /\ SecondAnd(f, r) \in Seq(T) /\ FirstAnd(f, r) \in Seq(T)
         /\ <<Fin>> \o r \in Seq(T)
         /\ ((Header(f) \o f.Content) \o <<Fin>>) \o r = FirstAnd(f, r)
<1> DEFINE T == Tokens(s)
           a == FirstLine(f)
           b == HashLine(f)
           c == f.Content
           t == <<Fin>> \o r
           hd == Header(f)
<1>1. /\ {":", "UPLOAD", "HASH", LF} \subseteq T /\ f.FileName \in Seq(T) /\ f.ReceiptID \in Seq(T)
      /\ f.Sha256 \in Seq(T) /\ f.SizeBytes \in T /\ c \in Seq(T) /\ Fin \in T
  BY DEF IsFile
<1>2. t \in Seq(T)
  BY <1>1
<1> HIDE DEF T, t
<1>3. /\ a \in Seq(T) /\ b \in Seq(T) /\ hd \in Seq(T)
      /\ (hd \o c) \o t = a \o (<<LF>> \o (b \o (<<LF>> \o (c \o t))))
  <2> HIDE DEF a, b, c, hd
  <2>1. LineParts(T, f)
    BY <1>1 DEF LineParts
  <2>2. ASSUME NEW x \in Seq(T), NEW y \in Seq(T)
        PROVE  /\ FirstLine(f) \in Seq(T) /\ HashLine(f) \in Seq(T) /\ Header(f) \in Seq(T)
               /\ Headed(f, x, y) = Lined(f, x, y)
    BY <2>1, HeaderLines
  <2>3. a \in Seq(T) /\ b \in Seq(T) /\ hd \in Seq(T) /\ Headed(f, c, t) = Lined(f, c, t)
    BY <1>1, <1>2, <2>2 DEF a, b, hd
  <2> QED BY <2>3 DEF Headed, Lined, a, b, hd
<1> HIDE DEF a, b, c, hd
<1>4. c \o t \in Seq(T) /\ LF \in T
  BY <1>1, <1>2
<1>5. b \o (<<LF>> \o (c \o t)) \in Seq(T)
  BY <1>3, <1>4
<1>6. a \o (<<LF>> \o (b \o (<<LF>> \o (c \o t)))) \in Seq(T)
  BY <1>3, <1>4, <1>5
<1>7. ((hd \o c) \o <<Fin>>) \o r = (hd \o c) \o t
  <2>1. hd \o c \in Seq(T) /\ <<Fin>> \in Seq(T) /\ r \in Seq(T)
    BY <1>1, <1>3 DEF T
  <2> DEFINE x == hd \o c
             y == <<Fin>>
  <2> HIDE DEF x, y
  <2>2. (x \o y) \o r = x \o (y \o r)
    BY <2>1 DEF x, y
  <2> QED BY <2>2 DEF x, y, t
<1> QED BY <1>1, <1>2, <1>3, <1>4, <1>5, <1>6, <1>7 DEF DataAnd, SecondAnd, FirstAnd, T, a, b, c, t, hd

\* What follows an upload is behind all of it.
LEMMA Longer ==
  ASSUME NEW s, NEW f, IsFile(s, f), NEW r \in Seq(Tokens(s)), NEW e \in Seq(Tokens(s))
  PROVE  /\ DataAnd(f, r) \o e = DataAnd(f, r \o e)
         /\ SecondAnd(f, r) \o e = SecondAnd(f, r \o e)
<1> DEFINE T == Tokens(s)
           b == HashLine(f)
           c == f.Content
<1>1. b \in Seq(T) /\ c \in Seq(T) /\ LF \in T /\ Fin \in T /\ r \in Seq(T) /\ e \in Seq(T)
      /\ DataAnd(f, r) \in Seq(T)
  BY Lines
<1>2. DataAnd(f, r) = c \o (<<Fin>> \o r) /\ DataAnd(f, r \o e) = c \o (<<Fin>> \o (r \o e))
      /\ SecondAnd(f, r) = b \o (<<LF>> \o DataAnd(f, r))
      /\ SecondAnd(f, r \o e) = b \o (<<LF>> \o DataAnd(f, r \o e))
  BY DEF DataAnd, SecondAnd
<1> HIDE DEF T, b, c
<1>3. ASSUME NEW x \in Seq(T), NEW a \in T, NEW y \in Seq(T)
      PROVE  (x \o (<<a>> \o y)) \o e = x \o (<<a>> \o (y \o e))
  <2> DEFINE o == <<a>>
  <2>1. o \in Seq(T)
    BY <1>3
  <2> HIDE DEF o
  <2>2. o \o y \in Seq(T)
    BY <1>3, <2>1
  <2>3. (o \o y) \o e = o \o (y \o e)
    BY <1>1, <1>3, <2>1, SMTT(30)
  <2>4. (x \o (o \o y)) \o e = x \o ((o \o y) \o e)
    <3> DEFINE w == o \o y
    <3> HIDE DEF w
    <3>1. w \in Seq(T)
      BY <2>2 DEF w
    <3>2. (x \o w) \o e = x \o (w \o e)
      BY <1>1, <1>3, <3>1, SMTT(30)
    <3> QED BY <3>2 DEF w
  <2> QED BY <2>3, <2>4 DEF o
<1>4. DataAnd(f, r) \o e = DataAnd(f, r \o e)
  <2>1. (c \o (<<Fin>> \o r)) \o e = c \o (<<Fin>> \o (r \o e))
    BY <1>1, <1>3
  <2> QED BY <1>2, <2>1
<1>5. SecondAnd(f, r) \o e = b \o (<<LF>> \o (DataAnd(f, r) \o e))
  <2> DEFINE y == DataAnd(f, r)
  <2>1. y \in Seq(T) /\ SecondAnd(f, r) = b \o (<<LF>> \o y)
    BY <1>1, <1>2
  <2> HIDE DEF y
  <2> QED BY <1>1, <1>3, <2>1, SMTT(30) DEF y
<1> QED BY <1>2, <1>4, <1>5

-----------------------------------------------------------------------------
\* What the reader knows after the first line, and after the second.
Heading(f) == [FileName |-> f.FileName, SizeBytes |-> f.SizeBytes, ReceiptID |-> f.ReceiptID]
FullHeading(f) ==
  [FileName |-> f.FileName, SizeBytes |-> f.SizeBytes, ReceiptID |-> f.ReceiptID, Sha256 |-> f.Sha256]

\* Nothing more can be read.
Lost == broken /\ wire = << >>

\* The upload a data stream is for.
File == script.frames[1]

\* A data stream; h[1] is what follows the first upload on it.
UploadAt(h) ==
  /\ Ahead(script, sent, h)
  /\ wire \in Seq(Tokens(script)) /\ body \in Seq(Tokens(script))
  /\ reader # "done" => got = << >>
  /\ reader = "header" => Without(body, LF) /\ body \o wire = h[0]
  /\ reader = "peek" =>
       /\ sent >= 1 /\ head = Heading(File) /\ Without(body, LF)
       /\ body \o wire = SecondAnd(File, h[1])
  /\ reader = "check" =>
       /\ head = Heading(File)
       /\ Lost \/ (sent >= 1 /\ body = HashLine(File) /\ wire = DataAnd(File, h[1]))
  /\ reader = "data" =>
       \/ Lost
       \/ /\ sent >= 1 /\ head = FullHeading(File) /\ Without(body, Fin)
          /\ body \o wire = DataAnd(File, h[1])
  /\ reader = "done" => sent >= 1 /\ got = <<File>> /\ wire = h[1]
  /\ reader = "error" => broken

\* The invariant of a data stream, and that of all.
UploadInv == script.type = "Upload" => \E h : UploadAt(h)

ArriveInv == StreamInv /\ UploadInv

\* The one upload a data stream is for.
LEMMA TheFile ==
  ASSUME Common, script.type = "Upload", Plain(script)
  PROVE  IsFile(script, File) /\ sent \in Nat /\ Writable(script) /\ Symbols(script) = Tokens(script)
<1>1. Writable(script)
  BY ScriptWritable
<1>2. 1 \in 1..Len(script.frames)
  BY <1>1, ScriptFrames
<1> QED BY <1>1, <1>2, UploadFile DEF File, Common, Symbols

\* What is ahead of the reader of a data stream begins with the upload.
LEMMA UploadTail ==
  ASSUME Common, script.type = "Upload", Plain(script), NEW h, Ahead(script, sent, h)
  PROVE  /\ \A i \in 0..sent : h[i] \in Seq(Tokens(script))
         /\ sent = 0 => h[0] = << >>
         /\ sent >= 1 => h[1] \in Seq(Tokens(script)) /\ h[0] = FirstAnd(File, h[1])
<1>1. sent \in Nat /\ Symbols(script) = Tokens(script) /\ IsFile(script, File)
  BY TheFile
<1>2. /\ \A i \in 0..sent : h[i] \in Seq(Tokens(script))
      /\ h[sent] = << >>
      /\ \A i \in 1..sent : h[i - 1] = EncodeOf(script, script.frames[i]) \o h[i]
  BY <1>1 DEF Ahead
<1>3. ASSUME sent >= 1 PROVE h[1] \in Seq(Tokens(script)) /\ h[0] = FirstAnd(File, h[1])
  <2>1. 1 \in 0..sent /\ 1 \in 1..sent /\ 1 - 1 = 0
    BY <1>1, <1>3
  <2>2. h[1] \in Seq(Tokens(script)) /\ h[0] = EncodeOf(script, File) \o h[1]
    BY <1>2, <2>1 DEF File
  <2>3. EncodeOf(script, File) = (Header(File) \o File.Content) \o <<Fin>>
    BY DEF EncodeOf
  <2>4. ((Header(File) \o File.Content) \o <<Fin>>) \o h[1] = FirstAnd(File, h[1])
    <3> DEFINE r == h[1]
               f == File
    <3>1. r \in Seq(Tokens(script)) /\ IsFile(script, f)
      BY <1>1, <2>2
    <3> HIDE DEF r, f
    <3>2. ((Header(f) \o f.Content) \o <<Fin>>) \o r = FirstAnd(f, r)
      BY <3>1, Lines
    <3> QED BY <3>2 DEF r, f
  <2> QED BY <2>2, <2>3, <2>4
<1> QED BY <1>2, <1>3

\* It holds when nothing has been written.
LEMMA UploadInit == Init => UploadInv
<1> SUFFICES ASSUME Init, script.type = "Upload" PROVE \E h : UploadAt(h)
  BY DEF UploadInv
<1> DEFINE h == [i \in 0..0 |-> << >>]
<1>1. Ahead(script, sent, h)
  BY AheadStart DEF Init
<1>2. << >> \in Seq(Tokens(script)) /\ << >> \o << >> = << >> /\ h[0] = << >> /\ Without(<< >>, LF)
  BY DEF Without
<1> HIDE DEF h
<1>3. reader = "header" /\ wire = << >> /\ body = << >> /\ got = << >>
  BY DEF Init
<1>4. UploadAt(h)
  BY <1>1, <1>2, <1>3 DEF UploadAt
<1> QED BY <1>4

\* What is written comes after all that is on its way.
LEMMA UploadWrite ==
  ASSUME Common, script.type = "Upload", Plain(script), NEW h, UploadAt(h), WriteFrame
  PROVE  UploadInv'
<1> DEFINE e == EncodeOf(script, script.frames[sent + 1])
           T == Tokens(script)
<1>0. /\ Writable(script) /\ sent \in Nat /\ sent < Len(script.frames) /\ sent' = sent + 1 /\ wire' = wire \o e
      /\ ~broken /\ IsFile(script, File) /\ Symbols(script) = T
  <2>1. ~broken /\ sent < Len(script.frames) /\ sent' = sent + 1 /\ wire' = wire \o Encode(script.frames[sent + 1])
    BY DEF WriteFrame
  <2> QED BY <2>1, TheFile, EncodeIs
<1>1. UNCHANGED <<script, broken, reader, body, head, got>> /\ Ahead(script, sent, h)
  BY DEF WriteFrame, UploadAt
<1>2. PICK g : Ahead(script, sent + 1, g) /\ \A i \in 0..sent : g[i] = h[i] \o e
  BY <1>0, <1>1, AheadMore
<1>3. e \in Seq(T)
  BY <1>0, EncodeType, ScriptFrames
<1>4. wire \in Seq(T) /\ body \in Seq(T)
  BY DEF UploadAt
<1> HIDE DEF e, T
<1>5. wire' \in Seq(T) /\ body \o wire' = (body \o wire) \o e
  BY <1>0, <1>3, <1>4
<1>6. ~Lost /\ File' = File
  BY <1>0, <1>1 DEF Lost, File
<1>7. ASSUME reader = "header" PROVE body \o wire' = g[0]
  <2>1. body \o wire = h[0]
    BY <1>7 DEF UploadAt
  <2>2. g[0] = h[0] \o e
    BY <1>0, <1>2
  <2> QED BY <1>5, <2>1, <2>2
<1>8. ASSUME sent >= 1
      PROVE  DataAnd(File, g[1]) = DataAnd(File, h[1]) \o e /\ SecondAnd(File, g[1]) = SecondAnd(File, h[1]) \o e
             /\ g[1] = h[1] \o e
  <2>1. g[1] = h[1] \o e
    BY <1>0, <1>2, <1>8
  <2> DEFINE r == h[1]
             f == File
  <2>2. r \in Seq(Tokens(script)) /\ e \in Seq(Tokens(script)) /\ IsFile(script, f)
    BY <1>0, <1>1, <1>3, <1>8, UploadTail DEF T
  <2> HIDE DEF r, f
  <2>3. DataAnd(f, r) \o e = DataAnd(f, r \o e) /\ SecondAnd(f, r) \o e = SecondAnd(f, r \o e)
    BY <2>2, Longer
  <2>4. g[1] = r \o e
    BY <2>1 DEF r
  <2> QED BY <2>1, <2>3, <2>4 DEF r, f
<1>9. ASSUME reader = "peek" PROVE sent >= 1 /\ body \o wire' = SecondAnd(File, g[1])
  <2>1. sent >= 1 /\ body \o wire = SecondAnd(File, h[1])
    BY <1>9 DEF UploadAt
  <2> QED BY <1>5, <1>8, <2>1
<1>10. ASSUME reader = "check" PROVE sent >= 1 /\ body = HashLine(File) /\ wire' = DataAnd(File, g[1])
  <2>1. sent >= 1 /\ body = HashLine(File) /\ wire = DataAnd(File, h[1])
    BY <1>6, <1>10 DEF UploadAt
  <2> QED BY <1>0, <1>8, <2>1
<1>11. ASSUME reader = "data" PROVE sent >= 1 /\ body \o wire' = DataAnd(File, g[1])
  <2>1. sent >= 1 /\ body \o wire = DataAnd(File, h[1])
    BY <1>6, <1>11 DEF UploadAt
  <2> QED BY <1>5, <1>8, <2>1
<1>12. ASSUME reader = "done" PROVE wire' = g[1]
  <2>1. sent >= 1 /\ wire = h[1]
    BY <1>12 DEF UploadAt
  <2> QED BY <1>0, <1>8, <2>1
<1>13. UploadAt(g)'
  <2>1. Ahead(script', sent', g) /\ wire' \in Seq(Tokens(script')) /\ body' \in Seq(Tokens(script'))
    BY <1>0, <1>1, <1>2, <1>4, <1>5 DEF T
  <2>2. reader' # "done" => got' = << >>
    BY <1>1 DEF UploadAt
  <2>3. reader' = "header" => Without(body', LF) /\ body' \o wire' = g[0]
    BY <1>1, <1>7 DEF UploadAt
  <2>4. sent >= 1 => sent' >= 1
    BY <1>0
  <2>5. reader' = "peek" =>
          /\ sent' >= 1 /\ head' = Heading(File') /\ Without(body', LF)
          /\ body' \o wire' = SecondAnd(File', g[1])
    BY <1>1, <1>6, <1>9, <2>4 DEF UploadAt
  <2>6. reader' = "check" =>
          /\ head' = Heading(File')
          /\ sent' >= 1 /\ body' = HashLine(File') /\ wire' = DataAnd(File', g[1])
    BY <1>1, <1>6, <1>10, <2>4 DEF UploadAt
  <2>7. reader' = "data" =>
          /\ sent' >= 1 /\ head' = FullHeading(File') /\ Without(body', Fin)
          /\ body' \o wire' = DataAnd(File', g[1])
    BY <1>1, <1>6, <1>11, <2>4 DEF UploadAt
  <2>8. reader' = "done" => sent' >= 1 /\ got' = <<File'>> /\ wire' = g[1]
    BY <1>1, <1>6, <1>12, <2>4 DEF UploadAt
  <2>9. reader' = "error" => broken'
    BY <1>1 DEF UploadAt
  <2> QED BY <2>1, <2>2, <2>3, <2>5, <2>6, <2>7, <2>8, <2>9 DEF UploadAt
<1> QED BY <1>13 DEF UploadInv

\* The first line is read as the header it was written from.
LEMMA UploadHeader ==
  ASSUME Common, script.type = "Upload", Plain(script), NEW h, UploadAt(h), ReadHeaderLine
  PROVE  UploadAt(h)'
<1> DEFINE T == Tokens(script)
           line == FirstLine(File)
           rest == SecondAnd(File, h[1])
           b == body
           w == wire
<1>1. /\ reader = "header" /\ wire # << >> /\ wire' = Tail(wire)
      /\ IF Head(wire) # LF
         THEN body' = Append(body, Head(wire)) /\ UNCHANGED <<reader, head>>
         ELSE /\ body' = << >>
              /\ IF IsHeader(body) THEN reader' = "peek" /\ head' = ParseHeader(body)
                 ELSE reader' = "error" /\ UNCHANGED head
      /\ UNCHANGED <<script, sent, broken, got>>
  BY DEF ReadHeaderLine, Take
<1>2. /\ Ahead(script, sent, h) /\ wire \in Seq(T) /\ body \in Seq(T) /\ got = << >>
      /\ Without(body, LF) /\ body \o wire = h[0]
  BY <1>1 DEF UploadAt
<1>3. sent \in Nat /\ IsFile(script, File)
  BY TheFile
<1>4. sent >= 1
  <2>1. body \o wire # << >>
    BY <1>1, <1>2
  <2>2. sent # 0
    BY <1>2, <2>1, UploadTail
  <2> QED BY <1>3, <2>2
<1>5. h[1] \in Seq(T) /\ h[0] = FirstAnd(File, h[1])
  BY <1>2, <1>4, UploadTail
<1>6. line \in Seq(T) /\ rest \in Seq(T) /\ LF \in T /\ Without(line, LF) /\ h[0] = line \o (<<LF>> \o rest)
  <2>1. LF \in T /\ Without(line, LF)
    BY <1>3 DEF IsFile
  <2>2. line \in Seq(T) /\ rest \in Seq(T)
    <3> DEFINE r == h[1]
               f == File
    <3>1. r \in Seq(T) /\ IsFile(script, f)
      BY <1>3, <1>5
    <3> HIDE DEF r, f
    <3>2. FirstLine(f) \in Seq(T) /\ SecondAnd(f, r) \in Seq(T)
      BY <3>1, Lines
    <3> QED BY <3>2 DEF r, f
  <2>3. h[0] = line \o (<<LF>> \o rest)
    BY <1>5 DEF FirstAnd
  <2> QED BY <2>1, <2>2, <2>3
<1>7. /\ Head(wire) # LF =>
           /\ Append(body, Head(wire)) \in Seq(T) /\ Without(Append(body, Head(wire)), LF)
           /\ Append(body, Head(wire)) \o Tail(wire) = h[0]
      /\ Head(wire) = LF => body = line /\ Tail(wire) = rest
      /\ Tail(wire) \in Seq(T)
  <2> HIDE DEF T, line, rest
  <2>1. Midway(T, line, LF, rest, body, wire)
    BY <1>2, <1>6 DEF Midway
  <2>2. /\ Head(wire) # LF => Midway(T, line, LF, rest, Append(body, Head(wire)), Tail(wire))
        /\ Head(wire) = LF => body = line /\ Tail(wire) = rest
        /\ Tail(wire) \in Seq(T)
    BY <1>1, <2>1, LineStep
  <2> QED BY <1>6, <2>2 DEF Midway
<1>8. File' = File /\ Ahead(script', sent', h) /\ wire' \in Seq(Tokens(script')) /\ got' = << >>
  BY <1>1, <1>2, <1>7 DEF File
<1>9. CASE Head(wire) # LF
  <2>1. reader' = "header" /\ body' = Append(body, Head(wire))
    BY <1>1, <1>9
  <2>2. body' \in Seq(Tokens(script')) /\ Without(body', LF) /\ body' \o wire' = h[0]
    BY <1>1, <1>7, <1>9, <2>1
  <2> QED BY <1>8, <2>1, <2>2 DEF UploadAt
<1>10. CASE Head(wire) = LF
  <2>1. IsHeader(line) /\ ParseHeader(line) = Heading(File)
    <3> DEFINE f == File
    <3>1. /\ {":", "UPLOAD"} \subseteq T /\ f.FileName \in Seq(T) /\ f.ReceiptID \in Seq(T)
          /\ f.SizeBytes \in T /\ f.SizeBytes \in Numbers
          /\ Without(f.FileName, ":") /\ Without(f.ReceiptID, ":")
      BY <1>3 DEF IsFile
    <3>2. ":" \notin Numbers
      BY WireAssumption DEF WireAssumption
    <3> HIDE DEF f
    <3>3. IsHeader(FirstLine(f))
          /\ ParseHeader(FirstLine(f)) =
              [FileName |-> f.FileName, SizeBytes |-> f.SizeBytes, ReceiptID |-> f.ReceiptID]
      BY <3>1, <3>2, HeaderRoundTrip
    <3> QED BY <3>3 DEF f, Heading
  <2>2. reader' = "peek" /\ head' = Heading(File) /\ body' = << >> /\ wire' = rest
    <3> HIDE DEF line, rest
    <3> QED BY <1>1, <1>7, <1>10, <2>1
  <2>3. << >> \in Seq(Tokens(script')) /\ Without(<< >>, LF) /\ << >> \o rest = rest
    <3> HIDE DEF rest
    <3> QED BY <1>6 DEF Without
  <2> HIDE DEF T
  <2>4. sent' >= 1
    BY <1>1, <1>4
  <2> QED BY <1>8, <2>2, <2>3, <2>4 DEF UploadAt
<1> QED BY <1>9, <1>10

\* A token of the second line.
LEMMA UploadHash ==
  ASSUME Common, script.type = "Upload", Plain(script), NEW h, UploadAt(h), ReadHashLine
  PROVE  UploadAt(h)'
<1> DEFINE T == Tokens(script)
           line == HashLine(File)
           rest == DataAnd(File, h[1])
<1>1. /\ reader = "peek" /\ wire # << >> /\ wire' = Tail(wire)
      /\ IF Head(wire) # LF
         THEN body' = Append(body, Head(wire)) /\ UNCHANGED reader
         ELSE reader' = "check" /\ UNCHANGED body
      /\ UNCHANGED <<script, sent, broken, head, got>>
  BY DEF ReadHashLine, Take
<1>2. /\ Ahead(script, sent, h) /\ wire \in Seq(T) /\ body \in Seq(T) /\ got = << >>
      /\ Without(body, LF) /\ body \o wire = SecondAnd(File, h[1]) /\ sent >= 1 /\ head = Heading(File)
  BY <1>1 DEF UploadAt
<1>3. sent \in Nat /\ IsFile(script, File)
  BY TheFile
<1>5. h[1] \in Seq(T)
  BY <1>2, UploadTail
<1>6. line \in Seq(T) /\ rest \in Seq(T) /\ LF \in T /\ Without(line, LF)
      /\ SecondAnd(File, h[1]) = line \o (<<LF>> \o rest)
  <2>1. LF \in T /\ Without(line, LF)
    BY <1>3 DEF IsFile
  <2>2. line \in Seq(T) /\ rest \in Seq(T)
    <3> DEFINE r == h[1]
               f == File
    <3>1. r \in Seq(T) /\ IsFile(script, f)
      BY <1>3, <1>5
    <3> HIDE DEF r, f
    <3>2. HashLine(f) \in Seq(T) /\ DataAnd(f, r) \in Seq(T)
      BY <3>1, Lines
    <3> QED BY <3>2 DEF r, f
  <2>3. SecondAnd(File, h[1]) = line \o (<<LF>> \o rest)
    BY DEF SecondAnd
  <2> QED BY <2>1, <2>2, <2>3
<1>7. /\ Head(wire) # LF =>
           /\ Append(body, Head(wire)) \in Seq(T) /\ Without(Append(body, Head(wire)), LF)
           /\ Append(body, Head(wire)) \o Tail(wire) = SecondAnd(File, h[1])
      /\ Head(wire) = LF => body = line /\ Tail(wire) = rest
      /\ Tail(wire) \in Seq(T)
  <2> HIDE DEF T, line, rest
  <2>1. Midway(T, line, LF, rest, body, wire)
    BY <1>2, <1>6 DEF Midway
  <2>2. /\ Head(wire) # LF => Midway(T, line, LF, rest, Append(body, Head(wire)), Tail(wire))
        /\ Head(wire) = LF => body = line /\ Tail(wire) = rest
        /\ Tail(wire) \in Seq(T)
    BY <1>1, <2>1, LineStep
  <2> QED BY <1>6, <2>2 DEF Midway
<1>8. File' = File /\ Ahead(script', sent', h) /\ wire' \in Seq(Tokens(script')) /\ got' = << >>
      /\ sent' >= 1 /\ head' = Heading(File')
  BY <1>1, <1>2, <1>7 DEF File
<1>9. CASE Head(wire) # LF
  <2>1. reader' = "peek" /\ body' = Append(body, Head(wire))
    BY <1>1, <1>9
  <2>2. body' \in Seq(Tokens(script')) /\ Without(body', LF) /\ body' \o wire' = SecondAnd(File', h[1])
    BY <1>1, <1>7, <1>8, <1>9, <2>1
  <2> QED BY <1>8, <2>1, <2>2 DEF UploadAt
<1>10. CASE Head(wire) = LF
  <2>1. reader' = "check" /\ body' = line /\ wire' = rest
    BY <1>1, <1>7, <1>10
  <2>2. body' \in Seq(Tokens(script')) /\ body' = HashLine(File') /\ wire' = DataAnd(File', h[1])
    BY <1>1, <1>6, <1>8, <2>1
  <2> QED BY <1>8, <2>1, <2>2 DEF UploadAt
<1> QED BY <1>9, <1>10

\* What there is of a line is taken when the connection goes; nothing follows.
LEMMA UploadHashFails ==
  ASSUME Common, script.type = "Upload", NEW h, UploadAt(h), ReadHashFails
  PROVE  UploadAt(h)'
<1>1. /\ reader = "peek" /\ broken /\ reader' = "check" /\ wire' = << >>
      /\ UNCHANGED <<script, sent, broken, body, head, got>>
  BY DEF ReadHashFails, frame
<1>2. Ahead(script, sent, h) /\ body \in Seq(Tokens(script)) /\ got = << >> /\ head = Heading(File)
  BY <1>1 DEF UploadAt
<1>3. File' = File /\ Lost' /\ wire' \in Seq(Tokens(script'))
  BY <1>1 DEF File, Lost
<1> QED BY <1>1, <1>2, <1>3 DEF UploadAt

\* The second line is the digest, and the receiver then has the whole header.
LEMMA UploadCheck ==
  ASSUME Common, script.type = "Upload", Plain(script), NEW h, UploadAt(h), CheckUpload
  PROVE  UploadAt(h)'
<1>1. /\ reader = "check"
      /\ head' = [FileName |-> head.FileName, SizeBytes |-> head.SizeBytes,
                  ReceiptID |-> head.ReceiptID,
                  Sha256 |-> IF IsHash(body) THEN SubSeq(body, 3, Len(body)) ELSE << >>]
      /\ body' = IF IsHash(body) THEN << >> ELSE body
      /\ reader' \in {"data", "refused"}
      /\ UNCHANGED <<script, sent, wire, broken, got>>
  BY DEF CheckUpload
<1>2. /\ Ahead(script, sent, h) /\ wire \in Seq(Tokens(script)) /\ body \in Seq(Tokens(script)) /\ got = << >>
      /\ head = Heading(File)
      /\ Lost \/ (sent >= 1 /\ body = HashLine(File) /\ wire = DataAnd(File, h[1]))
  BY <1>1 DEF UploadAt
<1>3. IsFile(script, File)
  BY TheFile
<1>4. << >> \in Seq(Tokens(script)) /\ body' \in Seq(Tokens(script))
  BY <1>1, <1>2
<1>5. File' = File /\ Lost' = Lost
  BY <1>1 DEF File, Lost
<1>6. ASSUME ~Lost
      PROVE  sent' >= 1 /\ head' = FullHeading(File) /\ Without(body', Fin) /\ body' \o wire' = DataAnd(File, h[1])
  <2>1. IsHash(body) /\ SubSeq(body, 3, Len(body)) = File.Sha256
    <3> DEFINE f == File
    <3>1. {":", "HASH"} \subseteq Tokens(script) /\ f.Sha256 \in Seq(Tokens(script))
      BY <1>3 DEF IsFile
    <3> HIDE DEF f
    <3>2. IsHash(HashLine(f)) /\ SubSeq(HashLine(f), 3, Len(HashLine(f))) = f.Sha256
      BY <3>1, HashRoundTrip
    <3>3. body = HashLine(f)
      BY <1>2, <1>6 DEF f
    <3> QED BY <3>2, <3>3 DEF f
  <2>2. head' = FullHeading(File)
    <3>1. head.FileName = File.FileName /\ head.SizeBytes = File.SizeBytes /\ head.ReceiptID = File.ReceiptID
      BY <1>2 DEF Heading
    <3> QED BY <1>1, <2>1, <3>1 DEF FullHeading
  <2>3. body' = << >> /\ wire' = DataAnd(File, h[1]) /\ wire \in Seq(Tokens(script)) /\ sent' >= 1
    BY <1>1, <1>2, <1>6, <2>1
  <2>4. << >> \o wire = wire
    BY <2>3
  <2>5. Without(<< >>, Fin)
    BY DEF Without
  <2>6. wire' = wire
    BY <1>1
  <2>7. body' \o wire' = DataAnd(File, h[1])
    <3> DEFINE d == DataAnd(File, h[1])
    <3>1. wire = d
      BY <2>3, <2>6
    <3> HIDE DEF d
    <3>2. body' \o wire' = << >> \o wire
      BY <2>3, <2>6
    <3> QED BY <2>4, <3>1, <3>2 DEF d
  <2> QED BY <2>2, <2>3, <2>5, <2>7
<1> QED BY <1>1, <1>2, <1>4, <1>5, <1>6 DEF UploadAt

\* The content ends where the stream does, and what is stored is the file.
LEMMA UploadData ==
  ASSUME Common, script.type = "Upload", Plain(script), NEW h, UploadAt(h), ReadData
  PROVE  UploadAt(h)' /\ (got' # got => got = << >> /\ sent >= 1 /\ got' = Append(got, File))
<1> DEFINE T == Tokens(script)
           line == File.Content
           rest == h[1]
<1>1. /\ reader = "data" /\ wire # << >> /\ wire' = Tail(wire)
      /\ IF Head(wire) # Fin
         THEN body' = Append(body, Head(wire)) /\ UNCHANGED <<reader, got>>
         ELSE got' = Append(got, Stored(body)) /\ reader' = "done" /\ UNCHANGED body
      /\ UNCHANGED <<script, sent, broken, head>>
  BY DEF ReadData, Take
<1>2. /\ Ahead(script, sent, h) /\ wire \in Seq(T) /\ body \in Seq(T) /\ got = << >>
      /\ Without(body, Fin) /\ body \o wire = DataAnd(File, h[1]) /\ sent >= 1 /\ head = FullHeading(File)
  BY <1>1 DEF UploadAt, Lost
<1>3. sent \in Nat /\ IsFile(script, File)
  BY TheFile
<1>4. rest \in Seq(T)
  BY <1>2, UploadTail
<1>5. line \in Seq(T) /\ Fin \in T /\ Without(line, Fin)
  BY <1>3 DEF IsFile
<1>6. DataAnd(File, h[1]) = line \o (<<Fin>> \o rest)
  BY DEF DataAnd
<1>7. /\ Head(wire) # Fin => Midway(T, line, Fin, rest, Append(body, Head(wire)), Tail(wire))
      /\ Head(wire) = Fin => body = line /\ Tail(wire) = rest
      /\ Tail(wire) \in Seq(T)
  <2> HIDE DEF T, line, rest
  <2>1. Midway(T, line, Fin, rest, body, wire)
    BY <1>2, <1>4, <1>5, <1>6 DEF Midway
  <2> QED BY <1>1, <2>1, LineStep
<1>8. File' = File /\ Ahead(script', sent', h) /\ wire' \in Seq(Tokens(script'))
      /\ sent' >= 1 /\ head' = FullHeading(File')
  BY <1>1, <1>2, <1>7 DEF File
<1>9. CASE Head(wire) # Fin
  <2>1. reader' = "data" /\ body' = Append(body, Head(wire)) /\ got' = got
    BY <1>1, <1>9
  <2>2. body' \in Seq(Tokens(script')) /\ Without(body', Fin) /\ body' \o wire' = DataAnd(File', h[1])
    BY <1>1, <1>6, <1>7, <1>8, <1>9, <2>1 DEF Midway
  <2> QED BY <1>2, <1>8, <2>1, <2>2 DEF UploadAt
<1>10. CASE Head(wire) = Fin
  <2>1. reader' = "done" /\ body' = line /\ wire' = rest /\ got' = Append(got, Stored(body))
    BY <1>1, <1>7, <1>10
  <2>2. Stored(body) = File
    <3> DEFINE f == File
    <3>1. f = [FileName |-> f.FileName, SizeBytes |-> f.SizeBytes, ReceiptID |-> f.ReceiptID,
               Sha256 |-> f.Sha256, Content |-> f.Content,
               Place |-> Elements(JoinPath(<<script.base, f.FileName>>))]
      BY <1>3 DEF IsFile
    <3>2. /\ head.FileName = f.FileName /\ head.SizeBytes = f.SizeBytes /\ head.ReceiptID = f.ReceiptID
          /\ head.Sha256 = f.Sha256
      BY <1>2 DEF FullHeading
    <3>3. body = f.Content
      BY <1>7, <1>10
    <3> HIDE DEF f
    <3>4. Stored(body) = [FileName |-> f.FileName, SizeBytes |-> f.SizeBytes, ReceiptID |-> f.ReceiptID,
               Sha256 |-> f.Sha256, Content |-> f.Content,
               Place |-> Elements(JoinPath(<<script.base, f.FileName>>))]
      BY <3>2, <3>3 DEF Stored
    <3> QED BY <3>1, <3>4 DEF f
  <2>3. got' = Append(got, File) /\ got' = <<File>>
    BY <1>2, <2>1, <2>2
  <2>4. body' \in Seq(Tokens(script'))
    BY <1>1, <1>5, <2>1
  <2> HIDE DEF T, line
  <2> QED BY <1>2, <1>8, <2>1, <2>3, <2>4 DEF UploadAt
<1> QED BY <1>9, <1>10

\* A step that reads nothing.
LEMMA UploadStays ==
  ASSUME NEW h, UploadAt(h), UNCHANGED <<script, sent, wire, body, head, got>>,
         \/ reader' = reader /\ (broken => broken')
         \/ reader' = "error" /\ reader # "done" /\ broken'
  PROVE  UploadAt(h)'
<1>2. File' = File
  BY DEF File
<1>3. CASE reader' = reader /\ (broken => broken')
  <2>1. Lost => Lost'
    BY <1>3 DEF Lost
  <2> QED BY <1>2, <1>3, <2>1 DEF UploadAt
<1>4. CASE reader' = "error" /\ reader # "done" /\ broken'
  BY <1>4 DEF UploadAt
<1> QED BY <1>3, <1>4

\* A step of a data stream.
LEMMA UploadStep ==
  ASSUME Common, UploadReader, script.type = "Upload", Plain(script), NEW h, UploadAt(h), Next
  PROVE  UploadInv'
<1>1. reader \in {"header", "peek", "check", "data", "done", "refused", "error"}
  BY DEF UploadReader
<1>2. ~ReadLength /\ ~ReadBody /\ ~DecodeFrame
  BY <1>1 DEF ReadLength, ReadBody, DecodeFrame
<1>3. ASSUME UploadAt(h)' PROVE UploadInv'
  BY <1>3 DEF UploadInv
<1>4. CASE WriteFrame
  BY <1>4, UploadWrite
<1>5. CASE ReadFails
  <2>1. UNCHANGED <<script, sent, wire, body, head, got>> /\ reader' = "error" /\ broken' /\ reader # "done"
    BY <1>5 DEF ReadFails
  <2> QED BY <1>3, <2>1, UploadStays
<1>6. CASE ReadHeaderLine
  BY <1>3, <1>6, UploadHeader
<1>7. CASE ReadHashLine
  BY <1>3, <1>7, UploadHash
<1>8. CASE ReadHashFails
  BY <1>3, <1>8, UploadHashFails
<1>9. CASE CheckUpload
  BY <1>3, <1>9, UploadCheck
<1>10. CASE ReadData
  BY <1>3, <1>10, UploadData
<1>11. CASE Break
  <2>1. UNCHANGED <<script, sent, wire, body, head, got>> /\ reader' = reader /\ broken'
    BY <1>11 DEF Break
  <2> QED BY <1>3, <2>1, UploadStays
<1> QED BY <1>2, <1>4, <1>5, <1>6, <1>7, <1>8, <1>9, <1>10, <1>11 DEF Next, Reader

-----------------------------------------------------------------------------
(***************************************************************************)
(* All streams.                                                            *)
(***************************************************************************)
\* The names on all streams are plain.
PlainScripts == \A s \in Scripts : Plain(s)

\* The invariant holds at the beginning,
LEMMA ArriveInit == Init => ArriveInv
BY StreamInit, UploadInit DEF ArriveInv

\* and every step keeps it.
LEMMA ArriveStep ==
  ASSUME PlainScripts, ArriveInv, [Next]_vars
  PROVE  ArriveInv'
<1>0. StreamInv /\ UploadInv /\ Common /\ UploadReader /\ Plain(script)
  BY DEF ArriveInv, StreamInv, PlainScripts, Common
<1>1. StreamInv'
  BY <1>0, StreamStep
<1>2. script' = script
  BY DEF Next, Reader, WriteFrame, ReadLength, ReadBody, DecodeFrame, ReadFails, ReadHeaderLine,
         ReadHashLine, ReadHashFails, CheckUpload, ReadData, Break, vars
<1>3. UploadInv'
  <2>1. CASE script.type # "Upload"
    BY <1>2, <2>1 DEF UploadInv
  <2>2. CASE script.type = "Upload" /\ Next
    <3>1. PICK h : UploadAt(h)
      BY <1>0, <2>2 DEF UploadInv
    <3> QED BY <1>0, <2>2, <3>1, UploadStep
  <2>3. CASE script.type = "Upload" /\ UNCHANGED vars
    <3>1. PICK h : UploadAt(h)
      BY <1>0, <2>3 DEF UploadInv
    <3>2. UNCHANGED <<script, sent, wire, body, head, got>> /\ reader' = reader /\ broken' = broken
      BY <2>3 DEF vars
    <3>3. UploadAt(h)'
      BY <3>1, <3>2, UploadStays
    <3> QED BY <3>3 DEF UploadInv
  <2> QED BY <2>1, <2>2, <2>3
<1> QED BY <1>1, <1>3 DEF ArriveInv

\* Something of a frame that has been written but not read is on its way.
LEMMA NotEmpty ==
  ASSUME NEW s, Writable(s), NEW n \in 0..Len(s.frames), NEW h, Ahead(s, n, h), NEW k \in 0..n, h[k] = << >>
  PROVE  k = n
<1> SUFFICES ASSUME k # n PROVE FALSE
  OBVIOUS
<1> DEFINE i == k + 1
<1>1. Len(s.frames) \in Nat
  BY ScriptFrames
<1>2. i \in 1..n /\ i \in 0..n /\ i \in 1..Len(s.frames) /\ i - 1 = k
  BY <1>1
<1> HIDE DEF i
<1> DEFINE e == EncodeOf(s, s.frames[i])
           r == h[i]
<1>3. e \in Seq(Symbols(s)) /\ e # << >> /\ r \in Seq(Symbols(s)) /\ h[k] = e \o r
  <2>1. e \in Seq(Symbols(s)) /\ e # << >>
    BY <1>2, EncodeType
  <2>2. r \in Seq(Symbols(s)) /\ h[i - 1] = e \o r
    BY <1>2 DEF Ahead
  <2> QED BY <1>2, <2>1, <2>2
<1> HIDE DEF e, r
<1>4. e \o r # << >>
  BY <1>3
<1> QED BY <1>3, <1>4

\* What the invariant says of the frames that have arrived.
LEMMA ArrivesFollow == ArriveInv => EveryFrameArrives
<1> SUFFICES ASSUME ArriveInv PROVE EveryFrameArrives
  OBVIOUS
<1>0. Common /\ ControlInv /\ UploadInv /\ UploadReader
  BY DEF ArriveInv, StreamInv
<1>1. Writable(script) /\ sent \in 0..Len(script.frames) /\ sent \in Nat
  BY <1>0, ScriptWritable DEF Common
<1>2. CASE script.type # "Upload"
  <2>1. PICK k, h : ControlAt(k, h)
    BY <1>0, <1>2 DEF ControlInv
  <2>2. k \in 0..sent /\ k \in Nat /\ Ahead(script, sent, h) /\ Len(got) = k
    <3>1. k \in 0..sent /\ Ahead(script, sent, h) /\ got = FirstOf(script, k)
      BY <2>1 DEF ControlAt
    <3> QED BY <1>1, <3>1, AppendNext
  <2>3. ASSUME reader = "length", wire = << >> PROVE k = sent
    <3>1. AtLength(k, h)
      BY <2>1, <2>3 DEF ControlAt
    <3>2. CASE k < sent
      <4>1. PICK v \in Nat : wire = AppendVarint[v] \o (BytesOf(script, k + 1) \o h[k + 1])
        <5>1. k # sent
          BY <1>1, <2>2, <3>2
        <5> QED BY <3>1, <5>1 DEF AtLength
      <4> DEFINE a == AppendVarint[v]
                 m == BytesOf(script, k + 1)
                 r == h[k + 1]
      <4>2. a \in Seq(Byte) /\ a # << >>
        BY AppendVarintType, AppendVarintShort, AppendVarintLong
      <4>3. m \in Seq(Byte) /\ r \in Seq(Byte)
        BY <1>1, <1>2, <2>2, <3>2, NextBytes
      <4> HIDE DEF a, m, r
      <4>4. a \o (m \o r) # << >>
        BY <4>2, <4>3, BytesConcat
      <4> QED BY <2>3, <4>1, <4>4 DEF a, m, r
    <3>3. k = sent \/ k < sent
      BY <2>2, <1>1
    <3> QED BY <3>2, <3>3
  <2>4. ASSUME reader = "done", wire = << >> PROVE k = sent
    <3>1. h[k] = << >>
      BY <2>1, <2>4 DEF ControlAt
    <3> QED BY <1>1, <2>2, <3>1, NotEmpty
  <2>5. reader = "error" => broken
    BY <2>1 DEF ControlAt
  <2> QED BY <2>2, <2>3, <2>4, <2>5 DEF EveryFrameArrives
<1>3. CASE script.type = "Upload"
  <2>1. PICK h : UploadAt(h)
    BY <1>0, <1>3 DEF UploadInv
  <2>2. reader # "length"
    BY <1>0, <1>3 DEF UploadReader
  <2>3. ASSUME reader = "done", wire = << >> PROVE Len(got) = sent
    <3>1. sent >= 1 /\ got = <<File>> /\ h[1] = << >> /\ Ahead(script, sent, h)
      BY <2>1, <2>3 DEF UploadAt
    <3>2. 1 \in 0..sent
      BY <1>1, <3>1
    <3>3. 1 = sent
      BY <1>1, <3>1, <3>2, NotEmpty
    <3> QED BY <3>1, <3>3
  <2>4. reader = "error" => broken
    BY <2>1 DEF UploadAt
  <2> QED BY <1>3, <2>2, <2>3, <2>4 DEF EveryFrameArrives
<1> QED BY <1>2, <1>3

\* Every frame that is written can be read: no error as long as the connection
\* holds, and all frames when nothing is on its way (EveryFrameArrives;
\* proto.go:120-165, quic.go:605-667).
THEOREM EveryFrameArrivesAlways ==
  ASSUME PlainScripts
  PROVE  Spec => []EveryFrameArrives
<1>1. Init => ArriveInv
  BY ArriveInit
<1>2. ArriveInv /\ [Next]_vars => ArriveInv'
  BY ArriveStep
<1>3. ArriveInv => EveryFrameArrives
  BY ArrivesFollow
<1> QED BY <1>1, <1>2, <1>3, PTL DEF Spec

-----------------------------------------------------------------------------

\* What has been sent over the channel.
LEMMA ArrivedFirst == ArriveInv => Arrived = FirstOf(script, sent)
<1> SUFFICES ASSUME ArriveInv PROVE Arrived = FirstOf(script, sent)
  OBVIOUS
<1>1. Common
  BY DEF ArriveInv, StreamInv
<1>2. Writable(script) /\ sent \in 0..Len(script.frames) /\ Len(script.frames) \in Nat
  BY <1>1, ScriptWritable, ScriptFrames DEF Common
<1>3. \A i \in 1..sent : i \in 1..Len(script.frames)
  BY <1>2
<1>4. \A i \in 1..sent :
        Delivered(script)[i] =
          IF script.type = "Upload" THEN script.frames[i] ELSE Normal(script.type, script.frames[i])
  BY <1>3 DEF Delivered
<1> QED BY <1>4 DEF Arrived, FirstOf

\* The first n frames, and one more.
LEMMA FirstOfs ==
  ASSUME NEW s, NEW n \in Nat
  PROVE  /\ Len(FirstOf(s, n)) = n
         /\ \A i \in 1..n : FirstOf(s, n)[i] = Delivered(s)[i]
         /\ SubSeq(FirstOf(s, n + 1), 1, n) = FirstOf(s, n)
<1> DEFINE f == Delivered(s)
<1> HIDE DEF f
<1>1. /\ Len([i \in 1..n |-> f[i]]) = n
      /\ SubSeq([i \in 1..(n + 1) |-> f[i]], 1, n) = [i \in 1..n |-> f[i]]
  OBVIOUS
<1> QED BY <1>1 DEF FirstOf, f

\* Every step of the stream is a step of the channel, or none.
LEMMA ChannelStep ==
  ASSUME PlainScripts, ArriveInv, ArriveInv', [Next]_vars
  PROVE  [Channel!Send \/ Channel!Deliver]_<<Arrived, got>>
<1>0. Common /\ ControlInv /\ UploadInv /\ UploadReader /\ Plain(script)
  BY DEF ArriveInv, StreamInv, PlainScripts, Common
<1>1. sent \in Nat /\ Arrived = FirstOf(script, sent) /\ Arrived' = FirstOf(script', sent')
  <2>1. ArriveInv' => (Arrived = FirstOf(script, sent))'
    BY ArrivedFirst, PTL
  <2> QED BY <1>0, <2>1, ArrivedFirst DEF Common
<1>2. script' = script
  BY DEF Next, Reader, WriteFrame, ReadLength, ReadBody, DecodeFrame, ReadFails, ReadHeaderLine,
         ReadHashLine, ReadHashFails, CheckUpload, ReadData, Break, vars
<1>3. CASE UNCHANGED <<sent, got>>
  <2>1. Arrived' = Arrived
    BY <1>1, <1>2, <1>3
  <2> QED BY <1>3, <2>1
<1>4. CASE WriteFrame
  <2>1. sent' = sent + 1 /\ got' = got
    BY <1>4 DEF WriteFrame
  <2>2. Len(Arrived) = sent /\ Len(Arrived') = sent + 1 /\ SubSeq(Arrived', 1, sent) = Arrived
    BY <1>1, <1>2, <2>1, FirstOfs
  <2>3. Channel!Send
    BY <2>1, <2>2 DEF Channel!Send
  <2> QED BY <2>3
<1>5. ASSUME sent' = sent, NEW k \in 0..sent, k < sent, Len(got) = k,
             got' = Append(got, Delivered(script)[k + 1])
      PROVE  Channel!Deliver
  <2>1. Len(Arrived) = sent /\ Arrived' = Arrived
    BY <1>1, <1>2, <1>5, FirstOfs
  <2>2. k + 1 \in 1..sent
    BY <1>1, <1>5
  <2>3. Arrived[k + 1] = Delivered(script)[k + 1]
    BY <1>1, <2>2, FirstOfs
  <2> QED BY <1>5, <2>1, <2>3 DEF Channel!Deliver
<1>6. CASE DecodeFrame
  <2>1. sent' = sent /\ script.type # "Upload"
    BY <1>0, <1>6 DEF DecodeFrame, UploadReader
  <2>2. PICK k, h : ControlAt(k, h)
    BY <1>0, <2>1 DEF ControlInv
  <2>3. k < sent /\ got' = Append(got, Delivered(script)[k + 1])
    BY <1>0, <1>6, <2>1, <2>2, ControlDecode
  <2>4. k \in 0..sent /\ Len(got) = k
    <3>1. k \in 0..sent /\ got = FirstOf(script, k)
      BY <2>2 DEF ControlAt
    <3> QED BY <1>1, <3>1, FirstOfs
  <2> QED BY <1>5, <2>1, <2>3, <2>4
<1>7. CASE ReadData
  <2>1. sent' = sent
    BY <1>7 DEF ReadData
  <2>2. script.type = "Upload"
    <3>1. reader = "data"
      BY <1>7 DEF ReadData
    <3>2. \A k, h : ~ControlAt(k, h)
      BY <3>1 DEF ControlAt
    <3> QED BY <1>0, <3>2 DEF ControlInv
  <2>3. PICK h : UploadAt(h)
    BY <1>0, <2>2 DEF UploadInv
  <2>4. got' # got => got = << >> /\ sent >= 1 /\ got' = Append(got, File)
    BY <1>0, <1>7, <2>2, <2>3, UploadData
  <2>5. CASE got' # got
    <3>1. 1 \in 1..Len(script.frames)
      BY <1>0, ScriptWritable, ScriptFrames
    <3>2. Delivered(script)[1] = File
      BY <2>2, <3>1 DEF Delivered, File
    <3>3. 0 \in 0..sent /\ 0 < sent /\ Len(got) = 0 /\ got' = Append(got, Delivered(script)[0 + 1])
      BY <1>1, <2>4, <2>5, <3>2
    <3> QED BY <1>5, <2>1, <3>3
  <2> QED BY <1>3, <2>1, <2>5
<1>8. CASE UNCHANGED vars
  BY <1>3, <1>8 DEF vars
<1>9. CASE ReadLength \/ ReadBody \/ ReadFails \/ ReadHeaderLine \/ ReadHashLine \/ ReadHashFails
           \/ CheckUpload \/ Break
  <2>1. UNCHANGED <<sent, got>>
    BY <1>9 DEF ReadLength, ReadBody, ReadFails, ReadHeaderLine, ReadHashLine, ReadHashFails, CheckUpload, Break
  <2> QED BY <1>3, <2>1
<1> QED BY <1>4, <1>6, <1>7, <1>8, <1>9 DEF Next, Reader

\* A stream implements the channel: what is written arrives whole, in order and
\* at most once, however the bytes are split and wherever the connection breaks
\* (WholeFrames; proto.go:120-165, quic.go:258-275, 605-692).
THEOREM WireRefinesChannel ==
  ASSUME PlainScripts
  PROVE  Spec => WholeFrames
<1>1. Init => ArriveInv
  BY ArriveInit
<1>2. ArriveInv /\ [Next]_vars => ArriveInv'
  BY ArriveStep
<1>3. Init => Channel!Init
  <2>1. Init => sent = 0 /\ got = << >>
    BY DEF Init
  <2>2. sent = 0 => Arrived = << >>
    BY DEF Arrived
  <2> QED BY <2>1, <2>2 DEF Channel!Init
<1>4. ArriveInv /\ ArriveInv' /\ [Next]_vars => [Channel!Send \/ Channel!Deliver]_<<Arrived, got>>
  BY ChannelStep
<1> QED BY <1>1, <1>2, <1>3, <1>4, PTL DEF Spec, WholeFrames, Channel!Spec
=============================================================================
