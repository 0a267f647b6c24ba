----------------------------- MODULE CodecProofs ----------------------------
(***************************************************************************)
(* Theorems about Codec, for integers of any width: a number, a field and  *)
(* a message that have been encoded are decoded as what they were,         *)
(* whatever follows them.                                                  *)
(*                                                                         *)
(* AppendVarint, Varint and DecodeFields are recursive functions.  That    *)
(* each is what its definition says, and what it computes for every number *)
(* or sequence of bytes, is shown by induction: a set of numbers that has  *)
(* no least element is empty.                                              *)
(***************************************************************************)
EXTENDS Codec, WellFoundedInduction, SequenceTheorems, TLAPS

\* A set of numbers that has 0, and with n also n + 1, is Nat: without it, it
\* would lack a least number.
LEMMA SetInduction ==
  ASSUME NEW S \in SUBSET Nat, 0 \in S, \A n \in S : n + 1 \in S
  PROVE  S = Nat
<1> SUFFICES ASSUME S # Nat PROVE FALSE
  OBVIOUS
<1> DEFINE T == Nat \ S
<1>1. PICK x \in T : \A y \in T : ~ (<<y, x>> \in OpToRel(<, Nat))
  <2>1. T \subseteq Nat /\ T # {}
    OBVIOUS
  <2> QED BY <2>1, WFMin, NatLessThanWellFounded
<1>2. \A y \in T : ~(y < x)
  BY <1>1 DEF OpToRel
<1>3. x # 0 /\ x - 1 \in Nat /\ x - 1 < x
  OBVIOUS
<1>4. x - 1 \in S
  BY <1>2, <1>3
<1>5. (x - 1) + 1 \in S
  BY <1>4
<1> QED BY <1>5

\* A recursion over D: what x is mapped to is said by base, or made by step
\* of what a smaller element is mapped to.
IsRecursion(D, V, size, stop, prev, base, step) ==
  /\ size \in [D -> Nat] /\ stop \in SUBSET D /\ prev \in [D -> D]
  /\ \A x \in D \ stop : size[prev[x]] < size[x]
  /\ base \in [D -> V] /\ step \in [D -> [V -> V]]

\* g does what the recursion says.
IsSolution(g, D, V, stop, prev, base, step) ==
  /\ g \in [D -> V]
  /\ \A x \in D : g[x] = IF x \in stop THEN base[x] ELSE step[x][g[prev[x]]]

\* There is a solution, and it is what CHOOSE takes: the definition holds of it.
LEMMA Recursion ==
  ASSUME NEW D, NEW V, NEW size, NEW stop, NEW prev, NEW base, NEW step,
         IsRecursion(D, V, size, stop, prev, base, step)
  PROVE  \E g : IsSolution(g, D, V, stop, prev, base, step)
<1> SUFFICES ASSUME size \in [D -> Nat], stop \in SUBSET D, prev \in [D -> D],
                    \A x \in D \ stop : size[prev[x]] < size[x],
                    base \in [D -> V], step \in [D -> [V -> V]]
             PROVE  \E g \in [D -> V] :
                      \A x \in D : g[x] = IF x \in stop THEN base[x] ELSE step[x][g[prev[x]]]
  BY DEF IsRecursion, IsSolution
<1> DEFINE Upto(n) == {x \in D : size[x] <= n}
           R(h, x) == IF x \in stop THEN base[x] ELSE step[x][h[prev[x]]]
           Good(h, n) == h \in [Upto(n) -> V] /\ \A x \in Upto(n) : h[x] = R(h, x)
           S == {n \in Nat : \E h : Good(h, n)}
<1>1. 0 \in S
  <2> DEFINE h == [x \in Upto(0) |-> base[x]]
  <2>1. ASSUME NEW x \in Upto(0) PROVE x \in stop
    BY DEF Upto
  <2>2. Good(h, 0)
    BY <2>1
  <2>3. \E f : Good(f, 0)
    <3> HIDE DEF Good, h
    <3> QED BY <2>2
  <2> QED BY <2>3
<1>2. ASSUME NEW n \in S PROVE n + 1 \in S
  <2>1. PICK h : Good(h, n)
    OBVIOUS
  <2> DEFINE k == [x \in Upto(n + 1) |-> IF x \in Upto(n) THEN h[x] ELSE R(h, x)]
  <2>2. ASSUME NEW x \in Upto(n + 1), x \notin stop PROVE prev[x] \in Upto(n)
    BY <2>2
  <2>3. ASSUME NEW x \in Upto(n + 1) PROVE R(h, x) \in V /\ k[x] = R(h, x)
    <3>1. CASE x \in stop
      BY <2>1, <3>1
    <3>2. CASE x \notin stop
      <4>1. h[prev[x]] \in V
        BY <2>1, <2>2, <3>2
      <4>2. step[x] \in [V -> V]
        OBVIOUS
      <4> QED BY <2>1, <3>2, <4>1, <4>2
    <3> QED BY <3>1, <3>2
  <2>4. ASSUME NEW x \in Upto(n + 1) PROVE R(h, x) = R(k, x)
    <3>1. CASE x \in stop
      BY <3>1
    <3>2. CASE x \notin stop
      <4>1. prev[x] \in Upto(n) /\ prev[x] \in Upto(n + 1)
        BY <2>2, <3>2
      <4>2. k[prev[x]] = h[prev[x]]
        BY <4>1
      <4> QED BY <3>2, <4>2
    <3> QED BY <3>1, <3>2
  <2>5. Good(k, n + 1)
    <3>1. k \in [Upto(n + 1) -> V]
      <4>1. ASSUME NEW x \in Upto(n + 1) PROVE k[x] \in V
        BY <2>3
      <4> HIDE DEF Upto, R
      <4> QED BY <4>1
    <3> HIDE DEF k, R, Upto
    <3> QED BY <2>3, <2>4, <3>1
  <2>6. \E f : Good(f, n + 1)
    <3> HIDE DEF Good, k
    <3> QED BY <2>5
  <2> HIDE DEF Good
  <2> QED BY <2>6
<1>3. S = Nat
  <2> HIDE DEF S
  <2> S \in SUBSET Nat BY DEF S
  <2> QED BY <1>1, <1>2, SetInduction
<1>4. ASSUME NEW m \in Nat, NEW h, NEW n \in Nat, NEW k, Good(h, m), Good(k, n)
      PROVE  \A x \in D : size[x] <= m /\ size[x] <= n => h[x] = k[x]
  <2> DEFINE E == {i \in Nat : i <= m /\ i <= n => \A x \in Upto(i) : h[x] = k[x]}
  <2>1. 0 \in E
    <3> SUFFICES ASSUME NEW x \in Upto(0) PROVE h[x] = k[x]
      OBVIOUS
    <3>1. x \in stop /\ x \in Upto(m) /\ x \in Upto(n)
      OBVIOUS
    <3> QED BY <3>1, <1>4
  <2>2. ASSUME NEW i \in E PROVE i + 1 \in E
    <3> SUFFICES ASSUME i + 1 <= m, i + 1 <= n, NEW x \in Upto(i + 1) PROVE h[x] = k[x]
      OBVIOUS
    <3>1. x \in Upto(m) /\ x \in Upto(n)
      OBVIOUS
    <3>2. h[x] = R(h, x) /\ k[x] = R(k, x)
      <4> HIDE DEF Upto, R
      <4> QED BY <3>1, <1>4
    <3>3. CASE x \in stop
      BY <3>2, <3>3
    <3>4. CASE x \notin stop
      <4>1. prev[x] \in Upto(i)
        BY <3>4
      <4>2. h[prev[x]] = k[prev[x]]
        BY <4>1, <2>2
      <4> QED BY <3>2, <3>4, <4>2
    <3> QED BY <3>3, <3>4
  <2>3. E = Nat
    <3> HIDE DEF E
    <3> E \in SUBSET Nat BY DEF E
    <3> QED BY <2>1, <2>2, SetInduction
  <2>4. ASSUME NEW x \in D, size[x] <= m, size[x] <= n PROVE h[x] = k[x]
    <3>1. size[x] \in E /\ x \in Upto(size[x])
      BY <2>3
    <3> QED BY <3>1, <2>4
  <2> QED BY <2>4
<1> DEFINE H(n) == CHOOSE h : Good(h, n)
           F == [x \in D |-> H(size[x])[x]]
<1>5. \A n \in Nat : Good(H(n), n)
  <2> HIDE DEF Good
  <2> QED BY <1>3
<1> HIDE DEF H
<1>6. ASSUME NEW x \in D PROVE F[x] \in V /\ F[x] = R(F, x)
  <2>1. size[x] \in Nat /\ x \in Upto(size[x])
    OBVIOUS
  <2>2. H(size[x])[x] \in V /\ H(size[x])[x] = R(H(size[x]), x)
    <3> HIDE DEF Upto, R
    <3> QED BY <1>5, <2>1
  <2>3. CASE x \in stop
    BY <2>2, <2>3
  <2>4. CASE x \notin stop
    <3>1. size[prev[x]] < size[x] /\ size[prev[x]] \in Nat /\ prev[x] \in D
      BY <2>4
    <3>2. Good(H(size[x]), size[x]) /\ Good(H(size[prev[x]]), size[prev[x]])
      <4> HIDE DEF Good
      <4> QED BY <1>5, <3>1
    <3>3. H(size[x])[prev[x]] = H(size[prev[x]])[prev[x]]
      <4> DEFINE p == prev[x]
                 a == H(size[x])
                 b == H(size[p])
      <4>1. Good(a, size[x]) /\ Good(b, size[p])
        <5> HIDE DEF Good
        <5> QED BY <3>2
      <4>2. p \in D /\ size[p] <= size[x] /\ size[p] <= size[p] /\ size[x] \in Nat /\ size[p] \in Nat
        BY <3>1
      <4> HIDE DEF Good, a, b
      <4>3. \A y \in D : size[y] <= size[x] /\ size[y] <= size[p] => a[y] = b[y]
        BY <1>4, <4>1, <4>2
      <4>4. a[p] = b[p]
        <5> HIDE DEF p
        <5> QED BY <4>2, <4>3
      <4> QED BY <4>4 DEF a, b
    <3> QED BY <2>2, <2>4, <3>1, <3>3
  <2> QED BY <2>3, <2>4
<1>7. F \in [D -> V] /\ \A x \in D : F[x] = R(F, x)
  <2> HIDE DEF R
  <2> QED BY <1>6
<1> HIDE DEF F
<1> QED BY <1>7

\* What holds of an element when it holds of the smaller ones.
IsInductive(G, D, size) ==
  /\ size \in [D -> Nat] /\ G \in SUBSET D
  /\ \A x \in D : (\A y \in D : size[y] < size[x] => y \in G) => x \in G

\* Induction over the size of what is read.
LEMMA SizeInduction ==
  ASSUME NEW D, NEW size, NEW G, IsInductive(G, D, size) PROVE G = D
<1> USE DEF IsInductive
<1> DEFINE E == {n \in Nat : \A x \in D : size[x] <= n => x \in G}
<1>1. 0 \in E
  OBVIOUS
<1>2. ASSUME NEW n \in E PROVE n + 1 \in E
  <2> SUFFICES ASSUME NEW x \in D, size[x] <= n + 1 PROVE x \in G
    OBVIOUS
  <2>1. ASSUME NEW y \in D, size[y] < size[x] PROVE y \in G
    BY <1>2, <2>1
  <2> QED BY <2>1
<1>3. E = Nat
  <2> HIDE DEF E
  <2> E \in SUBSET Nat BY DEF E
  <2> QED BY <1>1, <1>2, SetInduction
<1>4. ASSUME NEW x \in D PROVE x \in G
  <2>1. size[x] \in E
    BY <1>3
  <2> QED BY <2>1
<1> QED BY <1>4

-----------------------------------------------------------------------------
\* The definition of AppendVarint, of f.
VarintBody(f, v) == IF v >= 128 THEN <<Continued(v)>> \o f[v \div 128] ELSE <<v>>

\* AppendVarint is what its definition says.
LEMMA AppendVarintDef == \A v \in Nat : AppendVarint[v] = VarintBody(AppendVarint, v)
<1> DEFINE stop == {v \in Nat : v < 128}
           base == [v \in Nat |-> IF v < 128 THEN <<v>> ELSE << >>]
           prev == [v \in Nat |-> v \div 128]
           size == [v \in Nat |-> v]
           step == [v \in Nat |-> [s \in Seq(Byte) |-> <<Continued(v)>> \o s]]
<1>1. ASSUME NEW v \in Nat PROVE Continued(v) \in Byte /\ (v < 128 => v \in Byte)
  BY DEF Continued, Byte
<1>2. base \in [Nat -> Seq(Byte)]
  BY <1>1
<1>3. step \in [Nat -> [Seq(Byte) -> Seq(Byte)]]
  <2>1. ASSUME NEW v \in Nat, NEW s \in Seq(Byte) PROVE <<Continued(v)>> \o s \in Seq(Byte)
    BY <1>1
  <2> QED BY <2>1
<1>4. stop \in SUBSET Nat /\ prev \in [Nat -> Nat] /\ size \in [Nat -> Nat]
  OBVIOUS
<1>5. \A v \in Nat \ stop : size[prev[v]] < size[v]
  OBVIOUS
<1>6. PICK g : IsSolution(g, Nat, Seq(Byte), stop, prev, base, step)
  <2>1. IsRecursion(Nat, Seq(Byte), size, stop, prev, base, step)
    <3> HIDE DEF stop, base, prev, size, step
    <3> QED BY <1>2, <1>3, <1>4, <1>5 DEF IsRecursion
  <2> HIDE DEF stop, base, prev, size, step
  <2> QED BY <2>1, Recursion
<1>7. \A v \in Nat : g[v] = VarintBody(g, v)
  <2> TAKE v \in Nat
  <2>1. v \div 128 \in Nat
    OBVIOUS
  <2>2. g[v \div 128] \in Seq(Byte)
    BY <1>6, <2>1 DEF IsSolution
  <2>3. g[v] = IF v \in stop THEN base[v] ELSE step[v][g[prev[v]]]
    BY <1>6 DEF IsSolution
  <2>4. CASE v < 128
    BY <2>3, <2>4 DEF VarintBody
  <2>5. CASE v >= 128
    <3>1. g[v] = step[v][g[v \div 128]]
      BY <2>3, <2>5
    <3> QED BY <3>1, <2>2, <2>5 DEF VarintBody
  <2> QED BY <2>4, <2>5
<1>8. g = [v \in Nat |-> VarintBody(g, v)]
  <2>1. g \in [Nat -> Seq(Byte)]
    BY <1>6 DEF IsSolution
  <2> QED BY <1>7, <2>1
<1>9. AppendVarint = [v \in Nat |-> VarintBody(AppendVarint, v)]
  BY <1>8 DEF AppendVarint, VarintBody
<1> QED BY <1>9

\* A number is written as bytes.
LEMMA AppendVarintType == ASSUME NEW v \in Nat PROVE AppendVarint[v] \in Seq(Byte)
<1> DEFINE G == {u \in Nat : AppendVarint[u] \in Seq(Byte)}
           size == [u \in Nat |-> u]
<1>1. ASSUME NEW u \in Nat, \A w \in Nat : w < u => AppendVarint[w] \in Seq(Byte)
      PROVE AppendVarint[u] \in Seq(Byte)
  <2>1. AppendVarint[u] = VarintBody(AppendVarint, u)
    BY AppendVarintDef
  <2>2. CASE u < 128
    <3>1. u \in Byte
      BY <2>2 DEF Byte
    <3>2. AppendVarint[u] = <<u>>
      BY <2>1, <2>2 DEF VarintBody
    <3> QED BY <3>1, <3>2
  <2>3. CASE u >= 128
    <3>1. Continued(u) \in Byte
      BY DEF Byte, Continued
    <3>2. u \div 128 \in Nat /\ u \div 128 < u
      BY <2>3
    <3>3. AppendVarint[u \div 128] \in Seq(Byte)
      BY <1>1, <3>2
    <3>4. AppendVarint[u] = <<Continued(u)>> \o AppendVarint[u \div 128]
      BY <2>1, <2>3 DEF VarintBody
    <3> QED BY <3>1, <3>3, <3>4
  <2> QED BY <2>2, <2>3
<1>2. IsInductive(G, Nat, size)
  BY <1>1 DEF IsInductive
<1>3. G = Nat
  <2> HIDE DEF G, size
  <2> QED BY <1>2, SizeInduction
<1> QED BY <1>3

\* A number below 128 is its own byte.
LEMMA AppendVarintShort ==
  ASSUME NEW v \in Nat, v < 128
  PROVE  /\ AppendVarint[v] # << >>
         /\ Head(AppendVarint[v]) = v /\ Tail(AppendVarint[v]) = << >>
<1>1. AppendVarint[v] = VarintBody(AppendVarint, v)
  BY AppendVarintDef
<1>2. AppendVarint[v] = <<v>>
  BY <1>1 DEF VarintBody
<1> QED BY ONLY <1>2

\* Another is written seven bits at a time, the low ones first.
LEMMA AppendVarintLong ==
  ASSUME NEW v \in Nat, v >= 128
  PROVE  /\ v \div 128 \in Nat /\ v \div 128 < v
         /\ AppendVarint[v] # << >>
         /\ Head(AppendVarint[v]) = (v % 128) + 128
         /\ Tail(AppendVarint[v]) = AppendVarint[v \div 128]
<1>1. AppendVarint[v] = VarintBody(AppendVarint, v)
  BY AppendVarintDef
<1>2. v \div 128 \in Nat /\ v \div 128 < v
  OBVIOUS
<1>3. AppendVarint[v] = <<Continued(v)>> \o AppendVarint[v \div 128]
  BY <1>1 DEF VarintBody
<1>4. AppendVarint[v \div 128] \in Seq(Byte) /\ Continued(v) \in Byte
  BY <1>2, AppendVarintType DEF Continued, Byte
<1>5. Continued(v) = (v % 128) + 128
  BY DEF Continued
<1> QED BY <1>2, <1>3, <1>4, <1>5

-----------------------------------------------------------------------------
\* How much there is to read.
Sizes == [buf \in Seq(Byte) |-> Len(buf)]

\* Sizes are numbers.
LEMMA SizesType == Sizes \in [Seq(Byte) -> Nat]
BY DEF Sizes

\* The definition of Varint, of f.
ReadVarint(f, buf) ==
  IF buf = << >> THEN Failure
  ELSE IF Head(buf) < 128
  THEN [ok |-> TRUE, value |-> Head(buf), weight |-> 1, rest |-> Tail(buf)]
  ELSE LET more == f[Tail(buf)] IN
       IF ~more.ok THEN Failure
       ELSE [ok |-> TRUE, value |-> (Head(buf) % 128) + 128 * more.value,
             weight |-> 128 * more.weight, rest |-> more.rest]

\* What reading a varint may come to.
Outcomes == {Failure} \cup [ok : {TRUE}, value : Nat, weight : Nat, rest : Seq(Byte)]

\* The number that begins with the byte b and of which more is the rest.
MoreVarint(b, more) ==
  IF ~more.ok THEN Failure
  ELSE [ok |-> TRUE, value |-> (b % 128) + 128 * more.value,
        weight |-> 128 * more.weight, rest |-> more.rest]

\* One more byte in front, and it is an outcome still.
LEMMA MoreVarintType == ASSUME NEW b \in Byte, NEW more \in Outcomes PROVE MoreVarint(b, more) \in Outcomes
<1>1. CASE more = Failure
  BY <1>1 DEF MoreVarint, Failure, Outcomes
<1>2. CASE more \in [ok : {TRUE}, value : Nat, weight : Nat, rest : Seq(Byte)]
  <2>1. more.ok
    BY <1>2
  <2>2. more.value \in Nat /\ more.weight \in Nat /\ more.rest \in Seq(Byte)
    BY <1>2
  <2>3. (b % 128) + 128 * more.value \in Nat /\ 128 * more.weight \in Nat
    BY <2>2 DEF Byte
  <2>4. MoreVarint(b, more) = [ok |-> TRUE, value |-> (b % 128) + 128 * more.value,
        weight |-> 128 * more.weight, rest |-> more.rest]
    BY <2>1 DEF MoreVarint
  <2> QED BY <2>2, <2>3, <2>4 DEF Outcomes
<1> QED BY <1>1, <1>2 DEF Outcomes

\* The first of some bytes, and the others.
LEMMA ByteSeq ==
  ASSUME NEW buf \in Seq(Byte), buf # << >>
  PROVE  /\ Head(buf) \in Byte /\ Head(buf) \in Nat /\ Head(buf) < 256 /\ Tail(buf) \in Seq(Byte)
         /\ Len(Tail(buf)) = Len(buf) - 1 /\ Len(buf) \in Nat /\ Len(buf) > 0
<1>1. Head(buf) \in Byte /\ Tail(buf) \in Seq(Byte) /\ Len(Tail(buf)) = Len(buf) - 1 /\ Len(buf) \in Nat /\ Len(buf) > 0
  OBVIOUS
<1>2. \A b \in Byte : b \in Nat /\ b < 256
  BY DEF Byte
<1> HIDE DEF Byte
<1> QED BY <1>1, <1>2

\* Varint is what its definition says.
LEMMA VarintDef == \A buf \in Seq(Byte) : Varint[buf] = ReadVarint(Varint, buf)
<1> DEFINE D == Seq(Byte)
           stop == {buf \in D : buf = << >> \/ Head(buf) < 128}
           base == [buf \in D |-> IF buf = << >> THEN Failure ELSE
                      IF Head(buf) < 128 THEN [ok |-> TRUE, value |-> Head(buf), weight |-> 1, rest |-> Tail(buf)]
                      ELSE Failure]
           prev == [buf \in D |-> IF buf = << >> THEN << >> ELSE Tail(buf)]
           step == [buf \in D |-> [more \in Outcomes |-> IF buf = << >> THEN Failure ELSE MoreVarint(Head(buf), more)]]
<1>0. Failure \in Outcomes
  BY DEF Outcomes
<1>1. base \in [D -> Outcomes]
  <2>1. ASSUME NEW buf \in D, buf # << >> PROVE [ok |-> TRUE, value |-> Head(buf), weight |-> 1, rest |-> Tail(buf)] \in Outcomes
    <3>1. Head(buf) \in Nat /\ Tail(buf) \in Seq(Byte)
      BY <2>1, ByteSeq
    <3> QED BY <3>1 DEF Outcomes
  <2>2. ASSUME NEW buf \in D PROVE base[buf] \in Outcomes
    BY <2>1, <1>0
  <2> QED BY <2>2
<1>2. step \in [D -> [Outcomes -> Outcomes]]
  <2>1. ASSUME NEW buf \in D, NEW more \in Outcomes PROVE (IF buf = << >> THEN Failure ELSE MoreVarint(Head(buf), more)) \in Outcomes
    BY <1>0, ByteSeq, MoreVarintType
  <2> QED BY <2>1
<1>3. prev \in [D -> D] /\ stop \in SUBSET D
  BY ByteSeq
<1>4. \A buf \in D \ stop : Sizes[prev[buf]] < Sizes[buf]
  <2> SUFFICES ASSUME NEW buf \in D \ stop PROVE Sizes[prev[buf]] < Sizes[buf]
    OBVIOUS
  <2>1. prev[buf] = Tail(buf) /\ buf # << >>
    OBVIOUS
  <2> QED BY <2>1, ByteSeq DEF Sizes
<1>5. PICK g : IsSolution(g, D, Outcomes, stop, prev, base, step)
  <2>1. IsRecursion(D, Outcomes, Sizes, stop, prev, base, step)
    <3> HIDE DEF stop, base, prev, step
    <3> QED BY <1>1, <1>2, <1>3, <1>4, SizesType DEF IsRecursion
  <2> HIDE DEF D, stop, base, prev, step
  <2> QED BY <2>1, Recursion
<1>6. g \in [D -> Outcomes]
  BY <1>5 DEF IsSolution
<1>7. ASSUME NEW buf \in D PROVE g[buf] = ReadVarint(g, buf)
  <2>1. g[buf] = IF buf \in stop THEN base[buf] ELSE step[buf][g[prev[buf]]]
    BY <1>5 DEF IsSolution
  <2>2. CASE buf \in stop
    <3>1. g[buf] = base[buf]
      BY <2>1, <2>2
    <3> QED BY <2>2, <3>1 DEF ReadVarint
  <2>3. CASE buf \notin stop
    <3>1. buf # << >> /\ ~(Head(buf) < 128) /\ prev[buf] = Tail(buf) /\ Tail(buf) \in D
      BY <2>3
    <3>2. g[Tail(buf)] \in Outcomes
      BY <3>1, <1>6
    <3>3. g[buf] = MoreVarint(Head(buf), g[Tail(buf)])
      BY <2>1, <2>3, <3>1, <3>2
    <3> HIDE DEF stop, base, prev, step
    <3> QED BY <3>1, <3>3 DEF ReadVarint, MoreVarint
  <2> QED BY <2>2, <2>3
<1>8. g = [buf \in D |-> ReadVarint(g, buf)]
  BY <1>6, <1>7
<1>9. Varint = [buf \in D |-> ReadVarint(Varint, buf)]
  BY <1>8 DEF Varint, ReadVarint
<1> QED BY <1>9

\* What is in front is read first.
LEMMA ConcatHead ==
  ASSUME NEW S, NEW s \in Seq(S), NEW t \in Seq(S), s # << >>
  PROVE  /\ s \o t \in Seq(S) /\ s \o t # << >>
         /\ Head(s \o t) = Head(s) /\ Tail(s \o t) = Tail(s) \o t /\ Len(s \o t) = Len(s) + Len(t)
<1>1. Tail(s \o t) = Tail(s) \o t
  OBVIOUS
<1> QED BY <1>1

\* The same, for bytes.
LEMMA BytesConcat ==
  ASSUME NEW s \in Seq(Byte), NEW t \in Seq(Byte)
  PROVE  /\ s \o t \in Seq(Byte) /\ Len(s \o t) = Len(s) + Len(t)
         /\ s # << >> => s \o t # << >> /\ Head(s \o t) = Head(s) /\ Tail(s \o t) = Tail(s) \o t
         /\ s = << >> => s \o t = t
         /\ t = << >> => s \o t = s
<1>1. s # << >> => Tail(s \o t) = Tail(s) \o t
  BY ConcatHead
<1> QED BY <1>1

\* A byte in front of others.
LEMMA ConsByte ==
  ASSUME NEW b \in Byte, NEW s \in Seq(Byte)
  PROVE  /\ <<b>> \o s \in Seq(Byte) /\ <<b>> \o s # << >>
         /\ Head(<<b>> \o s) = b /\ Tail(<<b>> \o s) = s
         /\ Len(<<b>> \o s) = 1 + Len(s)
OBVIOUS

\* Nothing before or after changes nothing.
LEMMA EmptyConcat == ASSUME NEW S, NEW t \in Seq(S) PROVE << >> \o t = t /\ t \o << >> = t
OBVIOUS

\* The parts of a success.
LEMMA OutcomeFields ==
  ASSUME NEW o \in Outcomes, o.ok
  PROVE  o.value \in Nat /\ o.weight \in Nat /\ o.rest \in Seq(Byte)
<1>1. CASE o = Failure
  <2>1. o.ok = FALSE
    BY <1>1 DEF Failure
  <2> QED BY <2>1
<1>2. CASE o \in [ok : {TRUE}, value : Nat, weight : Nat, rest : Seq(Byte)]
  BY <1>2
<1> QED BY <1>1, <1>2 DEF Outcomes

\* Reading a varint comes to an outcome and leaves less to read.
LEMMA VarintType ==
  ASSUME NEW buf \in Seq(Byte)
  PROVE  /\ Varint[buf] \in Outcomes
         /\ Varint[buf].ok => Len(Varint[buf].rest) < Len(buf)
<1> DEFINE Good(b) == Varint[b] \in Outcomes /\ (Varint[b].ok => Len(Varint[b].rest) < Len(b))
           G == {b \in Seq(Byte) : Good(b)}
<1>1. ASSUME NEW b \in Seq(Byte), \A c \in Seq(Byte) : Len(c) < Len(b) => Good(c) PROVE Good(b)
  <2>1. Varint[b] = ReadVarint(Varint, b)
    BY VarintDef
  <2>2. CASE b = << >>
    <3>1. Varint[b] = Failure
      BY <2>1, <2>2 DEF ReadVarint
    <3> QED BY <3>1 DEF Failure, Outcomes
  <2>3. CASE b # << >> /\ Head(b) < 128
    <3>1. Varint[b] = [ok |-> TRUE, value |-> Head(b), weight |-> 1, rest |-> Tail(b)]
      BY <2>1, <2>3 DEF ReadVarint
    <3> QED BY <2>3, <3>1, ByteSeq DEF Outcomes
  <2>4. CASE b # << >> /\ ~(Head(b) < 128)
    <3> DEFINE more == Varint[Tail(b)]
    <3>1. Varint[b] = MoreVarint(Head(b), more)
      BY <2>1, <2>4 DEF ReadVarint, MoreVarint
    <3>2. Tail(b) \in Seq(Byte) /\ Len(Tail(b)) < Len(b) /\ Head(b) \in Byte
      BY <2>4, ByteSeq
    <3>3. Good(Tail(b))
      BY <1>1, <3>2
    <3>4. Varint[b] \in Outcomes
      BY <3>1, <3>2, <3>3, MoreVarintType
    <3>5. ASSUME Varint[b].ok PROVE Len(Varint[b].rest) < Len(b)
      <4>1. more.ok
        BY <3>1, <3>5 DEF MoreVarint, Failure
      <4>2. Varint[b].rest = more.rest
        BY <3>1, <4>1 DEF MoreVarint
      <4>3. more.rest \in Seq(Byte)
        BY <3>3, <4>1, OutcomeFields
      <4>4. Len(more.rest) < Len(Tail(b))
        BY <3>3, <4>1
      <4>5. Len(more.rest) \in Nat /\ Len(Tail(b)) \in Nat /\ Len(b) \in Nat
        BY <3>2, <4>3
      <4> HIDE DEF more
      <4> QED BY <3>2, <4>2, <4>4, <4>5
    <3> QED BY <3>4, <3>5
  <2> QED BY <2>2, <2>3, <2>4
<1>2. IsInductive(G, Seq(Byte), Sizes)
  <2> HIDE DEF Good
  <2> QED BY <1>1, SizesType DEF IsInductive, Sizes
<1>3. G = Seq(Byte)
  <2> HIDE DEF G
  <2> QED BY <1>2, SizeInduction
<1> QED BY <1>3

\* What AppendVarint has written is read, whatever follows, and its last byte
\* weighs no more than the number.
LEMMA VarintRoundTrip ==
  ASSUME NEW v \in Nat, NEW r \in Seq(Byte)
  PROVE  LET n == Varint[AppendVarint[v] \o r] IN
         n.ok /\ n.value = v /\ n.rest = r /\ n.weight \in Nat /\ (n.weight <= v \/ n.weight <= 1)
<1> DEFINE n(u) == Varint[AppendVarint[u] \o r]
           Good(u) == n(u).ok /\ n(u).value = u /\ n(u).rest = r /\ n(u).weight \in Nat /\ (n(u).weight <= u \/ n(u).weight <= 1)
           G == {u \in Nat : Good(u)}
           size == [u \in Nat |-> u]
<1>1. ASSUME NEW u \in Nat, \A w \in Nat : w < u => Good(w) PROVE Good(u)
  <2> DEFINE b == AppendVarint[u] \o r
  <2>1. b \in Seq(Byte)
    BY AppendVarintType
  <2>2. Varint[b] = ReadVarint(Varint, b)
    BY <2>1, VarintDef
  <2>3. CASE u < 128
    <3>1. b # << >> /\ Head(b) = u /\ Tail(b) = r
      <4> DEFINE a == AppendVarint[u]
      <4>1. a \in Seq(Byte) /\ a # << >> /\ Head(a) = u /\ Tail(a) = << >>
        BY <2>3, AppendVarintShort, AppendVarintType
      <4> HIDE DEF a
      <4>2. a \o r # << >> /\ Head(a \o r) = Head(a) /\ Tail(a \o r) = Tail(a) \o r
        BY <4>1, BytesConcat
      <4>3. << >> \o r = r
        BY EmptyConcat
      <4> QED BY <4>1, <4>2, <4>3 DEF a
    <3> HIDE DEF b
    <3>2. Varint[b] = [ok |-> TRUE, value |-> u, weight |-> 1, rest |-> r]
      BY <2>2, <2>3, <3>1 DEF ReadVarint
    <3>3. n(u) = [ok |-> TRUE, value |-> u, weight |-> 1, rest |-> r]
      BY <3>2 DEF b
    <3> HIDE DEF n
    <3> QED BY <3>3
  <2>4. CASE u >= 128
    <3> DEFINE w == u \div 128
    <3>1. w \in Nat /\ w < u /\ u = 128 * w + (u % 128) /\ u % 128 \in 0..127 /\ w >= 1
      BY <2>4
    <3>2. b # << >> /\ Head(b) = (u % 128) + 128 /\ Tail(b) = AppendVarint[w] \o r
      <4> DEFINE a == AppendVarint[u]
      <4>1. a \in Seq(Byte) /\ a # << >> /\ Head(a) = (u % 128) + 128 /\ Tail(a) = AppendVarint[w]
        BY <2>4, AppendVarintLong, AppendVarintType
      <4> HIDE DEF a
      <4>2. a \o r # << >> /\ Head(a \o r) = Head(a) /\ Tail(a \o r) = Tail(a) \o r
        BY <4>1, BytesConcat
      <4> QED BY <4>1, <4>2 DEF a
    <3>3. Good(w)
      <4> HIDE DEF Good, w
      <4> QED BY <1>1, <3>1
    <3> DEFINE m == Varint[AppendVarint[w] \o r]
    <3>4. m.ok /\ m.value = w /\ m.rest = r /\ m.weight \in Nat /\ (m.weight <= w \/ m.weight <= 1)
      BY <3>3
    <3> HIDE DEF b, m, w
    <3>5. Varint[b] = [ok |-> TRUE, value |-> (Head(b) % 128) + 128 * m.value, weight |-> 128 * m.weight, rest |-> m.rest]
      <4>1. ~(Head(b) < 128)
        BY <3>1, <3>2
      <4>2. Varint[Tail(b)] = m
        BY <3>2 DEF m
      <4> QED BY <2>2, <3>2, <3>4, <4>1, <4>2 DEF ReadVarint
    <3>6. (Head(b) % 128) + 128 * m.value = u
      <4>1. \A x \in 0..127 : (x + 128) % 128 = x
        OBVIOUS
      <4>2. (Head(b) % 128) = u % 128
        BY <3>1, <3>2, <4>1
      <4> QED BY <3>1, <3>4, <4>2
    <3>7. 128 * m.weight \in Nat /\ 128 * m.weight <= u
      BY <3>1, <3>4
    <3>8. n(u).ok /\ n(u).value = u /\ n(u).rest = r /\ n(u).weight = 128 * m.weight
      <4>1. n(u) = Varint[b]
        BY DEF b
      <4> HIDE DEF n
      <4> QED BY <3>4, <3>5, <3>6, <4>1
    <3> HIDE DEF n
    <3> QED BY <3>7, <3>8
  <2> QED BY <2>3, <2>4
<1>2. IsInductive(G, Nat, size)
  <2> HIDE DEF Good
  <2> QED BY <1>1 DEF IsInductive
<1>3. G = Nat
  <2> HIDE DEF G, size
  <2> QED BY <1>2, SizeInduction
<1> QED BY <1>3

\* A number that is written is read again.
THEOREM NumberRoundTrip ==
  ASSUME NEW v \in 0..(Limit - 1), NEW r \in Seq(Byte)
  PROVE  LET n == DecodeVarint(AppendVarint[v] \o r) IN n.ok /\ n.value = v /\ n.rest = r
<1> DEFINE n == Varint[AppendVarint[v] \o r]
<1>1. v \in Nat /\ v < Limit /\ Limit \in Nat /\ Limit > 1
  BY CodecAssumption DEF CodecAssumption
<1>2. n.ok /\ n.value = v /\ n.rest = r /\ n.weight \in Nat /\ (n.weight <= v \/ n.weight <= 1)
  BY <1>1, VarintRoundTrip
<1> HIDE DEF n
<1>3. ~(n.weight >= Limit) /\ n.value % Limit = v
  <2>1. ~(n.weight >= Limit)
    BY <1>1, <1>2
  <2>2. v % Limit = v
    BY <1>1
  <2> QED BY <1>2, <2>1, <2>2
<1>4. DecodeVarint(AppendVarint[v] \o r) = [ok |-> TRUE, value |-> v, rest |-> r]
  BY <1>2, <1>3 DEF DecodeVarint, n
<1> QED BY <1>4

-----------------------------------------------------------------------------
\* A field as it is read.
Found == [ok : {TRUE}, no : Nat, value : Nat, data : Seq(Byte), rest : Seq(Byte)]

\* A number that is read leaves less to read.
LEMMA DecodeVarintType ==
  ASSUME NEW buf \in Seq(Byte)
  PROVE  LET n == DecodeVarint(buf) IN
         n = Failure \/ (n.ok /\ n.value \in Nat /\ n.rest \in Seq(Byte) /\ Len(n.rest) < Len(buf))
<1> DEFINE n == Varint[buf]
<1>1. n \in Outcomes /\ (n.ok => Len(n.rest) < Len(buf))
  BY VarintType
<1> HIDE DEF n
<1>2. CASE n.ok /\ ~(n.weight >= Limit)
  <2>1. DecodeVarint(buf) = [ok |-> TRUE, value |-> n.value % Limit, rest |-> n.rest]
    BY <1>2 DEF DecodeVarint, n
  <2>2. n.value \in Nat /\ n.rest \in Seq(Byte)
    BY <1>1, <1>2, OutcomeFields
  <2>3. n.value % Limit \in Nat
    BY <2>2, CodecAssumption DEF CodecAssumption
  <2> QED BY <1>1, <1>2, <2>1, <2>2, <2>3
<1>3. CASE ~n.ok \/ n.weight >= Limit
  BY <1>3 DEF DecodeVarint, n
<1> QED BY <1>2, <1>3

\* So does a field.
LEMMA FirstFieldType ==
  ASSUME NEW buf \in Seq(Byte), buf # << >>
  PROVE  \/ FirstField(buf) = Failure
         \/ FirstField(buf) \in Found /\ Len(FirstField(buf).rest) < Len(buf)
<1> DEFINE wire == Head(buf) % 8
           n == DecodeVarint(Tail(buf))
           field(value, data, rest) == [ok |-> TRUE, no |-> Head(buf) \div 8, value |-> value, data |-> data, rest |-> rest]
<1>1. Tail(buf) \in Seq(Byte) /\ Len(Tail(buf)) = Len(buf) - 1 /\ Head(buf) \in Nat /\ Len(buf) \in Nat
  BY ByteSeq
<1>2. n = Failure \/ (n.ok /\ n.value \in Nat /\ n.rest \in Seq(Byte) /\ Len(n.rest) < Len(Tail(buf)))
  BY <1>1, DecodeVarintType
<1>3. Head(buf) \div 8 \in Nat
  BY <1>1
<1>4. ASSUME NEW value \in Nat, NEW data \in Seq(Byte), NEW rest \in Seq(Byte)
      PROVE  field(value, data, rest) \in Found
  BY <1>3 DEF Found
<1>5. CASE Len(buf) < 2 \/ wire \notin {0, 2} \/ ~n.ok
  BY <1>5 DEF FirstField
<1>6. CASE ~(Len(buf) < 2) /\ wire = 0 /\ n.ok
  <2>1. FirstField(buf) = field(n.value, << >>, n.rest)
    BY <1>6 DEF FirstField
  <2>2. n.ok /\ n.value \in Nat /\ n.rest \in Seq(Byte) /\ Len(n.rest) < Len(Tail(buf))
    BY <1>2, <1>6 DEF Failure
  <2> HIDE DEF n, wire
  <2>3. FirstField(buf) \in Found
    <3>1. << >> \in Seq(Byte)
      OBVIOUS
    <3>2. field(n.value, << >>, n.rest) \in Found
      BY <1>4, <2>2, <3>1
    <3> QED BY <2>1, <3>2
  <2>4. FirstField(buf).rest = n.rest
    BY <2>1
  <2> QED BY <1>1, <2>2, <2>3, <2>4
<1>7. CASE ~(Len(buf) < 2) /\ wire = 2 /\ n.ok
  <2>2. n.ok /\ n.value \in Nat /\ n.rest \in Seq(Byte) /\ Len(n.rest) < Len(Tail(buf))
    BY <1>2, <1>7 DEF Failure
  <2>3. CASE Len(n.rest) < n.value
    BY <1>7, <2>3 DEF FirstField
  <2>4. CASE ~(Len(n.rest) < n.value)
    <3> DEFINE data == SubSeq(n.rest, 1, n.value)
               rest == SubSeq(n.rest, n.value + 1, Len(n.rest))
    <3>1. FirstField(buf) = field(0, data, rest)
      BY <1>7, <2>4 DEF FirstField
    <3> HIDE DEF n, wire
    <3>2. data \in Seq(Byte) /\ rest \in Seq(Byte) /\ Len(rest) <= Len(n.rest) /\ Len(rest) \in Nat /\ Len(n.rest) \in Nat
      BY <2>2, <2>4
    <3> HIDE DEF data, rest
    <3>3. FirstField(buf) \in Found
      BY <1>4, <3>1, <3>2
    <3>4. FirstField(buf).rest = rest
      BY <3>1
    <3> QED BY <1>1, <2>2, <3>2, <3>3, <3>4
  <2> QED BY <2>3, <2>4
<1> QED BY <1>5, <1>6, <1>7

\* The number and the wire type of a field are in its tag: none of the numbers
\* needs a bit the byte does not have.
LEMMA FieldTagParts ==
  ASSUME NEW no \in 1..31, NEW wire \in {0, 2}
  PROVE  /\ FieldTag(no, wire) \in Byte
         /\ FieldTag(no, wire) % 8 = wire /\ FieldTag(no, wire) \div 8 = no
<1>1. CASE wire = 0
  BY <1>1 DEF FieldTag, Byte
<1>2. CASE wire = 2
  BY <1>2 DEF FieldTag, Byte
<1> QED BY <1>1, <1>2

\* buf begins with a tag and a number.
Opens(buf, no, wire, v, r) ==
  /\ buf \in Seq(Byte) /\ buf # << >> /\ ~(Len(buf) < 2)
  /\ Head(buf) % 8 = wire /\ Head(buf) \div 8 = no
  /\ DecodeVarint(Tail(buf)).ok
  /\ DecodeVarint(Tail(buf)).value = v /\ DecodeVarint(Tail(buf)).rest = r

\* A tag and a number open what they are written in front of.
LEMMA TaggedNumber ==
  ASSUME NEW no \in 1..31, NEW wire \in {0, 2}, NEW v \in 0..(Limit - 1), NEW r \in Seq(Byte)
  PROVE  /\ <<FieldTag(no, wire)>> \o AppendVarint[v] \in Seq(Byte)
         /\ <<FieldTag(no, wire)>> \o AppendVarint[v] # << >>
         /\ Opens((<<FieldTag(no, wire)>> \o AppendVarint[v]) \o r, no, wire, v, r)
<1> DEFINE tag == FieldTag(no, wire)
           a == AppendVarint[v]
           buf == (<<tag>> \o a) \o r
<1>1. v \in Nat
  BY CodecAssumption DEF CodecAssumption
<1>2. tag \in Byte /\ tag % 8 = wire /\ tag \div 8 = no
  BY FieldTagParts
<1>3. a \in Seq(Byte) /\ a # << >>
  BY <1>1, AppendVarintType, AppendVarintShort, AppendVarintLong
<1>4. LET n == DecodeVarint(a \o r) IN n.ok /\ n.value = v /\ n.rest = r
  BY NumberRoundTrip
<1> HIDE DEF tag, a
<1>5. a \o r \in Seq(Byte) /\ Len(a \o r) = Len(a) + Len(r) /\ Len(a) \in Nat /\ Len(a) > 0 /\ Len(r) \in Nat
  BY <1>3
<1>6. buf = <<tag>> \o (a \o r)
  BY <1>2, <1>3
<1>7. <<tag>> \o a \in Seq(Byte) /\ <<tag>> \o a # << >>
  BY <1>2, <1>3, ConsByte
<1>8. buf \in Seq(Byte) /\ buf # << >> /\ Head(buf) = tag /\ Tail(buf) = a \o r /\ Len(buf) = 1 + Len(a \o r)
  <2> HIDE DEF buf
  <2> QED BY <1>2, <1>5, <1>6, ConsByte
<1> HIDE DEF buf
<1>9. Opens(buf, no, wire, v, r)
  <2>1. ~(Len(buf) < 2)
    BY <1>5, <1>8
  <2> QED BY <1>2, <1>4, <1>8, <2>1 DEF Opens
<1> QED BY <1>7, <1>9 DEF buf, tag, a

\* A number field that is written is read, whatever follows.
LEMMA NumberField ==
  ASSUME NEW no \in 1..31, NEW v \in 0..(Limit - 1), NEW r \in Seq(Byte)
  PROVE  /\ AppendNumber(no, v) \in Seq(Byte) /\ AppendNumber(no, v) # << >>
         /\ FirstField(AppendNumber(no, v) \o r) =
               [ok |-> TRUE, no |-> no, value |-> v, data |-> << >>, rest |-> r]
<1> DEFINE head == <<FieldTag(no, 0)>> \o AppendVarint[v]
           buf == head \o r
<1>1. head \in Seq(Byte) /\ head # << >> /\ Opens(buf, no, 0, v, r)
  BY TaggedNumber
<1>2. FirstField(buf) = [ok |-> TRUE, no |-> no, value |-> v, data |-> << >>, rest |-> r]
  <2> HIDE DEF buf
  <2> QED BY <1>1 DEF FirstField, Opens
<1>3. AppendNumber(no, v) = head
  BY DEF AppendNumber
<1> HIDE DEF head
<1> QED BY <1>1, <1>2, <1>3

\* A field of bytes that is written is read, whatever follows.
LEMMA BytesField ==
  ASSUME NEW no \in 1..31, NEW data \in Seq(Byte), data # << >>, Len(data) < Limit, NEW r \in Seq(Byte)
  PROVE  /\ AppendBytes(no, data) \in Seq(Byte) /\ AppendBytes(no, data) # << >>
         /\ FirstField(AppendBytes(no, data) \o r) =
               [ok |-> TRUE, no |-> no, value |-> 0, data |-> data, rest |-> r]
<1> DEFINE buf == AppendBytes(no, data) \o r
           n == DecodeVarint(Tail(buf))
           v == Len(data)
<1>1. v \in 0..(Limit - 1) /\ v \in Nat
  BY CodecAssumption DEF CodecAssumption
<1>2. AppendVarint[v] \in Seq(Byte) /\ FieldTag(no, 2) \in Byte
  BY <1>1, AppendVarintType, FieldTagParts
<1>3. AppendBytes(no, data) = <<FieldTag(no, 2)>> \o AppendVarint[v] \o data
  BY DEF AppendBytes
<1> DEFINE head == <<FieldTag(no, 2)>> \o AppendVarint[v]
<1>4. data \o r \in Seq(Byte)
  OBVIOUS
<1>5. head \in Seq(Byte) /\ head # << >> /\ Opens(head \o (data \o r), no, 2, v, data \o r)
  <2> HIDE DEF v
  <2> QED BY <1>1, <1>4, TaggedNumber
<1>9. AppendBytes(no, data) = head \o data
  BY <1>3
<1>10. buf = head \o (data \o r)
  <2> HIDE DEF head
  <2> QED BY <1>5, <1>9
<1>11. Opens(buf, no, 2, v, data \o r)
  BY <1>5, <1>10
<1> HIDE DEF buf
<1>6. /\ ~(Len(data \o r) < v)
      /\ SubSeq(data \o r, 1, v) = data /\ SubSeq(data \o r, v + 1, Len(data \o r)) = r
  OBVIOUS
<1>7. FirstField(buf) = [ok |-> TRUE, no |-> no, value |-> 0, data |-> data, rest |-> r]
  <2> HIDE DEF n, v
  <2>1. n.ok /\ n.value = v /\ n.rest = data \o r /\ Head(buf) % 8 = 2 /\ Head(buf) \div 8 = no /\ ~(Len(buf) < 2)
    BY <1>11 DEF Opens, n
  <2>2. ~(Len(n.rest) < n.value)
    BY <1>6, <2>1
  <2>3. SubSeq(n.rest, 1, n.value) = data /\ SubSeq(n.rest, n.value + 1, Len(n.rest)) = r
    BY <1>6, <2>1
  <2>5. FirstField(buf) = [ok |-> TRUE, no |-> Head(buf) \div 8, value |-> 0, data |-> SubSeq(n.rest, 1, n.value),
                           rest |-> SubSeq(n.rest, n.value + 1, Len(n.rest))]
    <3> DEFINE w == Head(buf) % 8
    <3>1. w = 2
      BY <2>1
    <3>2. w \in {0, 2} /\ w # 0
      BY <3>1
    <3>3. n.ok /\ ~(Len(n.rest) < n.value) /\ ~(Len(buf) < 2)
      BY <2>1, <2>2
    <3> QED BY ONLY <3>2, <3>3 DEF FirstField, n
  <2> QED BY <2>1, <2>3, <2>5
<1>8. AppendBytes(no, data) \in Seq(Byte) /\ AppendBytes(no, data) # << >>
  <2> HIDE DEF head
  <2> QED BY <1>5, <1>9
<1> QED BY <1>7, <1>8 DEF buf

-----------------------------------------------------------------------------
\* What reading the fields may come to.
Lists == {Failure} \cup [ok : {TRUE}, fields : Seq(Found)]

\* The fields that begin with x and of which others are the rest.
ConsField(x, others) ==
  IF ~others.ok THEN Failure ELSE [ok |-> TRUE, fields |-> <<x>> \o others.fields]

\* The definition of DecodeFields, of f.
ReadFields(f, buf) ==
  IF buf = << >> THEN [ok |-> TRUE, fields |-> << >>]
  ELSE LET x == FirstField(buf) IN
       IF ~x.ok THEN Failure
       ELSE LET others == f[x.rest] IN
            IF ~others.ok THEN Failure ELSE [ok |-> TRUE, fields |-> <<x>> \o others.fields]

\* One more field in front, and it is a list still.
LEMMA ConsFieldType == ASSUME NEW x \in Found, NEW others \in Lists PROVE ConsField(x, others) \in Lists
<1>1. CASE others = Failure
  <2>1. ~others.ok
    BY <1>1 DEF Failure
  <2> QED BY <2>1 DEF ConsField, Lists
<1>2. CASE others \in [ok : {TRUE}, fields : Seq(Found)]
  <2>1. others.ok /\ others.fields \in Seq(Found)
    BY <1>2
  <2>2. <<x>> \o others.fields \in Seq(Found)
    BY <2>1
  <2>3. ConsField(x, others) = [ok |-> TRUE, fields |-> <<x>> \o others.fields]
    BY <2>1 DEF ConsField
  <2> QED BY <2>2, <2>3 DEF Lists
<1> QED BY <1>1, <1>2 DEF Lists

\* A field is read or it is not.
LEMMA FoundOrNot ==
  ASSUME NEW buf \in Seq(Byte), buf # << >>
  PROVE  \/ FirstField(buf) = Failure /\ ~FirstField(buf).ok
         \/ /\ FirstField(buf) \in Found /\ FirstField(buf).ok
            /\ FirstField(buf).rest \in Seq(Byte) /\ Len(FirstField(buf).rest) < Len(buf)
<1>1. CASE FirstField(buf) = Failure
  BY <1>1 DEF Failure
<1>2. CASE FirstField(buf) \in Found /\ Len(FirstField(buf).rest) < Len(buf)
  BY <1>2 DEF Found
<1> QED BY <1>1, <1>2, FirstFieldType

\* DecodeFields is what its definition says.
LEMMA DecodeFieldsDef == \A buf \in Seq(Byte) : DecodeFields[buf] = ReadFields(DecodeFields, buf)
<1> DEFINE D == Seq(Byte)
           x(buf) == FirstField(buf)
           stop == {buf \in D : buf = << >> \/ x(buf) \notin Found}
           base == [buf \in D |-> IF buf = << >> THEN [ok |-> TRUE, fields |-> << >>] ELSE Failure]
           prev == [buf \in D |-> IF buf \in stop THEN << >> ELSE x(buf).rest]
           step == [buf \in D |-> [others \in Lists |-> IF buf \in stop THEN Failure ELSE ConsField(x(buf), others)]]
<1>0. Failure \in Lists /\ [ok |-> TRUE, fields |-> << >>] \in Lists
  BY DEF Lists
<1>1. base \in [D -> Lists]
  BY <1>0
<1>2. step \in [D -> [Lists -> Lists]]
  <2>1. ASSUME NEW buf \in D, NEW others \in Lists
        PROVE (IF buf \in stop THEN Failure ELSE ConsField(x(buf), others)) \in Lists
    <3>1. CASE buf \in stop
      <4> HIDE DEF stop
      <4> QED BY <1>0, <3>1
    <3>2. CASE buf \notin stop
      <4>1. x(buf) \in Found
        BY <3>2
      <4>2. ConsField(x(buf), others) \in Lists
        BY <4>1, ConsFieldType
      <4> HIDE DEF stop
      <4> QED BY <3>2, <4>2
    <3> QED BY <3>1, <3>2
  <2> HIDE DEF stop, x
  <2> QED BY <2>1
<1>3. ASSUME NEW buf \in D \ stop
      PROVE x(buf).rest \in D /\ Len(x(buf).rest) < Len(buf) /\ x(buf).ok
  <2>1. buf # << >> /\ x(buf) \in Found
    OBVIOUS
  <2>2. Failure \notin Found
    <3>1. \A y \in Found : y.ok
      BY DEF Found
    <3>2. ~Failure.ok
      BY DEF Failure
    <3> QED BY <3>1, <3>2
  <2> HIDE DEF stop
  <2> QED BY <2>1, <2>2, FoundOrNot
<1>4. prev \in [D -> D] /\ stop \in SUBSET D
  <2>1. ASSUME NEW buf \in D PROVE prev[buf] \in D
    <3>1. << >> \in D
      OBVIOUS
    <3> HIDE DEF x, stop, D
    <3> QED BY <1>3, <3>1
  <2>2. stop \in SUBSET D
    OBVIOUS
  <2> HIDE DEF x, stop, D
  <2> QED BY <2>1, <2>2
<1>5. \A buf \in D \ stop : Sizes[prev[buf]] < Sizes[buf]
  <2> SUFFICES ASSUME NEW buf \in D \ stop PROVE Sizes[prev[buf]] < Sizes[buf]
    OBVIOUS
  <2>1. prev[buf] = x(buf).rest
    <3> HIDE DEF x, stop, D
    <3> QED OBVIOUS
  <2>2. x(buf).rest \in D /\ Len(x(buf).rest) < Len(buf)
    <3> HIDE DEF x, stop, D
    <3> QED BY <1>3
  <2> HIDE DEF x, prev, stop
  <2> QED BY <2>1, <2>2 DEF Sizes
<1>6. PICK g : IsSolution(g, D, Lists, stop, prev, base, step)
  <2> HIDE DEF stop, base, prev, step
  <2>1. IsRecursion(D, Lists, Sizes, stop, prev, base, step)
    BY <1>1, <1>2, <1>4, <1>5, SizesType DEF IsRecursion
  <2> HIDE DEF D
  <2> QED BY <2>1, Recursion
<1>7. g \in [D -> Lists]
  BY <1>6 DEF IsSolution
<1>8. ASSUME NEW buf \in D PROVE g[buf] = ReadFields(g, buf)
  <2>1. g[buf] = IF buf \in stop THEN base[buf] ELSE step[buf][g[prev[buf]]]
    BY <1>6 DEF IsSolution
  <2>2. CASE buf = << >>
    <3>1. g[buf] = [ok |-> TRUE, fields |-> << >>]
      BY <2>1, <2>2
    <3> QED BY <2>2, <3>1 DEF ReadFields
  <2>3. CASE buf # << >> /\ buf \in stop
    <3>1. g[buf] = Failure
      BY <2>1, <2>3
    <3>2. ~x(buf).ok
      <4>1. x(buf) \notin Found
        BY <2>3
      <4> QED BY <2>3, <4>1, FoundOrNot
    <3> HIDE DEF stop, base, prev, step
    <3> QED BY <2>3, <3>1, <3>2 DEF ReadFields
  <2>4. CASE buf \notin stop
    <3>0. buf # << >>
      BY <2>4
    <3>1. x(buf).rest \in D /\ x(buf).ok
      BY <1>3, <2>4
    <3>2. prev[buf] = x(buf).rest
      <4> HIDE DEF x, stop, D
      <4> QED BY <2>4
    <3>3. g[x(buf).rest] \in Lists
      BY <1>7, <3>1
    <3>4. g[buf] = ConsField(x(buf), g[x(buf).rest])
      <4> HIDE DEF x, stop, prev
      <4> QED BY <2>1, <2>4, <3>2, <3>3
    <3> HIDE DEF stop, base, prev, step
    <3> QED BY <3>0, <3>1, <3>4 DEF ReadFields, ConsField
  <2> QED BY <2>2, <2>3, <2>4
<1>9. g = [buf \in D |-> ReadFields(g, buf)]
  <2> HIDE DEF stop, base, prev, step
  <2> QED BY <1>7, <1>8
<1>10. DecodeFields = [buf \in D |-> ReadFields(DecodeFields, buf)]
  <2> HIDE DEF stop, base, prev, step
  <2> QED BY <1>9 DEF DecodeFields, ReadFields
<1> QED BY <1>10

\* In nothing there are no fields.
LEMMA DecodeNothing == DecodeFields[<< >>].ok /\ DecodeFields[<< >>].fields = << >>
<1>1. << >> \in Seq(Byte)
  OBVIOUS
<1>2. DecodeFields[<< >>] = ReadFields(DecodeFields, << >>)
  BY <1>1, DecodeFieldsDef
<1> QED BY <1>2 DEF ReadFields

\* A field in front is the first of the fields.
LEMMA DecodeFirst ==
  ASSUME NEW buf \in Seq(Byte), buf # << >>, NEW x, FirstField(buf) = x, x.ok, DecodeFields[x.rest].ok
  PROVE  DecodeFields[buf].ok /\ DecodeFields[buf].fields = <<x>> \o DecodeFields[x.rest].fields
<1>1. DecodeFields[buf] = ReadFields(DecodeFields, buf)
  BY DecodeFieldsDef
<1>2. DecodeFields[buf] = [ok |-> TRUE, fields |-> <<x>> \o DecodeFields[x.rest].fields]
  BY <1>1 DEF ReadFields
<1> QED BY <1>2

-----------------------------------------------------------------------------
(***************************************************************************)
(* The fields of a message one after the other.                            *)
(***************************************************************************)
\* g joins parts from the front, h from the end.
Parts(parts, n) == n \in Nat /\ parts \in [1..n -> Seq(Byte)]

\* g[i] are the first i parts in one.
JoinsFront(parts, n, g) ==
  /\ g \in [1..n -> Seq(Byte)]
  /\ \A i \in 1..n : g[i] = IF i = 1 THEN parts[i] ELSE g[i - 1] \o parts[i]

\* h[i] are the parts after the i-th in one.
JoinsBack(parts, n, h) ==
  /\ h \in [0..n -> Seq(Byte)] /\ h[n] = << >>
  /\ \A i \in 1..n : h[i - 1] = parts[i] \o h[i]

\* It does not matter which of three parts are joined first.
LEMMA BytesAssociative ==
  ASSUME NEW s \in Seq(Byte), NEW t \in Seq(Byte), NEW u \in Seq(Byte)
  PROVE  (s \o t) \o u = s \o (t \o u)
OBVIOUS

\* There is such a g.
LEMMA FrontExists ==
  ASSUME NEW n, NEW parts, Parts(parts, n)
  PROVE  \E g : JoinsFront(parts, n, g)
<1> USE DEF Parts
<1> DEFINE D == 1..n
           stop == {i \in D : i = 1}
           prev == [i \in D |-> IF i = 1 THEN 1 ELSE i - 1]
           size == [i \in D |-> i]
           base == [i \in D |-> parts[i]]
           step == [i \in D |-> [s \in Seq(Byte) |-> s \o parts[i]]]
<1>1. IsRecursion(D, Seq(Byte), size, stop, prev, base, step)
  <2>1. base \in [D -> Seq(Byte)] /\ stop \in SUBSET D /\ size \in [D -> Nat] /\ prev \in [D -> D]
    OBVIOUS
  <2>2. step \in [D -> [Seq(Byte) -> Seq(Byte)]]
    <3>1. ASSUME NEW i \in D, NEW s \in Seq(Byte) PROVE s \o parts[i] \in Seq(Byte)
      OBVIOUS
    <3> QED BY <3>1
  <2>3. \A x \in D \ stop : size[prev[x]] < size[x]
    OBVIOUS
  <2> HIDE DEF base, stop, size, prev, step, D
  <2> QED BY <2>1, <2>2, <2>3 DEF IsRecursion
<1>2. PICK g : IsSolution(g, D, Seq(Byte), stop, prev, base, step)
  <2> HIDE DEF base, stop, size, prev, step, D
  <2> QED BY <1>1, Recursion
<1>3. g \in [D -> Seq(Byte)]
  BY <1>2 DEF IsSolution
<1>4. ASSUME NEW i \in D PROVE g[i] = IF i = 1 THEN parts[i] ELSE g[i - 1] \o parts[i]
  <2>1. g[i] = IF i \in stop THEN base[i] ELSE step[i][g[prev[i]]]
    BY <1>2 DEF IsSolution
  <2>2. i # 1 => i - 1 \in D
    OBVIOUS
  <2>3. i # 1 => g[i - 1] \in Seq(Byte)
    BY <1>3, <2>2
  <2> QED BY <2>1, <2>3
<1> QED BY <1>3, <1>4 DEF JoinsFront

\* There is such an h.
LEMMA SuffixExists ==
  ASSUME NEW n, NEW parts, Parts(parts, n)
  PROVE  \E h : JoinsBack(parts, n, h)
<1> USE DEF Parts
<1> DEFINE D == 0..n
           stop == {i \in D : i = n}
           prev == [i \in D |-> IF i = n THEN n ELSE i + 1]
           size == [i \in D |-> n - i]
           base == [i \in D |-> << >>]
           step == [i \in D |-> [s \in Seq(Byte) |-> IF i = n THEN s ELSE parts[i + 1] \o s]]
<1>1. IsRecursion(D, Seq(Byte), size, stop, prev, base, step)
  <2>1. base \in [D -> Seq(Byte)] /\ stop \in SUBSET D /\ size \in [D -> Nat] /\ prev \in [D -> D]
    OBVIOUS
  <2>2. step \in [D -> [Seq(Byte) -> Seq(Byte)]]
    <3>1. ASSUME NEW i \in D, NEW s \in Seq(Byte) PROVE (IF i = n THEN s ELSE parts[i + 1] \o s) \in Seq(Byte)
      <4>1. i # n => parts[i + 1] \in Seq(Byte)
        OBVIOUS
      <4> QED BY <4>1
    <3> QED BY <3>1
  <2>3. \A x \in D \ stop : size[prev[x]] < size[x]
    OBVIOUS
  <2> HIDE DEF base, stop, size, prev, step, D
  <2> QED BY <2>1, <2>2, <2>3 DEF IsRecursion
<1>2. PICK h : IsSolution(h, D, Seq(Byte), stop, prev, base, step)
  <2> HIDE DEF base, stop, size, prev, step, D
  <2> QED BY <1>1, Recursion
<1>3. h \in [D -> Seq(Byte)]
  BY <1>2 DEF IsSolution
<1>4. ASSUME NEW i \in D PROVE h[i] = IF i = n THEN << >> ELSE parts[i + 1] \o h[i + 1]
  <2>1. h[i] = IF i \in stop THEN base[i] ELSE step[i][h[prev[i]]]
    BY <1>2 DEF IsSolution
  <2>2. i # n => i + 1 \in D
    OBVIOUS
  <2>3. i # n => h[i + 1] \in Seq(Byte)
    BY <1>3, <2>2
  <2> QED BY <2>1, <2>3
<1>5. n \in D
  OBVIOUS
<1>6. ASSUME NEW i \in 1..n PROVE h[i - 1] = parts[i] \o h[i]
  <2>1. i - 1 \in D /\ i - 1 # n /\ (i - 1) + 1 = i
    OBVIOUS
  <2>2. h[i - 1] = parts[(i - 1) + 1] \o h[(i - 1) + 1]
    <3> HIDE DEF D
    <3> QED BY <1>4, <2>1
  <2> QED BY <2>1, <2>2
<1> HIDE DEF stop, base, prev, step, size
<1> QED BY <1>3, <1>4, <1>5, <1>6 DEF JoinsBack

\* FlattenSeq joins the parts from the front.
LEMMA FrontIsFlat ==
  ASSUME NEW n \in Nat, n > 0, NEW parts, Parts(parts, n)
  PROVE  \E g : JoinsFront(parts, n, g) /\ FlattenSeq(parts) = g[n]
<1> DEFINE F(g, i) == IF i = 1 THEN parts[i] ELSE g[i - 1] \o parts[i]
           f == CHOOSE f : f = [i \in 1..n |-> F(f, i)]
<1>1. Len(parts) = n /\ Len(parts) # 0
  BY DEF Parts
<1>2. PICK g : JoinsFront(parts, n, g)
  BY FrontExists
<1>3. g = [i \in 1..n |-> F(g, i)]
  BY <1>2 DEF JoinsFront
<1>4. f = [i \in 1..n |-> F(f, i)]
  BY <1>3
<1>5. FlattenSeq(parts) = f[n]
  <2>1. FlattenSeq(parts) = (LET flatten[i \in 1..Len(parts)] == IF i = 1 THEN parts[i] ELSE flatten[i - 1] \o parts[i] IN flatten[Len(parts)])
    BY <1>1 DEF FlattenSeq
  <2> QED BY <1>1, <2>1
<1> HIDE DEF f
<1>6. \A i \in 1..n : f[i] = F(f, i)
  BY <1>4
<1>7. ASSUME NEW i \in Nat PROVE i \in 1..n => f[i] \in Seq(Byte)
  <2> DEFINE S == {j \in Nat : j \in 1..n => f[j] \in Seq(Byte)}
  <2>1. 0 \in S
    OBVIOUS
  <2>2. ASSUME NEW j \in S PROVE j + 1 \in S
    <3> SUFFICES ASSUME j + 1 \in 1..n PROVE f[j + 1] \in Seq(Byte)
      OBVIOUS
    <3>0. f[j + 1] = F(f, j + 1) /\ parts[j + 1] \in Seq(Byte) /\ (j + 1) - 1 = j
      BY <1>6 DEF Parts
    <3>1. CASE j = 0
      BY <3>0, <3>1
    <3>2. CASE j # 0
      <4>1. f[j] \in Seq(Byte)
        BY <3>2
      <4> QED BY <3>0, <3>2, <4>1
    <3> QED BY <3>1, <3>2
  <2>3. S = Nat
    <3> HIDE DEF S
    <3> S \in SUBSET Nat BY DEF S
    <3> QED BY <2>1, <2>2, SetInduction
  <2> QED BY <2>3
<1>8. JoinsFront(parts, n, f)
  <2>1. f \in [1..n -> Seq(Byte)]
    <3>1. \A i \in 1..n : f[i] \in Seq(Byte)
      BY <1>7
    <3>2. DOMAIN f = 1..n /\ f = [i \in 1..n |-> f[i]]
      BY <1>4
    <3> QED BY <3>1, <3>2
  <2> QED BY <1>6, <2>1 DEF JoinsFront
<1> QED BY <1>5, <1>8

\* The parts joined, and from which byte on they are read after the first,
\* the second, ... of them.
LEMMA FlatSuffix ==
  ASSUME NEW n \in Nat, NEW parts, Parts(parts, n)
  PROVE  \E h : JoinsBack(parts, n, h) /\ FlattenSeq(parts) = h[0]
<1>0. PICK h : JoinsBack(parts, n, h)
  BY SuffixExists
<1>1. CASE n = 0
  <2>1. parts = << >> /\ h[0] = << >>
    BY <1>0, <1>1 DEF Parts, JoinsBack
  <2>2. FlattenSeq(parts) = << >>
    BY <2>1 DEF FlattenSeq
  <2> QED BY <1>0, <2>1, <2>2
<1>2. CASE n # 0
  <2>1. PICK g : JoinsFront(parts, n, g) /\ FlattenSeq(parts) = g[n]
    BY <1>2, FrontIsFlat
  <2> DEFINE P(i) == i \in 1..n => g[i] \o h[i] = h[0]
             S == {i \in Nat : P(i)}
  <2>2. P(0)
    OBVIOUS
  <2>3. ASSUME NEW i \in Nat, P(i) PROVE P(i + 1)
    <3> SUFFICES ASSUME i + 1 \in 1..n PROVE g[i + 1] \o h[i + 1] = h[0]
      OBVIOUS
    <3> DEFINE k == i + 1
    <3>1. k \in 1..n /\ k - 1 = i /\ i \in 0..n /\ k \in 0..n
      OBVIOUS
    <3> HIDE DEF k
    <3>2. h[i] = parts[k] \o h[k]
      BY <1>0, <3>1 DEF JoinsBack
    <3>3. g[k] = IF k = 1 THEN parts[k] ELSE g[k - 1] \o parts[k]
      BY <2>1, <3>1 DEF JoinsFront
    <3>6. g[k] \o h[k] = h[0]
      <4>1. CASE k = 1
        <5>1. g[k] = parts[k] /\ i = 0
          BY <3>1, <3>3, <4>1
        <5> QED BY <3>2, <5>1
      <4>2. CASE k # 1
        <5>1. i \in 1..n
          BY <3>1, <4>2
        <5>2. g[i] \o h[i] = h[0]
          BY <2>3, <5>1
        <5>3. g[k] = g[i] \o parts[k]
          BY <3>1, <3>3, <4>2
        <5>4. g[i] \in Seq(Byte) /\ parts[k] \in Seq(Byte) /\ h[k] \in Seq(Byte)
          BY <1>0, <2>1, <3>1, <5>1 DEF JoinsFront, JoinsBack, Parts
        <5>5. (g[i] \o parts[k]) \o h[k] = g[i] \o (parts[k] \o h[k])
          BY <5>4, BytesAssociative
        <5> QED BY <3>2, <5>2, <5>3, <5>5
      <4> QED BY <4>1, <4>2
    <3> QED BY <3>6 DEF k
  <2>4. S = Nat
    <3> HIDE DEF P
    <3>1. S \in SUBSET Nat /\ 0 \in S /\ \A i \in S : i + 1 \in S
      BY <2>2, <2>3
    <3> HIDE DEF S
    <3> QED BY <3>1, SetInduction
  <2>5. g[n] \o h[n] = h[0]
    <3>1. n \in S
      BY <2>4
    <3>2. P(n)
      <4> HIDE DEF P
      <4> QED BY <3>1
    <3>3. n \in 1..n
      BY <1>2
    <3> QED BY <3>2, <3>3
  <2>6. g[n] \in Seq(Byte) /\ h[n] = << >>
    BY <1>0, <1>2, <2>1 DEF JoinsFront, JoinsBack
  <2> QED BY <1>0, <2>1, <2>5, <2>6
<1> QED BY <1>1, <1>2

-----------------------------------------------------------------------------
(***************************************************************************)
(* The tables of the fields.                                               *)
(***************************************************************************)
\* The kinds of fields.
Kinds == {"string", "number", "bool", "message"}

\* n fields with numbers that a tag can hold, each with a number and a name
\* of its own.
GoodTable(fs, n) ==
  /\ n \in Nat /\ fs = [i \in 1..n |-> fs[i]]
  /\ \A i \in 1..n : fs[i].no \in 1..31 /\ fs[i].kind \in Kinds
  /\ \A i, j \in 1..n : fs[i].no = fs[j].no \/ fs[i].name = fs[j].name => i = j

\* The types without messages in them, those with messages of these, and all.
Smallest == {"Metadata", "Handshake", "Cancel", "ProbeRequest", "ProbeResponse",
             "BytesReceived", "Received", "Failed", "Acked", "Nacked"}
Smaller == Smallest \cup {"TransferStart"}
Typenames == Smaller \cup {"ControlFrame", "ReceiptFrame"}

\* The numbers of the fields of a type go up and fit in a tag (proto.go,
\* receipt.go), for each of the types.
LEMMA EmptyTable == GoodTable(Fields["ProbeRequest"], 0) /\ GoodTable(Fields["Acked"], 0)
BY DEF GoodTable, Fields

LEMMA OneTable ==
  /\ GoodTable(Fields["ProbeResponse"], 1) /\ GoodTable(Fields["BytesReceived"], 1)
  /\ GoodTable(Fields["Nacked"], 1)
BY DEF GoodTable, Fields, ProbeResponse, BytesReceived, Nacked, Str, Num, Kinds

LEMMA TwoTable ==
  /\ GoodTable(Fields["Cancel"], 2) /\ GoodTable(Fields["Received"], 2)
  /\ GoodTable(Fields["Failed"], 2)
BY DEF GoodTable, Fields, Cancel, Received, Failed, Str, Num, Flag, Kinds

LEMMA HandshakeTable == GoodTable(Fields["Handshake"], 4)
BY DEF GoodTable, Fields, Handshake, Str, Num, Flag, Kinds

LEMMA ControlTable == GoodTable(Fields["ControlFrame"], 5)
BY DEF GoodTable, Fields, ControlFrame, Msg, Kinds

LEMMA ReceiptTable == GoodTable(Fields["ReceiptFrame"], 6)
BY DEF GoodTable, Fields, ReceiptFrame, Msg, Str, Kinds

LEMMA StartTable == GoodTable(Fields["TransferStart"], 6)
BY DEF GoodTable, Fields, TransferStart, Msg, Str, Num, Kinds

LEMMA MetadataTable == GoodTable(Fields["Metadata"], 9)
BY DEF GoodTable, Fields, Metadata, Str, Num, Kinds

-----------------------------------------------------------------------------
(***************************************************************************)
(* One field.                                                              *)
(***************************************************************************)
\* Its number fits in a tag.
IsField(f) == f.no \in 1..31 /\ f.kind \in Kinds

\* A value whose messages are bytes.
IsRaw(f, v) ==
  CASE f.kind \in {"string", "message"} -> v \in Seq(Byte)
    [] f.kind = "number" -> v \in 0..(Limit - 1)
    [] f.kind = "bool" -> v \in BOOLEAN

\* Is there something to write?
IsWritten(f, v) ==
  CASE f.kind \in {"string", "message"} -> v # << >>
    [] f.kind = "number" -> TRUE
    [] f.kind = "bool" -> v

\* Its length is a number of the size of a length.
IsShort(f, v) == f.kind \in {"string", "message"} => Len(v) < Limit

\* What stands in a field: a number, or bytes.
NumberOf(f, v) == CASE f.kind = "number" -> v [] f.kind = "bool" -> 1 [] OTHER -> 0
DataOf(f, v) == IF f.kind \in {"string", "message"} THEN v ELSE << >>

\* What was read is f with the value v.
Says(x, f, v) == x.no = f.no /\ x.value = NumberOf(f, v) /\ x.data = DataOf(f, v)

\* A number is written as bytes.
LEMMA NumberBytes ==
  ASSUME NEW no \in 1..31, NEW v \in Nat
  PROVE  /\ AppendNumber(no, v) \in Seq(Byte) /\ AppendNumber(no, v) # << >>
<1>1. AppendVarint[v] \in Seq(Byte) /\ FieldTag(no, 0) \in Byte
  BY AppendVarintType, FieldTagParts
<1> QED BY <1>1, ConsByte DEF AppendNumber

\* Bytes are written as more bytes.
LEMMA BytesBytes ==
  ASSUME NEW no \in 1..31, NEW v \in Seq(Byte)
  PROVE  /\ AppendBytes(no, v) \in Seq(Byte) /\ (v # << >> <=> AppendBytes(no, v) # << >>)
         /\ Len(v) <= Len(AppendBytes(no, v))
<1>1. CASE v = << >>
  BY <1>1 DEF AppendBytes
<1>2. CASE v # << >>
  <2> DEFINE a == AppendVarint[Len(v)]
             b == <<FieldTag(no, 2)>> \o a
  <2>1. a \in Seq(Byte) /\ FieldTag(no, 2) \in Byte
    <3>1. Len(v) \in Nat /\ 2 \in {0, 2}
      OBVIOUS
    <3> QED BY <3>1, AppendVarintType, FieldTagParts
  <2> HIDE DEF a
  <2>2. b \in Seq(Byte) /\ b # << >>
    BY <2>1, ConsByte
  <2> HIDE DEF b
  <2>3. AppendBytes(no, v) = b \o v
    BY <1>2 DEF AppendBytes, a, b
  <2>4. b \o v \in Seq(Byte) /\ b \o v # << >> /\ Len(b \o v) = Len(b) + Len(v) /\ Len(b) \in Nat /\ Len(v) \in Nat
    BY <2>2, BytesConcat
  <2> QED BY <1>2, <2>3, <2>4
<1> QED BY <1>1, <1>2

\* A field is written as bytes, at least as many as it has, and as none if
\* there is nothing to write.
LEMMA FieldBytes ==
  ASSUME NEW f, IsField(f), NEW v, IsRaw(f, v)
  PROVE  /\ AppendField(f, v) \in Seq(Byte)
         /\ IsWritten(f, v) <=> AppendField(f, v) # << >>
         /\ f.kind \in {"string", "message"} => Len(v) <= Len(AppendField(f, v))
<1>0. PICK no \in 1..31 : no = f.no
  BY DEF IsField
<1>1. CASE f.kind \in {"string", "message"}
  <2>1. v \in Seq(Byte)
    BY <1>1 DEF IsRaw
  <2>2. AppendField(f, v) = AppendBytes(no, v)
    BY <1>0, <1>1 DEF AppendField
  <2>3. IsWritten(f, v) <=> v # << >>
    BY <1>1 DEF IsWritten
  <2> QED BY <1>0, <2>1, <2>2, <2>3, BytesBytes
<1>2. CASE f.kind = "number"
  <2>1. v \in Nat /\ IsWritten(f, v)
    BY <1>2, CodecAssumption DEF IsRaw, IsWritten, CodecAssumption
  <2>2. AppendField(f, v) = AppendNumber(no, v)
    BY <1>0, <1>2 DEF AppendField
  <2>3. f.kind \notin {"string", "message"}
    BY <1>2
  <2> QED BY <1>0, <2>1, <2>2, <2>3, NumberBytes
<1>3. CASE f.kind = "bool"
  <2>1. v \in BOOLEAN /\ (IsWritten(f, v) <=> v)
    BY <1>3 DEF IsRaw, IsWritten
  <2>2. AppendField(f, v) = IF v THEN AppendNumber(no, 1) ELSE << >>
    BY <1>0, <1>3 DEF AppendField
  <2>3. f.kind \notin {"string", "message"}
    BY <1>3
  <2>4. AppendNumber(no, 1) \in Seq(Byte) /\ AppendNumber(no, 1) # << >> /\ << >> \in Seq(Byte)
    <3>1. PICK one \in Nat : one = 1
      OBVIOUS
    <3>2. AppendNumber(no, one) \in Seq(Byte) /\ AppendNumber(no, one) # << >>
      BY NumberBytes
    <3> QED BY <3>1, <3>2
  <2> QED BY <2>1, <2>2, <2>3, <2>4
<1> QED BY <1>1, <1>2, <1>3 DEF IsField, Kinds

\* A field that is written is read, whatever follows.
LEMMA FieldRoundTrip ==
  ASSUME NEW f, IsField(f), NEW v, IsRaw(f, v), IsWritten(f, v), IsShort(f, v), NEW r \in Seq(Byte)
  PROVE  LET x == FirstField(AppendField(f, v) \o r)
         IN  x.ok /\ x \in Found /\ x.rest = r /\ Says(x, f, v)
<1>0. PICK no \in 1..31 : no = f.no
  BY DEF IsField
<1>4. no \in Nat
  OBVIOUS
<1>1. CASE f.kind \in {"string", "message"}
  <2>1. v \in Seq(Byte) /\ v # << >> /\ Len(v) < Limit /\ DataOf(f, v) = v /\ NumberOf(f, v) = 0
    BY <1>1 DEF IsRaw, IsWritten, IsShort, DataOf, NumberOf
  <2>2. AppendField(f, v) = AppendBytes(no, v)
    BY <1>0, <1>1 DEF AppendField
  <2>3. FirstField(AppendField(f, v) \o r) = [ok |-> TRUE, no |-> no, value |-> 0, data |-> v, rest |-> r]
    <3>1. FirstField(AppendBytes(no, v) \o r) = [ok |-> TRUE, no |-> no, value |-> 0, data |-> v, rest |-> r]
      BY ONLY <2>1, BytesField, no \in 1..31, r \in Seq(Byte)
    <3> QED BY <2>2, <3>1
  <2> QED BY <1>0, <1>4, <2>1, <2>3 DEF Says, Found
<1>2. CASE f.kind = "number"
  <2>1. v \in 0..(Limit - 1) /\ v \in Nat /\ DataOf(f, v) = << >> /\ NumberOf(f, v) = v
    BY <1>2, CodecAssumption DEF IsRaw, DataOf, NumberOf, CodecAssumption
  <2>2. AppendField(f, v) = AppendNumber(no, v)
    BY <1>0, <1>2 DEF AppendField
  <2>3. FirstField(AppendField(f, v) \o r) = [ok |-> TRUE, no |-> no, value |-> v, data |-> << >>, rest |-> r]
    BY <1>0, <2>1, <2>2, NumberField
  <2>4. << >> \in Seq(Byte)
    OBVIOUS
  <2> QED BY <1>0, <1>4, <2>1, <2>3, <2>4 DEF Says, Found
<1>3. CASE f.kind = "bool"
  <2>1. v = TRUE /\ DataOf(f, v) = << >> /\ NumberOf(f, v) = 1
    BY <1>3 DEF IsRaw, IsWritten, DataOf, NumberOf
  <2>2. AppendField(f, v) = AppendNumber(no, 1) /\ 1 \in 0..(Limit - 1)
    BY <1>0, <1>3, <2>1, CodecAssumption DEF AppendField, CodecAssumption
  <2>3. FirstField(AppendField(f, v) \o r) = [ok |-> TRUE, no |-> no, value |-> 1, data |-> << >>, rest |-> r]
    BY <1>0, <2>2, NumberField
  <2>4. << >> \in Seq(Byte)
    OBVIOUS
  <2> QED BY <1>0, <1>4, <2>1, <2>3, <2>4 DEF Says, Found
<1> QED BY <1>1, <1>2, <1>3 DEF IsField, Kinds

-----------------------------------------------------------------------------
(***************************************************************************)
(* All fields of a message whose messages are bytes.                       *)
(***************************************************************************)
\* The values of a message whose messages are bytes.
RawValues(fs, n, m) == GoodTable(fs, n) /\ \A i \in 1..n : IsRaw(fs[i], m[fs[i].name])

\* The fields as they are written.
PartsOf(fs, n, m) == [i \in 1..n |-> AppendField(fs[i], m[fs[i].name])]

\* The fields of a good table.
LEMMA GoodField ==
  ASSUME NEW fs, NEW n, GoodTable(fs, n), NEW i \in 1..n
  PROVE  IsField(fs[i])
BY DEF GoodTable, IsField

\* They are bytes.
LEMMA PartsType ==
  ASSUME NEW fs, NEW n, NEW m, RawValues(fs, n, m)
  PROVE  Parts(PartsOf(fs, n, m), n)
<1>1. n \in Nat
  BY DEF RawValues, GoodTable
<1>2. ASSUME NEW i \in 1..n PROVE AppendField(fs[i], m[fs[i].name]) \in Seq(Byte)
  BY GoodField, FieldBytes DEF RawValues
<1> QED BY <1>1, <1>2 DEF Parts, PartsOf

\* No part is longer than the whole.
LEMMA PartsShort ==
  ASSUME NEW n, NEW parts, Parts(parts, n), NEW h, JoinsBack(parts, n, h), NEW i \in 1..n
  PROVE  /\ Len(parts[i]) \in Nat /\ Len(h[0]) \in Nat
         /\ Len(parts[i]) <= Len(h[0])
<1> DEFINE P(j) == j <= n => Len(h[j]) <= Len(h[0])
           S == {j \in Nat : P(j)}
<1>0. n \in Nat
  BY DEF Parts
<1>1. ASSUME NEW j \in 1..n
      PROVE  /\ parts[j] \in Seq(Byte) /\ h[j] \in Seq(Byte) /\ h[j - 1] = parts[j] \o h[j]
             /\ Len(h[j - 1]) = Len(parts[j]) + Len(h[j])
             /\ Len(parts[j]) \in Nat /\ Len(h[j]) \in Nat
  <2>1. j \in 0..n
    BY <1>0
  <2>2. parts[j] \in Seq(Byte) /\ h[j] \in Seq(Byte) /\ h[j - 1] = parts[j] \o h[j]
    BY <2>1 DEF Parts, JoinsBack
  <2>3. Len(parts[j] \o h[j]) = Len(parts[j]) + Len(h[j]) /\ Len(parts[j]) \in Nat /\ Len(h[j]) \in Nat
    BY <2>2, BytesConcat
  <2> QED BY <2>2, <2>3
<1>2. h[0] \in Seq(Byte) /\ Len(h[0]) \in Nat
  BY <1>0 DEF JoinsBack
<1>3. P(0)
  BY <1>2
<1>4. ASSUME NEW j \in Nat, P(j) PROVE P(j + 1)
  <2> SUFFICES ASSUME j + 1 <= n PROVE Len(h[j + 1]) <= Len(h[0])
    OBVIOUS
  <2>1. PICK k \in 1..n : k = j + 1 /\ k - 1 = j
    BY <1>0
  <2>2. Len(h[k - 1]) = Len(parts[k]) + Len(h[k]) /\ Len(parts[k]) \in Nat /\ Len(h[k]) \in Nat
    BY <1>1
  <2>3. Len(h[j]) <= Len(h[0])
    BY <1>0, <1>4
  <2>4. Len(h[j]) = Len(h[k - 1]) /\ Len(h[j + 1]) = Len(h[k])
    BY <2>1
  <2>5. PICK a \in Nat, b \in Nat, c \in Nat :
          a = Len(h[0]) /\ b = Len(h[k]) /\ c = Len(parts[k])
    BY <1>2, <2>2
  <2>6. Len(h[j]) = c + b /\ Len(h[j]) <= a
    BY <2>2, <2>3, <2>4, <2>5
  <2>7. b <= a
    BY <2>6
  <2> QED BY <2>4, <2>5, <2>7
<1>5. S = Nat
  <2> HIDE DEF P
  <2>1. S \in SUBSET Nat /\ 0 \in S /\ \A j \in S : j + 1 \in S
    BY <1>3, <1>4
  <2> HIDE DEF S
  <2> QED BY <2>1, SetInduction
<1>6. PICK k \in Nat : k = i - 1 /\ k <= n
  BY <1>0
<1>7. Len(h[k]) <= Len(h[0])
  <2>1. k \in S
    BY <1>5
  <2>2. P(k)
    <3> HIDE DEF P
    <3> QED BY <2>1
  <2> QED BY <1>6, <2>2
<1>8. Len(h[i - 1]) = Len(parts[i]) + Len(h[i]) /\ Len(parts[i]) \in Nat /\ Len(h[i]) \in Nat
  BY <1>1
<1>9. Len(h[i - 1]) = Len(h[k])
  BY <1>6
<1> HIDE DEF P, S
<1>10. PICK a \in Nat, b \in Nat, c \in Nat :
         a = Len(h[0]) /\ b = Len(h[i]) /\ c = Len(parts[i])
  BY <1>2, <1>8
<1>11. Len(h[k]) = c + b /\ Len(h[k]) <= a
  BY <1>7, <1>8, <1>9, <1>10
<1>12. c <= a
  BY <1>11
<1> QED BY <1>10, <1>12

\* d is what the fields after the i-th have been read as.
ReadFrom(fs, n, m, i, d) ==
  /\ d.ok /\ d.fields \in Seq(Found)
  /\ \A k \in 1..Len(d.fields) : \E j \in 1..n :
       j > i /\ IsWritten(fs[j], m[fs[j].name]) /\ Says(d.fields[k], fs[j], m[fs[j].name])
  /\ \A j \in 1..n : j > i /\ IsWritten(fs[j], m[fs[j].name]) =>
       \E k \in 1..Len(d.fields) : Says(d.fields[k], fs[j], m[fs[j].name])

\* A field in front of what has been read.
LEMMA ReadAnother ==
  ASSUME NEW fs, NEW n, NEW m, RawValues(fs, n, m), NEW i \in 1..n,
         NEW h \in [0..n -> Seq(Byte)],
         h[i - 1] = AppendField(fs[i], m[fs[i].name]) \o h[i],
         IsShort(fs[i], m[fs[i].name]),
         ReadFrom(fs, n, m, i, DecodeFields[h[i]])
  PROVE  ReadFrom(fs, n, m, i - 1, DecodeFields[h[i - 1]])
<1> DEFINE f == fs[i]
           v == m[f.name]
           d == DecodeFields[h[i]]
           e == DecodeFields[h[i - 1]]
           W(j) == IsWritten(fs[j], m[fs[j].name])
           Said(x, j) == Says(x, fs[j], m[fs[j].name])
<1>0. n \in Nat /\ i \in 0..n /\ i - 1 \in 0..n /\ h[i] \in Seq(Byte)
  BY DEF RawValues, GoodTable
<1>1. IsField(f) /\ IsRaw(f, v)
  BY GoodField DEF RawValues
<1>2. d.ok /\ d.fields \in Seq(Found)
  BY DEF ReadFrom
<1>3. \A k \in 1..Len(d.fields) : \E j \in 1..n : j > i /\ W(j) /\ Said(d.fields[k], j)
  BY DEF ReadFrom
<1>4. \A j \in 1..n : j > i /\ W(j) => \E k \in 1..Len(d.fields) : Said(d.fields[k], j)
  BY DEF ReadFrom
<1>5. CASE ~W(i)
  <2>1. AppendField(f, v) = << >>
    BY <1>1, <1>5, FieldBytes
  <2>2. h[i - 1] = h[i]
    BY <1>0, <2>1, BytesConcat
  <2>3. e = d
    BY <2>2
  <2> HIDE DEF W, Said, d, e
  <2>4. \A k \in 1..Len(e.fields) : \E j \in 1..n : j > i - 1 /\ W(j) /\ Said(e.fields[k], j)
    BY <1>0, <1>3, <2>3
  <2>5. \A j \in 1..n : j > i - 1 /\ W(j) => \E k \in 1..Len(e.fields) : Said(e.fields[k], j)
    <3>1. ASSUME NEW j \in 1..n, j > i - 1, W(j) PROVE \E k \in 1..Len(e.fields) : Said(e.fields[k], j)
      <4>1. j # i
        BY <1>5, <3>1
      <4>2. j > i
        BY <1>0, <3>1, <4>1
      <4> QED BY <1>4, <2>3, <3>1, <4>2
    <3> QED BY <3>1
  <2> QED BY <1>2, <2>3, <2>4, <2>5 DEF ReadFrom, W, Said, d, e
<1>6. CASE W(i)
  <2> DEFINE x == FirstField(AppendField(f, v) \o h[i])
  <2>1. x.ok /\ x \in Found /\ x.rest = h[i] /\ Says(x, f, v)
    BY <1>0, <1>1, <1>6, FieldRoundTrip
  <2>2. AppendField(f, v) # << >> /\ AppendField(f, v) \in Seq(Byte)
    BY <1>1, <1>6, FieldBytes
  <2>3. h[i - 1] # << >> /\ h[i - 1] \in Seq(Byte)
    BY <1>0, <2>2, BytesConcat
  <2>4. e.ok /\ e.fields = <<x>> \o d.fields
    <3>1. FirstField(h[i - 1]) = x
      OBVIOUS
    <3> HIDE DEF x
    <3> QED BY <1>2, <2>1, <2>3, <3>1, DecodeFirst, ZenonT(40)
  <2>5. Said(x, i)
    BY <2>1
  <2> HIDE DEF W, Said, d, e, x
  <2>6. e.fields \in Seq(Found) /\ Len(e.fields) = Len(d.fields) + 1 /\ Len(d.fields) \in Nat
        /\ e.fields[1] = x /\ \A k \in 1..Len(d.fields) : e.fields[k + 1] = d.fields[k]
    BY <1>2, <2>1, <2>4
  <2>7. ASSUME NEW k \in 1..Len(e.fields) PROVE \E j \in 1..n : j > i - 1 /\ W(j) /\ Said(e.fields[k], j)
    <3>1. CASE k = 1
      BY <1>0, <1>6, <2>5, <2>6, <3>1
    <3>2. CASE k # 1
      <4>1. PICK l \in 1..Len(d.fields) : k = l + 1
        BY <2>6, <3>2
      <4>2. e.fields[k] = d.fields[l]
        BY <2>6, <4>1
      <4> QED BY <1>0, <1>3, <4>2
    <3> QED BY <3>1, <3>2
  <2>8. ASSUME NEW j \in 1..n, j > i - 1, W(j) PROVE \E k \in 1..Len(e.fields) : Said(e.fields[k], j)
    <3>1. CASE j = i
      BY <2>5, <2>6, <3>1
    <3>2. CASE j # i
      <4>1. j > i
        BY <1>0, <2>8, <3>2
      <4>2. PICK k \in 1..Len(d.fields) : Said(d.fields[k], j)
        BY <1>4, <2>8, <4>1
      <4>3. k + 1 \in 1..Len(e.fields) /\ e.fields[k + 1] = d.fields[k]
        BY <2>6
      <4> QED BY <4>2, <4>3
    <3> QED BY <3>1, <3>2
  <2> QED BY <2>4, <2>6, <2>7, <2>8 DEF ReadFrom, W, Said, d, e
<1> QED BY <1>5, <1>6

\* What has been written is read, every field, and nothing else.
LEMMA FieldsRoundTrip ==
  ASSUME NEW fs, NEW n, NEW m, RawValues(fs, n, m), NEW buf,
         buf = FlattenSeq(PartsOf(fs, n, m)), Len(buf) < Limit
  PROVE  buf \in Seq(Byte) /\ ReadFrom(fs, n, m, 0, DecodeFields[buf])
<1> DEFINE parts == PartsOf(fs, n, m)
<1>0. n \in Nat /\ GoodTable(fs, n)
  BY DEF RawValues, GoodTable
<1>1. Parts(parts, n)
  BY PartsType
<1>2. PICK h : JoinsBack(parts, n, h) /\ buf = h[0]
  BY <1>0, <1>1, FlatSuffix
<1>3. h \in [0..n -> Seq(Byte)] /\ h[n] = << >>
  BY <1>2 DEF JoinsBack
<1>4. ASSUME NEW i \in 1..n PROVE IsShort(fs[i], m[fs[i].name])
  <2>1. Len(parts[i]) \in Nat /\ Len(h[0]) \in Nat /\ Len(parts[i]) <= Len(h[0])
    <3> HIDE DEF parts
    <3> QED BY <1>1, <1>2, PartsShort
  <2>2. parts[i] = AppendField(fs[i], m[fs[i].name])
    BY DEF PartsOf
  <2>3. IsField(fs[i]) /\ IsRaw(fs[i], m[fs[i].name])
    BY <1>0, GoodField DEF RawValues
  <2>4. fs[i].kind \in {"string", "message"} => Len(m[fs[i].name]) <= Len(parts[i]) /\ m[fs[i].name] \in Seq(Byte)
    BY <2>2, <2>3, FieldBytes DEF IsRaw
  <2>5. fs[i].kind \in {"string", "message"} => Len(m[fs[i].name]) < Limit
    <3> HIDE DEF parts
    <3> QED BY <1>2, <2>1, <2>4, CodecAssumption DEF CodecAssumption
  <2> QED BY <2>5 DEF IsShort
<1> DEFINE P(j) == j <= n => ReadFrom(fs, n, m, n - j, DecodeFields[h[n - j]])
           S == {j \in Nat : P(j)}
<1>5. P(0)
  <2>1. ReadFrom(fs, n, m, n, DecodeFields[<< >>])
    <3> DEFINE d == DecodeFields[<< >>]
    <3>1. d.ok /\ d.fields = << >>
      BY DecodeNothing
    <3> HIDE DEF d
    <3>2. d.fields \in Seq(Found) /\ 1..Len(d.fields) = {}
      BY <3>1
    <3>3. \A j \in 1..n : ~(j > n)
      BY <1>0
    <3> QED BY <3>1, <3>2, <3>3 DEF ReadFrom, d
  <2>2. n - 0 = n
    BY <1>0
  <2> QED BY <1>3, <2>1, <2>2
<1>6. ASSUME NEW j \in Nat, P(j) PROVE P(j + 1)
  <2> SUFFICES ASSUME j + 1 <= n PROVE ReadFrom(fs, n, m, n - (j + 1), DecodeFields[h[n - (j + 1)]])
    OBVIOUS
  <2>1. PICK i \in 1..n : i = n - j /\ i - 1 = n - (j + 1)
    BY <1>0
  <2>2. ReadFrom(fs, n, m, i, DecodeFields[h[i]])
    BY <1>0, <1>6, <2>1
  <2>3. h[i - 1] = AppendField(fs[i], m[fs[i].name]) \o h[i]
    BY <1>2 DEF JoinsBack, PartsOf
  <2>4. ReadFrom(fs, n, m, i - 1, DecodeFields[h[i - 1]])
    BY <1>3, <1>4, <2>2, <2>3, ReadAnother
  <2> QED BY <2>1, <2>4
<1>7. S = Nat
  <2> HIDE DEF P
  <2>1. S \in SUBSET Nat /\ 0 \in S /\ \A j \in S : j + 1 \in S
    BY <1>5, <1>6
  <2> HIDE DEF S
  <2> QED BY <2>1, SetInduction
<1>8. P(n)
  <2>1. n \in S
    BY <1>0, <1>7
  <2> HIDE DEF P
  <2> QED BY <2>1
<1>9. n - n = 0 /\ n <= n
  BY <1>0
<1>10. ReadFrom(fs, n, m, 0, DecodeFields[h[0]])
  BY <1>8, <1>9
<1> QED BY <1>0, <1>2, <1>3, <1>10

-----------------------------------------------------------------------------
(***************************************************************************)
(* The fields by name.                                                     *)
(***************************************************************************)
\* Of some of n numbers there is a largest.
LEMMA Largest ==
  ASSUME NEW n \in Nat, NEW S \in SUBSET (1..n), S # {}
  PROVE  \E i \in S : \A j \in S : j <= i
<1> DEFINE T == {n - i : i \in S}
<1>1. T \subseteq Nat /\ T # {}
  <2>1. \A i \in S : n - i \in Nat
    OBVIOUS
  <2>2. T \subseteq Nat
    BY <2>1
  <2>3. T # {}
    OBVIOUS
  <2> QED BY <2>2, <2>3
<1>2. PICK x \in T : \A y \in T : ~ (<<y, x>> \in OpToRel(<, Nat))
  BY <1>1, WFMin, NatLessThanWellFounded
<1>3. \A y \in T : ~(y < x)
  BY <1>1, <1>2 DEF OpToRel
<1>4. PICK i \in S : x = n - i
  OBVIOUS
<1>5. ASSUME NEW j \in S PROVE j <= i
  <2>1. ~(n - j < x)
    BY <1>3
  <2> QED BY <1>4, <2>1
<1> QED BY <1>4, <1>5

\* Every type has a good table.
LEMMA Tables == \A type \in Typenames : \E n \in Nat : GoodTable(Fields[type], n)
<1> SUFFICES ASSUME NEW type \in Typenames PROVE \E n : GoodTable(Fields[type], n)
  BY DEF GoodTable
<1> QED BY EmptyTable, OneTable, TwoTable, HandshakeTable, ControlTable, ReceiptTable, StartTable,
           MetadataTable DEF Typenames, Smaller, Smallest

\* The fields of a type, by their places and by their names.
LEMMA TableFields ==
  ASSUME NEW type \in Typenames, NEW n, GoodTable(Fields[type], n)
  PROVE  /\ n \in Nat /\ Fields[type] \in Seq(Table(type)) /\ DOMAIN Fields[type] = 1..n
         /\ Table(type) = {Fields[type][i] : i \in 1..n}
         /\ \A f \in Table(type) : IsField(f) /\ f.name \in FieldNames(type) /\ FieldOf(type, f.name) = f
         /\ \A name \in FieldNames(type) : FieldOf(type, name) \in Table(type) /\ FieldOf(type, name).name = name
<1> DEFINE fs == Fields[type]
<1>1. n \in Nat /\ fs = [i \in 1..n |-> fs[i]]
  BY DEF GoodTable
<1>2. \A i, j \in 1..n : fs[i].no = fs[j].no \/ fs[i].name = fs[j].name => i = j
  BY DEF GoodTable
<1>3. \A i \in 1..n : IsField(fs[i])
  BY GoodField
<1> HIDE DEF fs
<1>4. DOMAIN fs = 1..n
  BY <1>1
<1>5. Table(type) = {fs[i] : i \in 1..n}
  BY <1>4 DEF Table, fs, ToSet
<1>6. fs \in Seq(Table(type))
  BY <1>1, <1>5
<1>7. ASSUME NEW f \in Table(type) PROVE IsField(f) /\ f.name \in FieldNames(type) /\ FieldOf(type, f.name) = f
  <2>1. PICK i \in 1..n : f = fs[i]
    BY <1>5
  <2>2. \A g \in Table(type) : g.name = f.name => g = f
    BY <1>2, <1>5, <2>1
  <2>3. FieldOf(type, f.name) = f
    BY <2>2 DEF FieldOf
  <2> QED BY <1>3, <2>1, <2>3 DEF FieldNames
<1>8. ASSUME NEW name \in FieldNames(type) PROVE FieldOf(type, name) \in Table(type) /\ FieldOf(type, name).name = name
  <2>1. PICK f \in Table(type) : f.name = name
    BY DEF FieldNames
  <2> QED BY <1>7, <2>1
<1> QED BY <1>1, <1>4, <1>5, <1>6, <1>7, <1>8 DEF fs

\* The fields read that have the number of f, and the last of them.
Said(d, f) == {i \in DOMAIN d.fields : d.fields[i].no = f.no}
LastSaid(d, f) == d.fields[CHOOSE i \in Said(d, f) : \A j \in Said(d, f) : j <= i]

\* What d has of a field f with the value v.
Reads(d, f, v) ==
  /\ Said(d, f) = {} <=> ~IsWritten(f, v)
  /\ \A i \in Said(d, f) : Says(d.fields[i], f, v)
  /\ IsWritten(f, v) => Says(LastSaid(d, f), f, v)

\* Of the fields that were written at most one is f.
LEMMA ReadsOne ==
  ASSUME NEW fs, NEW n, NEW m, GoodTable(fs, n), NEW d, ReadFrom(fs, n, m, 0, d), NEW j \in 1..n
  PROVE  Reads(d, fs[j], m[fs[j].name])
<1> DEFINE f == fs[j]
           v == m[f.name]
<1>0. n \in Nat /\ d.fields \in Seq(Found) /\ Len(d.fields) \in Nat /\ DOMAIN d.fields = 1..Len(d.fields)
  BY DEF ReadFrom, GoodTable
<1>1. ASSUME NEW k \in Said(d, f) PROVE Says(d.fields[k], f, v) /\ IsWritten(f, v)
  <2>1. k \in 1..Len(d.fields) /\ d.fields[k].no = f.no
    BY <1>0 DEF Said
  <2>2. PICK i \in 1..n : IsWritten(fs[i], m[fs[i].name]) /\ Says(d.fields[k], fs[i], m[fs[i].name])
    BY <2>1 DEF ReadFrom
  <2>3. fs[i].no = f.no
    BY <2>1, <2>2 DEF Says
  <2>4. i = j
    BY <2>3 DEF GoodTable
  <2> QED BY <2>2, <2>4
<1>2. ASSUME IsWritten(f, v) PROVE Said(d, f) # {}
  <2>0. j > 0
    OBVIOUS
  <2>1. PICK k \in 1..Len(d.fields) : Says(d.fields[k], f, v)
    BY <1>2, <2>0 DEF ReadFrom
  <2> QED BY <1>0, <2>1 DEF Said, Says
<1>3. ASSUME IsWritten(f, v) PROVE Says(LastSaid(d, f), f, v)
  <2> DEFINE S == Said(d, f)
  <2>1. S \in SUBSET (1..Len(d.fields)) /\ S # {}
    BY <1>0, <1>2, <1>3 DEF Said
  <2> HIDE DEF S
  <2>2. \E i \in S : \A k \in S : k <= i
    BY <1>0, <2>1, Largest
  <2>3. (CHOOSE i \in S : \A k \in S : k <= i) \in S
    BY <2>2
  <2> QED BY <1>1, <2>3 DEF LastSaid, S
<1> HIDE DEF f, v
<1>4. Reads(d, f, v)
  BY <1>1, <1>2, <1>3 DEF Reads
<1> QED BY <1>4 DEF f, v

\* A message whose messages are bytes: it is as long as it may be, and read
\* field by field.
LEMMA RawRoundTrip ==
  ASSUME NEW type \in Typenames, type # "ProbeRequest", NEW m,
         \A f \in Table(type) : IsRaw(f, m[f.name])
  PROVE  /\ AppendFields(type, m) \in Seq(Byte)
         /\ Len(AppendFields(type, m)) < Limit =>
              /\ DecodeFields[AppendFields(type, m)].ok
              /\ \A f \in Table(type) : Reads(DecodeFields[AppendFields(type, m)], f, m[f.name])
<1> DEFINE fs == Fields[type]
<1>1. PICK n \in Nat : GoodTable(fs, n)
  BY Tables
<1>2. DOMAIN fs = 1..n /\ Table(type) = {fs[i] : i \in 1..n}
  BY <1>1, TableFields
<1> HIDE DEF fs
<1>3. RawValues(fs, n, m)
  BY <1>1, <1>2 DEF RawValues
<1> DEFINE buf == FlattenSeq(PartsOf(fs, n, m))
<1>4. AppendFields(type, m) = buf
  <2>1. PartsOf(fs, n, m) = [i \in DOMAIN fs |-> AppendField(fs[i], m[fs[i].name])]
    BY <1>2 DEF PartsOf
  <2> QED BY <2>1 DEF AppendFields, fs
<1>5. buf \in Seq(Byte)
  <2>1. Parts(PartsOf(fs, n, m), n)
    BY <1>3, PartsType
  <2>2. PICK h : JoinsBack(PartsOf(fs, n, m), n, h) /\ buf = h[0]
    BY <2>1, FlatSuffix
  <2> QED BY <2>2 DEF JoinsBack
<1>6. ASSUME Len(buf) < Limit
      PROVE  DecodeFields[buf].ok /\ \A f \in Table(type) : Reads(DecodeFields[buf], f, m[f.name])
  <2>1. ReadFrom(fs, n, m, 0, DecodeFields[buf])
    BY <1>3, <1>6, FieldsRoundTrip
  <2> HIDE DEF buf
  <2>2. \A i \in 1..n : Reads(DecodeFields[buf], fs[i], m[fs[i].name])
    BY <1>1, <2>1, ReadsOne
  <2>3. DecodeFields[buf].ok
    BY <2>1 DEF ReadFrom
  <2> QED BY <1>2, <2>2, <2>3
<1> HIDE DEF buf
<1> QED BY <1>4, <1>5, <1>6

-----------------------------------------------------------------------------
(***************************************************************************)
(* A message from its fields.                                              *)
(***************************************************************************)
\* Which types have messages of which types in them.
LEMMA Messages ==
  /\ \A type \in Smallest : \A f \in Table(type) : f.kind # "message"
  /\ \A type \in Smaller : \A f \in Table(type) : f.kind = "message" => f.name \in Smallest
  /\ \A type \in Typenames : \A f \in Table(type) : f.kind = "message" => f.name \in Smaller
  /\ \E f \in Table("TransferStart") : f.kind = "number"
<1>0. \A type \in Typenames : \E n \in Nat : Table(type) = {Fields[type][i] : i \in 1..n} /\ DOMAIN Fields[type] = 1..n
  <2> SUFFICES ASSUME NEW type \in Typenames
               PROVE \E n \in Nat : Table(type) = {Fields[type][i] : i \in 1..n} /\ DOMAIN Fields[type] = 1..n
    OBVIOUS
  <2>1. PICK n \in Nat : GoodTable(Fields[type], n)
    BY Tables
  <2> QED BY <2>1, TableFields
<1>1. \A type \in Smallest : \A i \in DOMAIN Fields[type] : Fields[type][i].kind # "message"
  <2>1. \A i \in DOMAIN Fields["Metadata"] : Fields["Metadata"][i].kind # "message"
    BY DEF Fields, Metadata, Str, Num
  <2>2. \A i \in DOMAIN Fields["Handshake"] : Fields["Handshake"][i].kind # "message"
    BY DEF Fields, Handshake, Str, Num
  <2>3. \A i \in DOMAIN Fields["Cancel"] : Fields["Cancel"][i].kind # "message"
    BY DEF Fields, Cancel, Str
  <2>4. \A i \in DOMAIN Fields["ProbeResponse"] : Fields["ProbeResponse"][i].kind # "message"
    BY DEF Fields, ProbeResponse, Str
  <2>5. \A i \in DOMAIN Fields["BytesReceived"] : Fields["BytesReceived"][i].kind # "message"
    BY DEF Fields, BytesReceived, Num
  <2>6. \A i \in DOMAIN Fields["Received"] : Fields["Received"][i].kind # "message"
    BY DEF Fields, Received, Flag, Str
  <2>7. \A i \in DOMAIN Fields["Failed"] : Fields["Failed"][i].kind # "message"
    BY DEF Fields, Failed, Num, Str
  <2>8. \A i \in DOMAIN Fields["Nacked"] : Fields["Nacked"][i].kind # "message"
    BY DEF Fields, Nacked, Str
  <2>9. Fields["ProbeRequest"] = << >> /\ Fields["Acked"] = << >>
    BY DEF Fields
  <2>10. \A type \in Smallest :
            type \in {"Metadata", "Handshake", "Cancel", "ProbeRequest", "ProbeResponse",
                     "BytesReceived", "Received", "Failed", "Acked", "Nacked"}
    BY DEF Smallest
  <2> QED BY <2>1, <2>2, <2>3, <2>4, <2>5, <2>6, <2>7, <2>8, <2>9, <2>10
<1>2. /\ \A i \in DOMAIN Fields["TransferStart"] :
           Fields["TransferStart"][i].kind = "message" => Fields["TransferStart"][i].name \in Smallest
      /\ 3 \in DOMAIN Fields["TransferStart"] /\ Fields["TransferStart"][3].kind = "number"
  BY DEF Smallest, Fields, TransferStart, Str, Num, Msg
<1>3. /\ \A i \in DOMAIN Fields["ControlFrame"] :
           Fields["ControlFrame"][i].kind = "message" => Fields["ControlFrame"][i].name \in Smaller
      /\ \A i \in DOMAIN Fields["ReceiptFrame"] :
           Fields["ReceiptFrame"][i].kind = "message" => Fields["ReceiptFrame"][i].name \in Smaller
  <2>1. \A i \in DOMAIN Fields["ControlFrame"] : Fields["ControlFrame"][i].name \in Smaller
    BY DEF Smallest, Smaller, Fields, ControlFrame, Msg
  <2>2. \A i \in DOMAIN Fields["ReceiptFrame"] :
           Fields["ReceiptFrame"][i].kind = "message" => Fields["ReceiptFrame"][i].name \in Smaller
    BY DEF Smallest, Smaller, Fields, ReceiptFrame, Str, Msg
  <2> QED BY <2>1, <2>2
<1>4. Smallest \subseteq Smaller /\ Smaller \subseteq Typenames /\ "TransferStart" \in Typenames
      /\ (\A type \in Smaller : type \in Smallest \/ type = "TransferStart")
      /\ (\A type \in Typenames : type \in Smaller \/ type = "ControlFrame" \/ type = "ReceiptFrame")
  BY DEF Smaller, Typenames
<1> HIDE DEF Smallest, Smaller, Typenames
<1>5. \A type \in Smallest : \A f \in Table(type) : f.kind # "message"
  BY <1>0, <1>1, <1>4
<1>6. \A f \in Table("TransferStart") : f.kind = "message" => f.name \in Smallest
  BY <1>0, <1>2, <1>4
<1>7. \E f \in Table("TransferStart") : f.kind = "number"
  BY <1>0, <1>2, <1>4
<1>8. \A type \in {"ControlFrame", "ReceiptFrame"} : \A f \in Table(type) : f.kind = "message" => f.name \in Smaller
  <2>1. "ControlFrame" \in Typenames /\ "ReceiptFrame" \in Typenames
    BY DEF Typenames
  <2> QED BY <1>0, <1>3, <2>1
<1>9. ASSUME NEW type \in Smaller, NEW f \in Table(type), f.kind = "message" PROVE f.name \in Smallest
  BY <1>4, <1>5, <1>6, <1>9
<1>10. ASSUME NEW type \in Typenames, NEW f \in Table(type), f.kind = "message" PROVE f.name \in Smaller
  <2>1. CASE type \in Smaller
    BY <1>4, <1>9, <1>10, <2>1
  <2>2. CASE type \in {"ControlFrame", "ReceiptFrame"}
    BY <1>8, <1>10, <2>2
  <2>3. type \in Smaller \/ type \in {"ControlFrame", "ReceiptFrame"}
    BY DEF Typenames
  <2> QED BY <2>1, <2>2, <2>3
<1> QED BY <1>5, <1>7, <1>9, <1>10

\* The value of a field, x what a message has been read as.
ValueOf(d, f, x) ==
  IF Said(d, f) = {} THEN ZeroOf(f.kind)
  ELSE CASE f.kind = "string" -> LastSaid(d, f).data
         [] f.kind = "number" -> LastSaid(d, f).value
         [] f.kind = "bool" -> LastSaid(d, f).value # 0
         [] f.kind = "message" -> x

\* It is the value that was written.
LEMMA ValueRead ==
  ASSUME NEW f, IsField(f), NEW v, IsRaw(f, v), NEW d, Reads(d, f, v), NEW x
  PROVE  ValueOf(d, f, x) = IF f.kind # "message" THEN v ELSE IF v = << >> THEN Nil ELSE x
<1> DEFINE l == LastSaid(d, f)
           y == ValueOf(d, f, x)
<1>1. CASE f.kind = "string"
  <2>1. IsWritten(f, v) <=> v # << >>
    BY <1>1 DEF IsWritten
  <2>2. Said(d, f) = {} => ValueOf(d, f, x) = << >>
    BY <1>1 DEF ValueOf, ZeroOf
  <2>3. Said(d, f) # {} => ValueOf(d, f, x) = l.data
    BY <1>1 DEF ValueOf
  <2>4. Said(d, f) # {} => l.data = v
    BY <1>1 DEF Reads, Says, DataOf
  <2>5. Said(d, f) = {} => v = << >>
    BY <2>1 DEF Reads
  <2> HIDE DEF l
  <2> QED BY <1>1, <2>2, <2>3, <2>4, <2>5
<1>2. CASE f.kind = "message"
  <2>1. IsWritten(f, v) <=> v # << >>
    BY <1>2 DEF IsWritten
  <2>2. Said(d, f) = {} => ValueOf(d, f, x) = Nil
    BY <1>2 DEF ValueOf, ZeroOf
  <2>3. Said(d, f) # {} => ValueOf(d, f, x) = x
    BY <1>2 DEF ValueOf
  <2>4. Said(d, f) = {} <=> v = << >>
    BY <2>1 DEF Reads
  <2> QED BY <1>2, <2>2, <2>3, <2>4
<1>3. CASE f.kind = "number"
  <2>1. Said(d, f) # {} /\ l.value = v
    BY <1>3 DEF IsWritten, Reads, Says, NumberOf
  <2>2. ValueOf(d, f, x) = l.value
    BY <1>3, <2>1 DEF ValueOf
  <2> HIDE DEF l
  <2> QED BY <1>3, <2>1, <2>2
<1>4. CASE f.kind = "bool"
  <2>0. v \in BOOLEAN /\ (IsWritten(f, v) <=> v)
    BY <1>4 DEF IsRaw, IsWritten
  <2>1. CASE v = TRUE
    <3>1. Said(d, f) # {} /\ l.value = 1
      BY <1>4, <2>0, <2>1 DEF Reads, Says, NumberOf
    <3>2. ValueOf(d, f, x) = (l.value # 0)
      BY <1>4, <3>1 DEF ValueOf
    <3>3. (l.value # 0) = TRUE
      BY <3>1
    <3> HIDE DEF l
    <3> QED BY <1>4, <2>1, <3>2, <3>3
  <2>2. CASE v = FALSE
    <3>1. Said(d, f) = {}
      BY <2>0, <2>2 DEF Reads
    <3>2. ValueOf(d, f, x) = FALSE
      BY <1>4, <3>1 DEF ValueOf, ZeroOf
    <3> QED BY <1>4, <2>2, <3>2
  <2> QED BY <2>0, <2>1, <2>2
<1> QED BY <1>1, <1>2, <1>3, <1>4 DEF IsField, Kinds

\* A message of a type without messages in it.
LEMMA Unmarshal0Fields ==
  ASSUME NEW type \in Smallest, type \notin {"ProbeRequest", "Acked"},
         NEW buf, NEW m, DecodeFields[buf].ok,
         \A f \in Table(type) : IsRaw(f, m[f.name]) /\ Reads(DecodeFields[buf], f, m[f.name])
  PROVE  Unmarshal0(type, buf) = [ok |-> TRUE, msg |-> [name \in FieldNames(type) |-> m[name]]]
<1> DEFINE d == DecodeFields[buf]
           F(name) == FieldOf(type, name)
<1>1. \A f \in Table(type) : f.kind # "message"
  BY Messages
<1>2. Unmarshal0(type, buf) = [ok |-> TRUE, msg |-> [name \in FieldNames(type) |-> ValueOf(d, F(name), Failure.msg)]]
  BY <1>1 DEF Unmarshal0, SetFields, ValueOf, Said, LastSaid
<1>3. ASSUME NEW name \in FieldNames(type) PROVE ValueOf(d, F(name), Failure.msg) = m[name]
  <2>1. PICK n \in Nat : GoodTable(Fields[type], n)
    BY Tables DEF Typenames, Smaller
  <2>2. F(name) \in Table(type) /\ F(name).name = name /\ IsField(F(name))
    BY <2>1, TableFields DEF Typenames, Smaller
  <2> HIDE DEF d
  <2> QED BY <1>1, <2>2, ValueRead DEF d
<1> QED BY <1>2, <1>3

\* The same of a type with messages of these in it.
LEMMA Unmarshal1Fields ==
  ASSUME NEW type \in Smaller, type \notin {"ProbeRequest", "Acked"},
         NEW buf, NEW m, DecodeFields[buf].ok,
         \A f \in Table(type) :
           /\ IsRaw(f, m[f.name]) /\ Reads(DecodeFields[buf], f, m[f.name])
           /\ f.kind = "message" /\ m[f.name] # << >> => Unmarshal0(f.name, m[f.name]).ok
  PROVE  Unmarshal1(type, buf) =
           [ok |-> TRUE,
            msg |-> [name \in FieldNames(type) |->
                       IF FieldOf(type, name).kind # "message" THEN m[name]
                       ELSE IF m[name] = << >> THEN Nil ELSE Unmarshal0(name, m[name]).msg]]
<1> DEFINE d == DecodeFields[buf]
           F(name) == FieldOf(type, name)
           X(name) == Unmarshal0(F(name).name, LastSaid(d, F(name)).data).msg
<1>1. ASSUME NEW f \in Table(type), f.kind = "message", NEW i \in Said(d, f)
      PROVE  Unmarshal0(f.name, d.fields[i].data).ok
  <2>1. Says(d.fields[i], f, m[f.name]) /\ IsWritten(f, m[f.name])
    BY DEF Reads
  <2>2. d.fields[i].data = m[f.name] /\ m[f.name] # << >>
    BY <1>1, <2>1 DEF Says, DataOf, IsWritten
  <2> QED BY <1>1, <2>2
<1>2. Unmarshal1(type, buf) = [ok |-> TRUE, msg |-> [name \in FieldNames(type) |-> ValueOf(d, F(name), X(name))]]
  BY <1>1 DEF Unmarshal1, SetFields, ValueOf, Said, LastSaid
<1>3. ASSUME NEW name \in FieldNames(type)
      PROVE  ValueOf(d, F(name), X(name)) =
               IF F(name).kind # "message" THEN m[name]
               ELSE IF m[name] = << >> THEN Nil ELSE Unmarshal0(name, m[name]).msg
  <2>1. PICK n \in Nat : GoodTable(Fields[type], n)
    BY Tables DEF Typenames
  <2>2. PICK f \in Table(type) : f = F(name) /\ f.name = name /\ IsField(f)
    BY <2>1, TableFields DEF Typenames
  <2>3. IsRaw(f, m[name]) /\ Reads(d, f, m[name])
    BY <2>2
  <2>4. f.kind = "message" /\ m[name] # << >> => LastSaid(d, f).data = m[name]
    BY <2>3 DEF Reads, IsWritten, Says, DataOf
  <2>5. ValueOf(d, f, X(name)) = IF f.kind # "message" THEN m[name] ELSE IF m[name] = << >> THEN Nil ELSE X(name)
    <3> HIDE DEF d, X
    <3> QED BY <2>2, <2>3, ValueRead
  <2>6. f.kind = "message" /\ m[name] # << >> => X(name) = Unmarshal0(name, m[name]).msg
    BY <2>2, <2>4
  <2> HIDE DEF d, X
  <2> QED BY <2>2, <2>5, <2>6
<1> HIDE DEF X, d
<1> QED BY <1>2, <1>3

\* The same of any type.
LEMMA UnmarshalFields ==
  ASSUME NEW type \in Typenames, type \notin {"ProbeRequest", "Acked"},
         NEW buf, NEW m, DecodeFields[buf].ok,
         \A f \in Table(type) :
           /\ IsRaw(f, m[f.name]) /\ Reads(DecodeFields[buf], f, m[f.name])
           /\ f.kind = "message" /\ m[f.name] # << >> => Unmarshal1(f.name, m[f.name]).ok
  PROVE  Unmarshal(type, buf) =
           [ok |-> TRUE,
            msg |-> [name \in FieldNames(type) |->
                       IF FieldOf(type, name).kind # "message" THEN m[name]
                       ELSE IF m[name] = << >> THEN Nil ELSE Unmarshal1(name, m[name]).msg]]
<1> DEFINE d == DecodeFields[buf]
           F(name) == FieldOf(type, name)
           X(name) == Unmarshal1(F(name).name, LastSaid(d, F(name)).data).msg
<1>1. ASSUME NEW f \in Table(type), f.kind = "message", NEW i \in Said(d, f)
      PROVE  Unmarshal1(f.name, d.fields[i].data).ok
  <2>1. Says(d.fields[i], f, m[f.name]) /\ IsWritten(f, m[f.name])
    BY DEF Reads
  <2>2. d.fields[i].data = m[f.name] /\ m[f.name] # << >>
    BY <1>1, <2>1 DEF Says, DataOf, IsWritten
  <2> QED BY <1>1, <2>2
<1>2. Unmarshal(type, buf) = [ok |-> TRUE, msg |-> [name \in FieldNames(type) |-> ValueOf(d, F(name), X(name))]]
  BY <1>1 DEF Unmarshal, SetFields, ValueOf, Said, LastSaid
<1>3. ASSUME NEW name \in FieldNames(type)
      PROVE  ValueOf(d, F(name), X(name)) =
               IF F(name).kind # "message" THEN m[name]
               ELSE IF m[name] = << >> THEN Nil ELSE Unmarshal1(name, m[name]).msg
  <2>1. PICK n \in Nat : GoodTable(Fields[type], n)
    BY Tables
  <2>2. PICK f \in Table(type) : f = F(name) /\ f.name = name /\ IsField(f)
    BY <2>1, TableFields
  <2>3. IsRaw(f, m[name]) /\ Reads(d, f, m[name])
    BY <2>2
  <2>4. f.kind = "message" /\ m[name] # << >> => LastSaid(d, f).data = m[name]
    BY <2>3 DEF Reads, IsWritten, Says, DataOf
  <2>5. ValueOf(d, f, X(name)) = IF f.kind # "message" THEN m[name] ELSE IF m[name] = << >> THEN Nil ELSE X(name)
    <3> HIDE DEF d, X
    <3> QED BY <2>2, <2>3, ValueRead
  <2>6. f.kind = "message" /\ m[name] # << >> => X(name) = Unmarshal1(name, m[name]).msg
    BY <2>2, <2>4
  <2> HIDE DEF d, X
  <2> QED BY <2>2, <2>5, <2>6
<1> HIDE DEF X, d
<1> QED BY <1>2, <1>3

-----------------------------------------------------------------------------
(***************************************************************************)
(* What a message without content is.                                      *)
(***************************************************************************)
\* The fields of a type by name.
LEMMA TypeTable ==
  ASSUME NEW type \in Typenames
  PROVE  /\ \A f \in Table(type) : IsField(f) /\ f.name \in FieldNames(type) /\ FieldOf(type, f.name) = f
         /\ \A name \in FieldNames(type) : FieldOf(type, name) \in Table(type) /\ FieldOf(type, name).name = name
<1>1. PICK n \in Nat : GoodTable(Fields[type], n)
  BY Tables
<1> QED BY <1>1, TableFields

\* These have none.
LEMMA NoFields ==
  ASSUME NEW type \in {"ProbeRequest", "Acked"}
  PROVE  Table(type) = {} /\ FieldNames(type) = {}
<1>1. GoodTable(Fields[type], 0) /\ type \in Typenames
  BY EmptyTable DEF Typenames, Smaller, Smallest
<1>2. Table(type) = {Fields[type][i] : i \in 1..0}
  BY <1>1, TableFields
<1> QED BY <1>2 DEF FieldNames

\* A message is written as bytes, at least as many as each of its fields has.
LEMMA RawBytes ==
  ASSUME NEW type \in Typenames, NEW m, \A f \in Table(type) : IsRaw(f, m[f.name])
  PROVE  /\ AppendFields(type, m) \in Seq(Byte)
         /\ \A f \in Table(type) :
              f.kind \in {"string", "message"} =>
                m[f.name] \in Seq(Byte) /\ Len(m[f.name]) <= Len(AppendFields(type, m))
<1> DEFINE fs == Fields[type]
           buf == AppendFields(type, m)
<1>0. PICK n \in Nat : GoodTable(fs, n)
  BY Tables
<1>1. CASE type = "ProbeRequest"
  <2>1. buf = <<0>> /\ Table(type) = {}
    BY <1>1, NoFields DEF AppendFields
  <2>2. 0 \in Byte
    BY DEF Byte
  <2> HIDE DEF buf
  <2> QED BY <2>1, <2>2 DEF buf
<1>2. CASE type # "ProbeRequest"
  <2>1. DOMAIN fs = 1..n /\ Table(type) = {fs[i] : i \in 1..n}
    BY <1>0, TableFields
  <2> HIDE DEF fs
  <2> DEFINE parts == PartsOf(fs, n, m)
  <2>2. RawValues(fs, n, m)
    BY <1>0, <2>1 DEF RawValues
  <2>3. Parts(parts, n)
    BY <2>2, PartsType
  <2>4. PICK h : JoinsBack(parts, n, h) /\ FlattenSeq(parts) = h[0]
    BY <2>3, FlatSuffix
  <2>5. buf = h[0]
    <3>1. parts = [i \in DOMAIN fs |-> AppendField(fs[i], m[fs[i].name])]
      BY <2>1 DEF PartsOf
    <3> QED BY <1>2, <2>4, <3>1 DEF AppendFields, fs
  <2>6. buf \in Seq(Byte) /\ Len(buf) \in Nat
    BY <2>4, <2>5 DEF JoinsBack
  <2>7. ASSUME NEW f \in Table(type), f.kind \in {"string", "message"}
        PROVE  m[f.name] \in Seq(Byte) /\ Len(m[f.name]) <= Len(buf)
    <3>1. PICK i \in 1..n : f = fs[i]
      BY <2>1
    <3>2. parts[i] = AppendField(f, m[f.name])
      BY <3>1 DEF PartsOf
    <3>3. m[f.name] \in Seq(Byte) /\ Len(m[f.name]) \in Nat
      <4>1. IsRaw(f, m[f.name])
        OBVIOUS
      <4>2. m[f.name] \in Seq(Byte)
        BY <2>7, <4>1 DEF IsRaw
      <4> QED BY <4>2
    <3>4. Len(m[f.name]) <= Len(parts[i])
      <4>1. IsField(f)
        BY TypeTable
      <4> QED BY <2>7, <3>2, <4>1, FieldBytes
    <3>5. Len(parts[i]) <= Len(buf) /\ Len(parts[i]) \in Nat
      <4> HIDE DEF parts, buf
      <4> QED BY <2>3, <2>4, <2>5, PartsShort
    <3> HIDE DEF parts, buf
    <3> QED BY <2>6, <3>3, <3>4, <3>5
  <2> HIDE DEF buf
  <2> QED BY <2>6, <2>7 DEF buf
<1> QED BY <1>1, <1>2

\* Nothing and nothing is nothing.
LEMMA NothingJoined ==
  ASSUME NEW n, NEW parts, Parts(parts, n), NEW h, JoinsBack(parts, n, h),
         \A i \in 1..n : parts[i] = << >>
  PROVE  h[0] = << >>
<1> DEFINE P(j) == j <= n => h[n - j] = << >>
           S == {j \in Nat : P(j)}
<1>0. n \in Nat
  BY DEF Parts
<1>1. P(0)
  BY <1>0 DEF JoinsBack
<1>2. ASSUME NEW j \in Nat, P(j) PROVE P(j + 1)
  <2> SUFFICES ASSUME j + 1 <= n PROVE h[n - (j + 1)] = << >>
    OBVIOUS
  <2>1. PICK i \in 1..n : i = n - j /\ i - 1 = n - (j + 1)
    BY <1>0
  <2>2. h[i] = << >> /\ h[i - 1] = parts[i] \o h[i] /\ parts[i] = << >>
    <3>1. h[n - j] = << >>
      BY <1>0, <1>2
    <3>2. h[i - 1] = parts[i] \o h[i]
      BY DEF JoinsBack
    <3> QED BY <2>1, <3>1, <3>2
  <2>3. h[i - 1] = << >>
    BY <2>2
  <2> QED BY <2>1, <2>3
<1>3. S = Nat
  <2> HIDE DEF P
  <2>1. S \in SUBSET Nat /\ 0 \in S /\ \A j \in S : j + 1 \in S
    BY <1>1, <1>2
  <2> HIDE DEF S
  <2> QED BY <2>1, SetInduction
<1>4. P(n)
  <2>1. n \in S
    BY <1>0, <1>3
  <2> HIDE DEF P
  <2> QED BY <2>1
<1>5. n <= n /\ n - n = 0
  BY <1>0
<1> QED BY <1>4, <1>5

\* A message is empty as bytes when none of its fields is written.
LEMMA NothingWritten ==
  ASSUME NEW type \in Typenames, NEW m, \A f \in Table(type) : IsRaw(f, m[f.name])
  PROVE  AppendFields(type, m) = << >> <=>
           type # "ProbeRequest" /\ \A f \in Table(type) : ~IsWritten(f, m[f.name])
<1> DEFINE fs == Fields[type]
           buf == AppendFields(type, m)
<1>1. CASE type = "ProbeRequest"
  BY <1>1 DEF AppendFields
<1>2. CASE type # "ProbeRequest"
  <2>0. PICK n \in Nat : GoodTable(fs, n)
    BY Tables
  <2>1. DOMAIN fs = 1..n /\ Table(type) = {fs[i] : i \in 1..n}
    BY <2>0, TableFields
  <2>2. ASSUME buf = << >> PROVE \A f \in Table(type) : ~IsWritten(f, m[f.name])
    <3>1. Len(AppendFields(type, m)) < Limit
      BY <2>2, CodecAssumption DEF CodecAssumption
    <3>2. \A f \in Table(type) : Reads(DecodeFields[<< >>], f, m[f.name])
      BY <1>2, <2>2, <3>1, RawRoundTrip
    <3>3. \A f : Said(DecodeFields[<< >>], f) = {}
      BY DecodeNothing DEF Said
    <3> QED BY <3>2, <3>3 DEF Reads
  <2> HIDE DEF fs
  <2> DEFINE parts == PartsOf(fs, n, m)
  <2>3. ASSUME \A f \in Table(type) : ~IsWritten(f, m[f.name]) PROVE buf = << >>
    <3>1. Parts(parts, n)
      BY <2>0, <2>1, PartsType DEF RawValues
    <3>2. PICK h : JoinsBack(parts, n, h) /\ FlattenSeq(parts) = h[0]
      BY <3>1, FlatSuffix
    <3>3. ASSUME NEW i \in 1..n PROVE parts[i] = << >>
      <4>1. fs[i] \in Table(type)
        BY <2>1
      <4>2. IsField(fs[i]) /\ IsRaw(fs[i], m[fs[i].name]) /\ ~IsWritten(fs[i], m[fs[i].name])
        BY <2>3, <4>1, TypeTable
      <4> QED BY <4>2, FieldBytes DEF PartsOf
    <3>4. h[0] = << >>
      <4> HIDE DEF parts
      <4> QED BY <3>1, <3>2, <3>3, NothingJoined
    <3>5. buf = FlattenSeq(parts)
      <4>1. parts = [i \in DOMAIN fs |-> AppendField(fs[i], m[fs[i].name])]
        BY <2>1 DEF PartsOf
      <4> QED BY <1>2, <4>1 DEF AppendFields, fs
    <3> QED BY <3>2, <3>4, <3>5
  <2> QED BY <1>2, <2>2, <2>3
<1> QED BY <1>1, <1>2

\* r is m with its messages as bytes.
LEMMA VanishesAsBytes ==
  ASSUME NEW type \in Smaller, NEW m, NEW r,
         \A f \in Table(type) : IsRaw(f, r[f.name]) /\ (f.kind # "message" => r[f.name] = m[f.name])
  PROVE  AppendFields(type, r) = << >> <=> Vanishes(type, m)
<1>0. type \in Typenames
  BY DEF Typenames
<1>1. AppendFields(type, r) = << >> <=> type # "ProbeRequest" /\ \A f \in Table(type) : ~IsWritten(f, r[f.name])
  BY <1>0, NothingWritten
<1>2. CASE type = "TransferStart"
  <2>1. PICK f \in Table(type) : f.kind = "number"
    BY <1>2, Messages
  <2>2. IsWritten(f, r[f.name]) /\ f.kind \notin {"string", "bool"}
    BY <2>1 DEF IsWritten
  <2> QED BY <1>1, <2>2 DEF Vanishes
<1>3. CASE type \in Smallest
  <2>1. ASSUME NEW f \in Table(type)
        PROVE  ~IsWritten(f, r[f.name]) <=> f.kind \in {"string", "bool"} /\ m[f.name] = ZeroOf(f.kind)
    <3>1. f.kind # "message" /\ IsField(f) /\ IsRaw(f, r[f.name]) /\ r[f.name] = m[f.name]
      BY <1>0, <1>3, Messages, TypeTable
    <3>2. CASE f.kind = "string"
      BY <3>1, <3>2 DEF IsWritten, ZeroOf
    <3>3. CASE f.kind = "number"
      BY <3>3 DEF IsWritten
    <3>4. CASE f.kind = "bool"
      <4>1. m[f.name] \in BOOLEAN /\ (IsWritten(f, r[f.name]) <=> m[f.name])
        BY <3>1, <3>4 DEF IsRaw, IsWritten
      <4>2. ZeroOf(f.kind) = FALSE
        BY <3>4 DEF ZeroOf
      <4> QED BY <3>4, <4>1, <4>2
    <3> QED BY <3>1, <3>2, <3>3, <3>4 DEF IsField, Kinds
  <2> QED BY <1>1, <2>1 DEF Vanishes
<1> QED BY <1>2, <1>3 DEF Smaller

-----------------------------------------------------------------------------
(***************************************************************************)
(* Messages in messages.                                                   *)
(***************************************************************************)
\* The fields of a message have the values that can be written.
LEMMA TypedFields ==
  ASSUME NEW type, NEW m
  PROVE  /\ IsMessage0(type, m) =>
              /\ m = [name \in FieldNames(type) |-> m[name]]
              /\ \A f \in Table(type) : f.kind # "message" => (IsField(f) => IsRaw(f, m[f.name]))
         /\ IsMessage1(type, m) =>
              /\ m = [name \in FieldNames(type) |-> m[name]]
              /\ \A f \in Table(type) :
                   /\ f.kind # "message" => (IsField(f) => IsRaw(f, m[f.name]))
                   /\ f.kind = "message" => m[f.name] = Nil \/ IsMessage0(f.name, m[f.name])
         /\ IsMessage(type, m) =>
              /\ m = [name \in FieldNames(type) |-> m[name]]
              /\ \A f \in Table(type) :
                   /\ f.kind # "message" => (IsField(f) => IsRaw(f, m[f.name]))
                   /\ f.kind = "message" => m[f.name] = Nil \/ IsMessage1(f.name, m[f.name])
<1>1. ASSUME NEW f, IsField(f), f.kind # "message", NEW v, NEW C, NEW D,
             CASE f.kind = "string" -> v \in Seq(Byte)
               [] f.kind = "number" -> v \in 0..(Limit - 1)
               [] f.kind = "bool" -> v \in BOOLEAN
               [] f.kind = "message" -> D
      PROVE  IsRaw(f, v)
  <2>1. CASE f.kind = "string"
    BY <1>1, <2>1 DEF IsRaw
  <2>2. CASE f.kind = "number"
    BY <1>1, <2>2 DEF IsRaw
  <2>3. CASE f.kind = "bool"
    BY <1>1, <2>3 DEF IsRaw
  <2> QED BY <1>1, <2>1, <2>2, <2>3 DEF IsField, Kinds
<1>2. ASSUME NEW f, f.kind = "message", NEW v, NEW D,
             CASE f.kind = "string" -> v \in Seq(Byte)
               [] f.kind = "number" -> v \in 0..(Limit - 1)
               [] f.kind = "bool" -> v \in BOOLEAN
               [] f.kind = "message" -> D
      PROVE  D
  BY <1>2
<1>3. IsMessage0(type, m) =>
              /\ m = [name \in FieldNames(type) |-> m[name]]
              /\ \A f \in Table(type) : f.kind # "message" => (IsField(f) => IsRaw(f, m[f.name]))
  BY <1>1 DEF IsMessage0, Typed
<1>4. IsMessage1(type, m) =>
              /\ m = [name \in FieldNames(type) |-> m[name]]
              /\ \A f \in Table(type) :
                   /\ f.kind # "message" => (IsField(f) => IsRaw(f, m[f.name]))
                   /\ f.kind = "message" => m[f.name] = Nil \/ IsMessage0(f.name, m[f.name])
  BY <1>1, <1>2 DEF IsMessage1, Typed
<1>5. IsMessage(type, m) =>
              /\ m = [name \in FieldNames(type) |-> m[name]]
              /\ \A f \in Table(type) :
                   /\ f.kind # "message" => (IsField(f) => IsRaw(f, m[f.name]))
                   /\ f.kind = "message" => m[f.name] = Nil \/ IsMessage1(f.name, m[f.name])
  BY <1>1, <1>2 DEF IsMessage, Typed
<1> QED BY <1>3, <1>4, <1>5

\* A type without fields is read as it was, whatever the bytes.
LEMMA EmptyMessage ==
  ASSUME NEW type \in {"ProbeRequest", "Acked"}, NEW m, m = [name \in FieldNames(type) |-> m[name]], NEW buf
  PROVE  /\ Unmarshal0(type, buf) = [ok |-> TRUE, msg |-> m]
         /\ Unmarshal1(type, buf) = [ok |-> TRUE, msg |-> m]
         /\ Unmarshal(type, buf) = [ok |-> TRUE, msg |-> m]
<1>1. m = Zero(type)
  BY NoFields DEF Zero
<1> QED BY <1>1 DEF Unmarshal0, Unmarshal1, Unmarshal, SetFields

\* A message without messages in it.
LEMMA RoundTrip0 ==
  ASSUME NEW type \in Smallest, NEW m, IsMessage0(type, m)
  PROVE  /\ Marshal0(type, m) \in Seq(Byte)
         /\ Marshal0(type, m) = << >> <=> Vanishes(type, m)
         /\ Len(Marshal0(type, m)) < Limit =>
              Unmarshal0(type, Marshal0(type, m)) = [ok |-> TRUE, msg |-> m]
<1>0. type \in Smaller /\ type \in Typenames
  BY DEF Smaller, Typenames
<1>1. \A f \in Table(type) : f.kind # "message" /\ IsRaw(f, m[f.name])
  BY <1>0, TypeTable, Messages, TypedFields
<1>2. m = [name \in FieldNames(type) |-> m[name]]
  BY TypedFields
<1>3. Marshal0(type, m) \in Seq(Byte)
  BY <1>0, <1>1, RawBytes DEF Marshal0
<1>4. Marshal0(type, m) = << >> <=> Vanishes(type, m)
  BY <1>0, <1>1, VanishesAsBytes DEF Marshal0
<1>5. ASSUME Len(Marshal0(type, m)) < Limit
      PROVE  Unmarshal0(type, Marshal0(type, m)) = [ok |-> TRUE, msg |-> m]
  <2>1. CASE type \in {"ProbeRequest", "Acked"}
    BY <1>2, <2>1, EmptyMessage
  <2>2. CASE type \notin {"ProbeRequest", "Acked"}
    <3> DEFINE buf == AppendFields(type, m)
    <3>1. DecodeFields[buf].ok /\ \A f \in Table(type) : Reads(DecodeFields[buf], f, m[f.name])
      <4>1. Len(AppendFields(type, m)) < Limit /\ type # "ProbeRequest"
        BY <1>5, <2>2 DEF Marshal0
      <4> QED BY <1>0, <1>1, <4>1, RawRoundTrip
    <3> HIDE DEF buf
    <3>2. Unmarshal0(type, buf) = [ok |-> TRUE, msg |-> [name \in FieldNames(type) |-> m[name]]]
      BY <1>1, <2>2, <3>1, Unmarshal0Fields
    <3> QED BY <1>2, <3>2 DEF Marshal0, buf
  <2> QED BY <2>1, <2>2
<1> QED BY <1>3, <1>4, <1>5

\* A message with such messages in it.
LEMMA RoundTrip1 ==
  ASSUME NEW type \in Smaller, NEW m, IsMessage1(type, m)
  PROVE  /\ Marshal1(type, m) \in Seq(Byte)
         /\ Marshal1(type, m) = << >> <=> Vanishes(type, m)
         /\ Len(Marshal1(type, m)) < Limit =>
              Unmarshal1(type, Marshal1(type, m)) = [ok |-> TRUE, msg |-> Normal1(type, m)]
<1> DEFINE r == Inner(type, m, Marshal0)
           Of(name) == FieldOf(type, name)
<1>0. type \in Typenames
  BY DEF Typenames
<1>1. m = [name \in FieldNames(type) |-> m[name]]
  BY TypedFields
<1>2. ASSUME NEW name \in FieldNames(type)
      PROVE  r[name] = IF Of(name).kind # "message" THEN m[name]
                       ELSE IF m[name] = Nil THEN << >> ELSE Marshal0(name, m[name])
  BY DEF Inner
<1>3. \A name \in FieldNames(type) : Of(name) \in Table(type) /\ Of(name).name = name /\ IsField(Of(name))
  BY <1>0, TypeTable
<1>4. \A f \in Table(type) : IsField(f) /\ f.name \in FieldNames(type) /\ Of(f.name) = f
  BY <1>0, TypeTable
<1> HIDE DEF r, Of
<1>5. ASSUME NEW f \in Table(type), f.kind = "message", m[f.name] # Nil
      PROVE  /\ f.name \in Smallest /\ IsMessage0(f.name, m[f.name])
             /\ r[f.name] = Marshal0(f.name, m[f.name])
  BY <1>2, <1>4, <1>5, Messages, TypedFields
<1>6. ASSUME NEW f \in Table(type) PROVE IsRaw(f, r[f.name]) /\ (f.kind # "message" => r[f.name] = m[f.name])
  <2>1. CASE f.kind # "message"
    BY <1>2, <1>4, <2>1, TypedFields
  <2>2. CASE f.kind = "message" /\ m[f.name] = Nil
    <3>1. r[f.name] = << >>
      BY <1>2, <1>4, <2>2
    <3> QED BY <2>2, <3>1 DEF IsRaw
  <2>3. CASE f.kind = "message" /\ m[f.name] # Nil
    <3>1. r[f.name] \in Seq(Byte)
      BY <1>5, <2>3, RoundTrip0
    <3> QED BY <2>3, <3>1 DEF IsRaw
  <2> QED BY <2>1, <2>2, <2>3
<1> DEFINE buf == AppendFields(type, r)
<1>7. Marshal1(type, m) = buf
  BY DEF Marshal1, r
<1>8. buf \in Seq(Byte) /\ \A f \in Table(type) : f.kind = "message" =>
        r[f.name] \in Seq(Byte) /\ Len(r[f.name]) <= Len(buf)
  BY <1>0, <1>6, RawBytes
<1>9. buf = << >> <=> Vanishes(type, m)
  BY <1>6, VanishesAsBytes
<1>10. ASSUME Len(buf) < Limit PROVE Unmarshal1(type, buf) = [ok |-> TRUE, msg |-> Normal1(type, m)]
  <2>1. CASE type \in {"ProbeRequest", "Acked"}
    <3>1. Normal1(type, m) = m
      BY <1>1, <2>1, NoFields DEF Normal1, Reduced
    <3> QED BY <1>1, <2>1, <3>1, EmptyMessage
  <2>2. CASE type \notin {"ProbeRequest", "Acked"}
    <3>1. DecodeFields[buf].ok /\ \A f \in Table(type) : Reads(DecodeFields[buf], f, r[f.name])
      BY <1>0, <1>6, <1>10, <2>2, RawRoundTrip
    <3> HIDE DEF buf
    <3>2. ASSUME NEW f \in Table(type), f.kind = "message", m[f.name] # Nil
          PROVE  /\ Unmarshal0(f.name, r[f.name]).ok /\ Unmarshal0(f.name, r[f.name]).msg = m[f.name]
                 /\ r[f.name] = << >> <=> Vanishes(f.name, m[f.name])
      <4>1. Len(r[f.name]) < Limit
        <5>1. Len(r[f.name]) \in Nat /\ Len(buf) \in Nat /\ Len(r[f.name]) <= Len(buf)
          BY <1>8, <3>2
        <5> QED BY <1>10, <5>1, CodecAssumption DEF CodecAssumption
      <4>2. Unmarshal0(f.name, r[f.name]) = [ok |-> TRUE, msg |-> m[f.name]]
        BY <1>5, <3>2, <4>1, RoundTrip0
      <4>3. r[f.name] = << >> <=> Vanishes(f.name, m[f.name])
        BY <1>5, <3>2, RoundTrip0
      <4> QED BY <4>2, <4>3
    <3>3. ASSUME NEW f \in Table(type), f.kind = "message", r[f.name] # << >>
          PROVE  m[f.name] # Nil
      BY <1>2, <1>4, <3>3
    <3>4. Unmarshal1(type, buf) =
           [ok |-> TRUE,
            msg |-> [name \in FieldNames(type) |->
                       IF FieldOf(type, name).kind # "message" THEN r[name]
                       ELSE IF r[name] = << >> THEN Nil ELSE Unmarshal0(name, r[name]).msg]]
      <4>1. ASSUME NEW f \in Table(type)
            PROVE  /\ IsRaw(f, r[f.name]) /\ Reads(DecodeFields[buf], f, r[f.name])
                   /\ f.kind = "message" /\ r[f.name] # << >> => Unmarshal0(f.name, r[f.name]).ok
        BY <1>6, <3>1, <3>2, <3>3
      <4> QED BY <2>2, <3>1, <4>1, Unmarshal1Fields
    <3>5. ASSUME NEW name \in FieldNames(type)
          PROVE  (IF Of(name).kind # "message" THEN r[name]
                  ELSE IF r[name] = << >> THEN Nil ELSE Unmarshal0(name, r[name]).msg) =
                 (IF Of(name).kind # "message" \/ m[name] = Nil THEN m[name]
                  ELSE IF Vanishes(name, m[name]) THEN Nil ELSE Normal0(name, m[name]))
      <4>1. PICK f \in Table(type) : f = Of(name) /\ f.name = name
        BY <1>3
      <4>2. CASE f.kind # "message"
        BY <1>6, <4>1, <4>2
      <4>3. CASE f.kind = "message" /\ m[name] = Nil
        <5>1. r[name] = << >>
          BY <1>2, <4>1, <4>3
        <5> QED BY <4>1, <4>3, <5>1
      <4>4. CASE f.kind = "message" /\ m[name] # Nil
        BY <3>2, <4>1, <4>4 DEF Normal0
      <4> QED BY <4>1, <4>2, <4>3, <4>4
    <3>6. Normal1(type, m) =
            [name \in FieldNames(type) |->
               IF Of(name).kind # "message" \/ m[name] = Nil THEN m[name]
                  ELSE IF Vanishes(name, m[name]) THEN Nil ELSE Normal0(name, m[name])]
      BY DEF Normal1, Reduced, Of
    <3> QED BY <3>4, <3>5, <3>6 DEF Of
  <2> QED BY <2>1, <2>2
<1> HIDE DEF buf
<1> QED BY <1>7, <1>8, <1>9, <1>10

\* A message that is encoded and decoded is what it was, but that a message in
\* it without content is absent: every field of every type, whatever its value
\* (proto.go:113-133, receipt.go).
THEOREM RoundTrip ==
  ASSUME NEW type \in Typenames, NEW m, IsMessage(type, m)
  PROVE  /\ Marshal(type, m) \in Seq(Byte)
         /\ Len(Marshal(type, m)) < Limit =>
              Unmarshal(type, Marshal(type, m)) = [ok |-> TRUE, msg |-> Normal(type, m)]
<1> DEFINE r == Inner(type, m, Marshal1)
           Of(name) == FieldOf(type, name)
<1>1. m = [name \in FieldNames(type) |-> m[name]]
  BY TypedFields
<1>2. ASSUME NEW name \in FieldNames(type)
      PROVE  r[name] = IF Of(name).kind # "message" THEN m[name]
                       ELSE IF m[name] = Nil THEN << >> ELSE Marshal1(name, m[name])
  BY DEF Inner
<1>3. \A name \in FieldNames(type) : Of(name) \in Table(type) /\ Of(name).name = name /\ IsField(Of(name))
  BY TypeTable
<1>4. \A f \in Table(type) : IsField(f) /\ f.name \in FieldNames(type) /\ Of(f.name) = f
  BY TypeTable
<1> HIDE DEF r, Of
<1>5. ASSUME NEW f \in Table(type), f.kind = "message", m[f.name] # Nil
      PROVE  /\ f.name \in Smaller /\ IsMessage1(f.name, m[f.name])
             /\ r[f.name] = Marshal1(f.name, m[f.name])
  BY <1>2, <1>4, <1>5, Messages, TypedFields
<1>6. ASSUME NEW f \in Table(type) PROVE IsRaw(f, r[f.name]) /\ (f.kind # "message" => r[f.name] = m[f.name])
  <2>1. CASE f.kind # "message"
    BY <1>2, <1>4, <2>1, TypedFields
  <2>2. CASE f.kind = "message" /\ m[f.name] = Nil
    <3>1. r[f.name] = << >>
      BY <1>2, <1>4, <2>2
    <3> QED BY <2>2, <3>1 DEF IsRaw
  <2>3. CASE f.kind = "message" /\ m[f.name] # Nil
    <3>1. r[f.name] \in Seq(Byte)
      BY <1>5, <2>3, RoundTrip1
    <3> QED BY <2>3, <3>1 DEF IsRaw
  <2> QED BY <2>1, <2>2, <2>3
<1> DEFINE buf == AppendFields(type, r)
<1>7. Marshal(type, m) = buf
  BY DEF Marshal, r
<1>8. buf \in Seq(Byte) /\ \A f \in Table(type) : f.kind = "message" =>
        r[f.name] \in Seq(Byte) /\ Len(r[f.name]) <= Len(buf)
  BY <1>6, RawBytes
<1>10. ASSUME Len(buf) < Limit PROVE Unmarshal(type, buf) = [ok |-> TRUE, msg |-> Normal(type, m)]
  <2>1. CASE type \in {"ProbeRequest", "Acked"}
    <3>1. Normal(type, m) = m
      BY <1>1, <2>1, NoFields DEF Normal, Reduced
    <3> QED BY <1>1, <2>1, <3>1, EmptyMessage
  <2>2. CASE type \notin {"ProbeRequest", "Acked"}
    <3>1. DecodeFields[buf].ok /\ \A f \in Table(type) : Reads(DecodeFields[buf], f, r[f.name])
      BY <1>6, <1>10, <2>2, RawRoundTrip
    <3> HIDE DEF buf
    <3>2. ASSUME NEW f \in Table(type), f.kind = "message", m[f.name] # Nil
          PROVE  /\ Unmarshal1(f.name, r[f.name]).ok /\ Unmarshal1(f.name, r[f.name]).msg = Normal1(f.name, m[f.name])
                 /\ r[f.name] = << >> <=> Vanishes(f.name, m[f.name])
      <4>1. Len(r[f.name]) < Limit
        <5>1. Len(r[f.name]) \in Nat /\ Len(buf) \in Nat /\ Len(r[f.name]) <= Len(buf)
          BY <1>8, <3>2
        <5> QED BY <1>10, <5>1, CodecAssumption DEF CodecAssumption
      <4>2. Unmarshal1(f.name, r[f.name]) = [ok |-> TRUE, msg |-> Normal1(f.name, m[f.name])]
        BY <1>5, <3>2, <4>1, RoundTrip1
      <4>3. r[f.name] = << >> <=> Vanishes(f.name, m[f.name])
        BY <1>5, <3>2, RoundTrip1
      <4> QED BY <4>2, <4>3
    <3>3. ASSUME NEW f \in Table(type), f.kind = "message", r[f.name] # << >>
          PROVE  m[f.name] # Nil
      BY <1>2, <1>4, <3>3
    <3>4. Unmarshal(type, buf) =
           [ok |-> TRUE,
            msg |-> [name \in FieldNames(type) |->
                       IF FieldOf(type, name).kind # "message" THEN r[name]
                       ELSE IF r[name] = << >> THEN Nil ELSE Unmarshal1(name, r[name]).msg]]
      <4>1. ASSUME NEW f \in Table(type)
            PROVE  /\ IsRaw(f, r[f.name]) /\ Reads(DecodeFields[buf], f, r[f.name])
                   /\ f.kind = "message" /\ r[f.name] # << >> => Unmarshal1(f.name, r[f.name]).ok
        BY <1>6, <3>1, <3>2, <3>3
      <4> QED BY <2>2, <3>1, <4>1, UnmarshalFields
    <3>5. ASSUME NEW name \in FieldNames(type)
          PROVE  (IF Of(name).kind # "message" THEN r[name]
                  ELSE IF r[name] = << >> THEN Nil ELSE Unmarshal1(name, r[name]).msg) =
                 (IF Of(name).kind # "message" \/ m[name] = Nil THEN m[name]
                  ELSE IF Vanishes(name, m[name]) THEN Nil ELSE Normal1(name, m[name]))
      <4>1. PICK f \in Table(type) : f = Of(name) /\ f.name = name
        BY <1>3
      <4>2. CASE f.kind # "message"
        BY <1>6, <4>1, <4>2
      <4>3. CASE f.kind = "message" /\ m[name] = Nil
        <5>1. r[name] = << >>
          BY <1>2, <4>1, <4>3
        <5> QED BY <4>1, <4>3, <5>1
      <4>4. CASE f.kind = "message" /\ m[name] # Nil
        BY <3>2, <4>1, <4>4
      <4> QED BY <4>1, <4>2, <4>3, <4>4
    <3>6. Normal(type, m) =
            [name \in FieldNames(type) |->
               IF Of(name).kind # "message" \/ m[name] = Nil THEN m[name]
                  ELSE IF Vanishes(name, m[name]) THEN Nil ELSE Normal1(name, m[name])]
      BY DEF Normal, Reduced, Of
    <3> QED BY <3>4, <3>5, <3>6 DEF Of
  <2> QED BY <2>1, <2>2
<1> HIDE DEF buf
<1> QED BY <1>7, <1>8, <1>10
=============================================================================
