------------------------- MODULE WClientReplies_proofs -------------------------
(***************************************************************************)
(* Proofs about the content of the replies: that what a client is sent is    *)
(* what the file held, in order and no more than was announced, and all of   *)
(* it when the call succeeds. On top of the type invariant of the server.    *)
(***************************************************************************)
EXTENDS WClient_proofs

-----------------------------------------------------------------------------
(* What frames carry. *)

\* Bytes may be joined in any order of the joins.
LEMMA BytesJoined ==
  ASSUME NEW s \in Seq(Byte), NEW t \in Seq(Byte), NEW u \in Seq(Byte)
  PROVE  (s \o t) \o u = s \o (t \o u)
BY ConcatAssociative, SMTT(30)

\* A frame carries bytes,
LEMMA BytesOfTyped ==
  ASSUME NEW f \in OneFrame
  PROVE  BytesOf(f) \in Seq(Byte)
<1>1. << >> \in Seq(Byte)  OBVIOUS
<1>2. f.t = "chunk" => f.bytes \in Seq(Byte)  BY FrameFields
<1> QED  BY <1>1, <1>2 DEF BytesOf

\* so each frame of a sequence does,
LEMMA CarriedPieces ==
  ASSUME NEW F \in Seq(OneFrame)
  PROVE  /\ [k \in 1 .. Len(F) |-> BytesOf(F[k])] \in Seq(Seq(Byte))
         /\ Len([k \in 1 .. Len(F) |-> BytesOf(F[k])]) = Len(F)
<1>1. \A k \in 1 .. Len(F) : BytesOf(F[k]) \in Seq(Byte)
  <2>1. \A k \in 1 .. Len(F) : F[k] \in OneFrame  OBVIOUS
  <2> QED  BY <2>1, BytesOfTyped
<1>2. Len(F) \in Nat  OBVIOUS
<1> QED  BY <1>1, <1>2

\* and all of them together do.
LEMMA CarriedTyped ==
  ASSUME NEW F \in Seq(OneFrame)
  PROVE  Carried(F) \in Seq(Byte)
BY CarriedPieces, FlattenTyped DEF Carried

\* No frame carries nothing.
LEMMA CarriedNone == Carried(<< >>) = << >>
<1> DEFINE s == [k \in 1 .. Len(<< >>) |-> BytesOf(<< >>[k])]
<1>1. Len(<< >>) = 0  OBVIOUS
<1>2. s = << >>  BY <1>1
<1>3. Len(s) = 0  BY <1>2
<1>4. FlattenSeq(s) = << >>
  <2> HIDE DEF s
  <2> QED  BY <1>2, <1>3, FlattenNone
<1> QED  BY <1>4 DEF Carried

\* One frame more.
LEMMA CarriedMore ==
  ASSUME NEW F \in Seq(OneFrame), NEW f \in OneFrame
  PROVE  Carried(F \o <<f>>) = Carried(F) \o BytesOf(f)
<1> DEFINE G == F \o <<f>>
           n == Len(F)
           s == [k \in 1 .. Len(G) |-> BytesOf(G[k])]
           t == [k \in 1 .. n |-> BytesOf(F[k])]
<1>1. <<f>> \in Seq(OneFrame) /\ Len(<<f>>) = 1 /\ <<f>>[1] = f  OBVIOUS
<1>2. n \in Nat /\ n + 1 - n = 1  OBVIOUS
<1>3. /\ G \in Seq(OneFrame) /\ Len(G) = n + 1 /\ G[n + 1] = f
      /\ \A i \in 1 .. n : G[i] = F[i]
  BY <1>1, <1>2
<1>4. /\ s \in Seq(Seq(Byte)) /\ Len(s) = Len(G)
      /\ t \in Seq(Seq(Byte)) /\ Len(t) = n
  <2> HIDE DEF G
  <2> QED  BY <1>3, CarriedPieces
<1>5. s[n + 1] = BytesOf(f)
  <2> HIDE DEF G
  <2>1. n + 1 \in 1 .. Len(G)  BY <1>2, <1>3
  <2> HIDE DEF n
  <2> QED  BY <1>3, <2>1
<1>6. \A i \in 1 .. n : s[i] = t[i]
  <2> HIDE DEF G
  <2>1. \A i \in 1 .. n : i \in 1 .. Len(G)  BY <1>2, <1>3
  <2> QED  BY <1>3, <2>1
<1>7. Carried(G) = FlattenSeq(s) /\ Carried(F) = FlattenSeq(t)  BY DEF Carried
<1> HIDE DEF s, t, G, n
<1>10. Len(s) = n + 1  BY <1>3, <1>4
<1>8. FlattenSeq(s) = FlattenSeq(t) \o s[n + 1]  BY <1>2, <1>4, <1>6, <1>10, FlattenMore
<1>9. Carried(G) = Carried(F) \o BytesOf(f)  BY <1>5, <1>7, <1>8
<1> QED  BY <1>9 DEF G

\* One frame carries its own bytes.
LEMMA CarriedOne ==
  ASSUME NEW f \in OneFrame
  PROVE  Carried(<<f>>) = BytesOf(f)
<1>1. << >> \in Seq(OneFrame) /\ << >> \o <<f>> = <<f>>  OBVIOUS
<1>2. BytesOf(f) \in Seq(Byte)  BY BytesOfTyped
<1>3. << >> \o BytesOf(f) = BytesOf(f)  BY <1>2, ConcatEmptySeq
<1>4. Carried(<< >> \o <<f>>) = << >> \o BytesOf(f)  BY <1>1, CarriedMore, CarriedNone
<1> QED  BY <1>1, <1>3, <1>4

\* Two frames are one and then another.
LEMMA PairJoined ==
  ASSUME NEW X, NEW f \in X, NEW g \in X
  PROVE  <<f>> \o <<g>> = <<f, g>>
<1> DEFINE F == <<f>>
           G == <<g>>
           H == <<f, g>>
<1>1. /\ F \in Seq(X) /\ G \in Seq(X) /\ H \in Seq(X) /\ Len(F) = 1 /\ Len(G) = 1 /\ Len(H) = 2
      /\ F[1] = f /\ G[1] = g /\ H[1] = f /\ H[2] = g
  OBVIOUS
<1> HIDE DEF F, G, H
<1>2. /\ F \o G \in Seq(X) /\ Len(F \o G) = 2 /\ (F \o G)[1] = f /\ (F \o G)[2] = g
  <2>1. /\ F \o G \in Seq(X) /\ Len(F \o G) = 1 + 1
        /\ \A i \in 1 .. 1 + 1 : (F \o G)[i] = IF i <= 1 THEN F[i] ELSE G[i - 1]
    BY <1>1, ConcatProperties
  <2>2. 1 \in 1 .. 1 + 1 /\ 2 \in 1 .. 1 + 1 /\ ~ (2 <= 1) /\ 2 - 1 = 1  OBVIOUS
  <2> QED  BY <1>1, <2>1, <2>2
<1>3. \A i \in 1 .. Len(H) : H[i] = (F \o G)[i]
  <2>1. \A i \in 1 .. 2 : i = 1 \/ i = 2  OBVIOUS
  <2> QED  BY <1>1, <1>2, <2>1
<1>4. F \o G = H  BY <1>1, <1>2, <1>3, SeqEqual
<1> QED  BY <1>4 DEF F, G, H

\* What the two carry.
LEMMA CarriedTwo ==
  ASSUME NEW f \in OneFrame, NEW g \in OneFrame
  PROVE  Carried(<<f, g>>) = BytesOf(f) \o BytesOf(g)
<1>1. <<f>> \in Seq(OneFrame) /\ <<f>> \o <<g>> = <<f, g>>  BY PairJoined
<1>4. Carried(<<f>> \o <<g>>) = Carried(<<f>>) \o BytesOf(g)  BY <1>1, CarriedMore
<1> QED  BY <1>1, <1>4, CarriedOne

\* Frames behind others.
LEMMA CarriedJoined ==
  ASSUME NEW F \in Seq(OneFrame), NEW G \in Seq(OneFrame)
  PROVE  Carried(F \o G) = Carried(F) \o Carried(G)
<1> DEFINE g(n) == SubSeq(G, 1, n)
           T == {n \in Nat : n <= Len(G) => Carried(F \o g(n)) = Carried(F) \o Carried(g(n))}
<1>0. Len(G) \in Nat /\ Carried(F) \in Seq(Byte)  BY CarriedTyped
<1>1. 0 \in T
  <2>1. g(0) = << >>  BY SubSeqEmpty
  <2>2. F \o << >> = F /\ Carried(F) \o << >> = Carried(F)  BY <1>0, ConcatEmptySeq
  <2>3. Carried(F \o g(0)) = Carried(F) \o Carried(g(0))  BY <2>1, <2>2, CarriedNone
  <2> HIDE DEF g
  <2> QED  BY <2>3
<1>2. ASSUME NEW n \in Nat, n \in T PROVE n + 1 \in T
  <2> SUFFICES ASSUME n + 1 <= Len(G)
               PROVE  Carried(F \o g(n + 1)) = Carried(F) \o Carried(g(n + 1))
    <3> HIDE DEF g
    <3> QED  OBVIOUS
  <2>1. Carried(F \o g(n)) = Carried(F) \o Carried(g(n))
    <3>1. n <= Len(G)  BY <1>0
    <3> HIDE DEF g
    <3> QED  BY <1>2, <3>1
  <2> DEFINE f == G[n + 1]
             h == <<f>>
  <2>2. f \in OneFrame /\ BytesOf(f) \in Seq(Byte) /\ h \in Seq(OneFrame)
    <3>1. n + 1 \in 1 .. Len(G)  BY <1>0
    <3>2. f \in OneFrame  BY <3>1
    <3> QED  BY <3>2, BytesOfTyped
  <2>3. g(n) \in Seq(OneFrame)  BY <1>0
  <2>4. g(n + 1) = g(n) \o h  BY <1>0
  <2>8. /\ Carried(g(n) \o h) = Carried(g(n)) \o BytesOf(f)
        /\ Carried((F \o g(n)) \o h) = Carried(F \o g(n)) \o BytesOf(f)
    <3>1. F \o g(n) \in Seq(OneFrame)
      <4> HIDE DEF g
      <4> QED  BY <2>3
    <3> HIDE DEF g, f
    <3> QED  BY <2>2, <2>3, <3>1, CarriedMore
  <2> HIDE DEF g, f, h
  <2>5. (F \o g(n)) \o h = F \o (g(n) \o h)  BY <2>2, <2>3, Joined, ZenonT(60)
  <2>6. Carried(g(n)) \in Seq(Byte)  BY <2>3, CarriedTyped
  <2>7. (Carried(F) \o Carried(g(n))) \o BytesOf(f) = Carried(F) \o (Carried(g(n)) \o BytesOf(f))
    <3> DEFINE x == Carried(F)
               y == Carried(g(n))
               z == BytesOf(f)
    <3>1. x \in Seq(Byte) /\ y \in Seq(Byte) /\ z \in Seq(Byte)  BY <1>0, <2>2, <2>6
    <3> HIDE DEF x, y, z
    <3>2. (x \o y) \o z = x \o (y \o z)  BY <3>1, BytesJoined
    <3> QED  BY <3>2 DEF x, y, z
  <2> QED  BY <2>1, <2>4, <2>5, <2>7, <2>8
<1>3. \A n \in Nat : n \in T
  <2> HIDE DEF T
  <2> QED  BY <1>1, <1>2, Induction
<1>4. g(Len(G)) = G  BY SubSeqFull
<1>5. Carried(F \o g(Len(G))) = Carried(F) \o Carried(g(Len(G)))
  <2>1. Len(G) \in T /\ Len(G) <= Len(G)  BY <1>0, <1>3
  <2> HIDE DEF g
  <2> QED  BY <2>1
<1> QED  BY <1>4, <1>5

\* The first of the frames is taken.
LEMMA CarriedFirst ==
  ASSUME NEW F \in Seq(OneFrame), F # << >>
  PROVE  Carried(F) = BytesOf(F[1]) \o Carried(Tail(F))
<1> DEFINE h == <<F[1]>>
           u == Tail(F)
<1>1. F[1] \in OneFrame /\ Len(F) \in Nat \ {0}  OBVIOUS
<1>2. h \in Seq(OneFrame) /\ u \in Seq(OneFrame) /\ Len(h) = 1 /\ Len(u) = Len(F) - 1
      /\ h[1] = F[1] /\ \A i \in 1 .. Len(F) - 1 : u[i] = F[i + 1]
  BY <1>1
<1>3. Carried(h) = BytesOf(F[1])  BY <1>1, CarriedOne
<1> HIDE DEF h, u
<1>4. h \o u = F
  <2> DEFINE v == h \o u
  <2>1. /\ v \in Seq(OneFrame) /\ Len(v) = 1 + (Len(F) - 1)
        /\ \A i \in 1 .. 1 + (Len(F) - 1) : v[i] = IF i <= 1 THEN h[i] ELSE u[i - 1]
    <3>0. h \in Seq(OneFrame) /\ u \in Seq(OneFrame)  BY <1>2
    <3>1. /\ v \in Seq(OneFrame) /\ Len(v) = Len(h) + Len(u)
          /\ \A i \in 1 .. Len(h) + Len(u) : v[i] = IF i <= Len(h) THEN h[i] ELSE u[i - Len(h)]
      BY <3>0, ConcatProperties
    <3> HIDE DEF v
    <3> QED  BY <1>2, <3>1
  <2> HIDE DEF v
  <2>2. ASSUME NEW i \in 1 .. Len(F) PROVE v[i] = F[i]
    <3>1. i \in 1 .. 1 + (Len(F) - 1)  BY <1>1
    <3>2. CASE i = 1  BY <1>2, <2>1, <3>1, <3>2
    <3>3. CASE i # 1
      <4> DEFINE j == i - 1
      <4>1. j \in 1 .. Len(F) - 1 /\ j + 1 = i /\ ~ (i <= 1)  BY <1>1, <3>3
      <4>2. v[i] = u[j]  BY <2>1, <3>1, <4>1
      <4> HIDE DEF j
      <4>3. u[j] = F[j + 1]  BY <1>2, <4>1
      <4> QED  BY <4>1, <4>2, <4>3
    <3> QED  BY <3>2, <3>3
  <2>3. Len(v) = Len(F)  BY <1>1, <2>1
  <2>4. v = F  BY <2>1, <2>2, <2>3, SeqEqual
  <2> QED  BY <2>4 DEF v
<1>5. Carried(h \o u) = Carried(h) \o Carried(u)  BY <1>2, CarriedJoined
<1> QED  BY <1>3, <1>4, <1>5 DEF u

-----------------------------------------------------------------------------
(* What is in the file, and what is asked of it. *)

\* A byte is one of a single record.
LEMMA OneRecord ==
  ASSUME NEW f, Chained(f), NEW i \in 1 .. Len(f), NEW p \in Nat,
         f[i].off <= p, p < EndOf(f[i])
  PROVE  (CHOOSE k \in 1 .. Len(f) : f[k].off <= p /\ p < EndOf(f[k])) = i
<1>0. Len(f) \in Nat  BY DEF Chained
<1>1. ASSUME NEW k \in 1 .. Len(f), f[k].off <= p, p < EndOf(f[k]) PROVE k = i
  <2>0. f[k].off \in Nat /\ EndOf(f[k]) \in Nat /\ f[i].off \in Nat /\ EndOf(f[i]) \in Nat
    BY RecordNumbers
  <2>1. CASE k < i
    <3>1. i \in k + 1 .. Len(f)  BY <1>0, <2>1
    <3>2. EndOf(f[k]) <= f[i].off  BY <3>1, Later
    <3> QED  BY <1>1, <2>0, <3>2
  <2>2. CASE i < k
    <3>1. k \in i + 1 .. Len(f)  BY <1>0, <2>2
    <3>2. EndOf(f[i]) <= f[k].off  BY <3>1, Later
    <3> QED  BY <1>1, <2>0, <3>2
  <2> QED  BY <1>0, <2>1, <2>2
<1> QED  BY <1>1

\* ByteAt(p) names the record that holds offset p and its place in it.
LEMMA ByteAtGives ==
  ASSUME Disk, NEW i \in 1 .. Len(recs), NEW p \in Nat, recs[i].off <= p, p < EndOf(recs[i])
  PROVE  ByteAt(p) = <<recs[i].id, p - recs[i].off>> /\ ByteAt(p) \in Byte
<1>1. Chained(recs)  BY DEF Disk
<1>2. (CHOOSE k \in 1 .. Len(recs) : recs[k].off <= p /\ p < EndOf(recs[k])) = i
  BY <1>1, OneRecord
<1>3. ByteAt(p) = <<recs[i].id, p - recs[i].off>>  BY <1>2 DEF ByteAt
<1>4. recs[i].id \in Nat /\ recs[i].off \in Nat  BY <1>1, RecordNumbers
<1>5. p - recs[i].off \in Nat  BY <1>4
<1> QED  BY <1>3, <1>4, <1>5 DEF Byte

\* The offset after the last record.
FileEnd == EndOf(recs[Len(recs)])

\* The bytes between two offsets, one for each offset.
LEMMA BetweenTyped ==
  ASSUME Disk, NEW p \in Nat, NEW q \in Nat, q <= FileEnd
  PROVE  /\ Between(p, q) \in Seq(Byte)
         /\ Len(Between(p, q)) = IF p <= q THEN q - p ELSE 0
         /\ \A k \in 1 .. q - p : Between(p, q)[k] = ByteAt(p + k - 1)
<1>0. Chained(recs) /\ FileEnd \in Nat  BY DiskNumbers DEF Disk, FileEnd
<1>1. ASSUME NEW k \in 1 .. q - p PROVE ByteAt(p + k - 1) \in Byte
  <2> DEFINE x == p + k - 1
  <2>1. x \in Nat /\ x < EndOf(recs[Len(recs)])  BY <1>0 DEF FileEnd
  <2> HIDE DEF x
  <2>2. PICK i \in 1 .. Len(recs) : recs[i].off <= x /\ x < EndOf(recs[i])
    BY <1>0, <2>1, InSomeRecord
  <2>3. ByteAt(x) \in Byte  BY <2>1, <2>2, ByteAtGives
  <2> QED  BY <2>3 DEF x
<1>2. CASE p <= q
  <2>1. q - p \in Nat  BY <1>2
  <2> QED  BY <1>1, <1>2, <2>1 DEF Between
<1>3. CASE ~ (p <= q)
  <2>1. 1 .. q - p = {}  BY <1>3
  <2>2. Between(p, q) = << >>  BY <2>1 DEF Between
  <2>3. << >> \in Seq(Byte) /\ Len(<< >>) = 0  OBVIOUS
  <2> QED  BY <1>3, <2>1, <2>2, <2>3
<1> QED  BY <1>2, <1>3

\* There are none when the two are equal.
LEMMA BetweenNone ==
  ASSUME NEW p \in Nat, NEW q \in Nat, q <= p
  PROVE  Between(p, q) = << >>
<1>1. 1 .. q - p = {}  OBVIOUS
<1> QED  BY <1>1 DEF Between

\* What comes behind is joined.
LEMMA BetweenJoined ==
  ASSUME Disk, NEW p \in Nat, NEW q \in Nat, NEW r \in Nat, p <= q, q <= r, r <= FileEnd
  PROVE  Between(p, q) \o Between(q, r) = Between(p, r)
<1>0. FileEnd \in Nat  BY DiskNumbers DEF FileEnd
<1> DEFINE a == Between(p, q)
           b == Between(q, r)
           d == Between(p, r)
<1>1. /\ a \in Seq(Byte) /\ Len(a) = q - p /\ \A k \in 1 .. q - p : a[k] = ByteAt(p + k - 1)
      /\ b \in Seq(Byte) /\ Len(b) = r - q /\ \A k \in 1 .. r - q : b[k] = ByteAt(q + k - 1)
      /\ d \in Seq(Byte) /\ Len(d) = r - p /\ \A k \in 1 .. r - p : d[k] = ByteAt(p + k - 1)
  <2>0. q <= FileEnd /\ p <= r  BY <1>0
  <2>1. a \in Seq(Byte) /\ Len(a) = q - p /\ \A k \in 1 .. q - p : a[k] = ByteAt(p + k - 1)
    BY <2>0, BetweenTyped
  <2>2. b \in Seq(Byte) /\ Len(b) = r - q /\ \A k \in 1 .. r - q : b[k] = ByteAt(q + k - 1)
    BY BetweenTyped
  <2>3. d \in Seq(Byte) /\ Len(d) = r - p /\ \A k \in 1 .. r - p : d[k] = ByteAt(p + k - 1)
    BY <2>0, BetweenTyped
  <2> QED  BY <2>1, <2>2, <2>3
<1> HIDE DEF a, b, d
<1> DEFINE e == a \o b
<1>2. /\ e \in Seq(Byte) /\ Len(e) = (q - p) + (r - q)
      /\ \A k \in 1 .. (q - p) + (r - q) : e[k] = IF k <= q - p THEN a[k] ELSE b[k - (q - p)]
  <2>1. /\ e \in Seq(Byte) /\ Len(e) = Len(a) + Len(b)
        /\ \A k \in 1 .. Len(a) + Len(b) : e[k] = IF k <= Len(a) THEN a[k] ELSE b[k - Len(a)]
    BY <1>1, ConcatProperties
  <2> HIDE DEF e
  <2>2. Len(a) = q - p /\ Len(b) = r - q  BY <1>1
  <2> QED  BY <2>1, <2>2
<1>3. (q - p) + (r - q) = r - p  OBVIOUS
<1> HIDE DEF e
<1>4. ASSUME NEW k \in 1 .. r - p PROVE e[k] = d[k]
  <2>1. CASE k <= q - p
    <3>1. k \in 1 .. q - p  BY <2>1
    <3> QED  BY <1>1, <1>2, <1>3, <2>1, <3>1
  <2>2. CASE ~ (k <= q - p)
    <3> DEFINE m == k - (q - p)
    <3>1. m \in 1 .. r - q /\ q + m - 1 = p + k - 1  BY <2>2
    <3>2. e[k] = b[m]  BY <1>2, <1>3, <2>2
    <3> HIDE DEF m
    <3>3. b[m] = ByteAt(q + m - 1)  BY <1>1, <3>1
    <3> QED  BY <1>1, <3>1, <3>2, <3>3
  <2> QED  BY <2>1, <2>2
<1>5. Len(e) = Len(d) /\ Len(e) = r - p  BY <1>1, <1>2, <1>3
<1>6. e = d  BY <1>1, <1>2, <1>4, <1>5, SeqEqual
<1> QED  BY <1>6 DEF e, a, b, d

\* What is read, as a part of the file.
LEMMA BytesAtGives ==
  ASSUME Disk, NEW p \in Nat, NEW n \in Nat
  PROVE  LET m == IF p >= size THEN 0 ELSE Lesser(n, size - p)
         IN  /\ BytesAt(p, n) = Between(p, p + m) /\ Len(BytesAt(p, n)) = m
             /\ m \in Nat /\ (m # 0 => p + m <= size) /\ m <= n
<1> DEFINE m == IF p >= size THEN 0 ELSE Lesser(n, size - p)
<1>0. size \in Nat /\ size <= FileEnd /\ FileEnd \in Nat  BY DiskNumbers DEF FileEnd
<1>1. m \in Nat /\ (m # 0 => p + m <= size) /\ m <= n  BY <1>0 DEF Lesser
<1>2. BytesAt(p, n) = [k \in 1 .. m |-> ByteAt(p + k - 1)]  BY DEF BytesAt
<1> HIDE DEF m
<1> DEFINE z == p + m
           y == z - p
<1>3. y = m /\ z \in Nat /\ p <= z  BY <1>1
<1>4. Between(p, z) = [k \in 1 .. m |-> ByteAt(p + k - 1)]
  <2>1. Between(p, z) = [k \in 1 .. y |-> ByteAt(p + k - 1)]  BY DEF Between
  <2> HIDE DEF y, z
  <2> QED  BY <1>3, <2>1
<1>5. Len([k \in 1 .. m |-> ByteAt(p + k - 1)]) = m
  <2>1. CASE m = 0
    <3>1. 1 .. m = {}  BY <2>1
    <3>2. [k \in 1 .. m |-> ByteAt(p + k - 1)] = << >>  BY <3>1
    <3> QED  BY <2>1, <3>2
  <2>2. CASE m # 0
    <3>1. z <= FileEnd  BY <1>0, <1>1, <2>2
    <3> HIDE DEF z
    <3>2. Len(Between(p, z)) = z - p  BY <1>3, <3>1, BetweenTyped
    <3> QED  BY <1>3, <1>4, <3>2
  <2> QED  BY <2>1, <2>2
<1>6. /\ BytesAt(p, n) = Between(p, p + m) /\ Len(BytesAt(p, n)) = m
      /\ m \in Nat /\ (m # 0 => p + m <= size) /\ m <= n
  BY <1>1, <1>2, <1>4, <1>5
<1> QED  BY <1>6 DEF m

\* A reply consists of bytes, or of the ids of records.
Item == Byte \cup Nat

\* Bytes and ids are items.
LEMMA Items ==
  /\ \A s \in Seq(Byte) : s \in Seq(Item)
  /\ \A s \in Seq(Nat) : s \in Seq(Item)
<1>1. Byte \subseteq Item /\ Nat \subseteq Item  BY DEF Item
<1>2. Seq(Byte) \subseteq Seq(Item) /\ Seq(Nat) \subseteq Seq(Item)  BY <1>1, SeqMonotonic
<1> QED  BY <1>2

\* Items may be joined in any order of the joins.
LEMMA ItemsJoined ==
  ASSUME NEW s \in Seq(Item), NEW t \in Seq(Item), NEW u \in Seq(Item)
  PROVE  (s \o t) \o u = s \o (t \o u)
BY ConcatAssociative

\* Where the records end that were stored when the request was handled.
StoredEnd(c) == EndOf(recs[conn[c].due])
\* One of them begins at offset p.
AtStored(c, p) == \E j \in 1 .. conn[c].due : recs[j].off = p
\* A filter passes the first n of them.
Passed(c, n) == \A k \in 1 .. n : recs[k].off >= From(c) => ~recs[k].empty
\* The bytes of record i.
Whole(i) == Between(recs[i].off, EndOf(recs[i]))
\* What is asked of each of them,
Wants(c) == [i \in 1 .. conn[c].due |-> Wanted(c, i)]
\* and of the first n together.
UpTo(c, n) == Part(Wants(c), n)

\* The records that were stored when the request of c was handled.
LEMMA Due ==
  ASSUME Disk, ConnTyped, NEW c \in Client, conn[c].due # 0
  PROVE  /\ conn[c].due \in Nat \ {0}
         /\ conn[c].due \in 1 .. acked /\ conn[c].due \in 1 .. Len(recs)
         /\ From(c) \in Nat /\ StoredEnd(c) \in Nat
         /\ StoredEnd(c) <= AckedEnd /\ StoredEnd(c) <= size /\ StoredEnd(c) <= FileEnd
         /\ \A i \in 1 .. conn[c].due :
              /\ i \in 1 .. Len(recs) /\ i \in 1 .. acked
              /\ recs[i].off \in Nat /\ recs[i].len \in Nat \ {0} /\ recs[i].id \in Nat
              /\ EndOf(recs[i]) \in Nat /\ recs[i].off < EndOf(recs[i])
              /\ EndOf(recs[i]) <= StoredEnd(c) /\ EndOf(recs[i]) <= size
<1>0. Chained(recs) /\ acked \in 1 .. Len(recs) /\ Len(recs) \in Nat \ {0} /\ size \in Nat
      /\ AckedEnd = EndOf(recs[acked]) /\ AckedEnd <= size /\ size <= FileEnd
      /\ AckedEnd \in Nat /\ FileEnd \in Nat
  BY DiskNumbers DEF Disk, FileEnd
<1>1. conn[c] \in ConnType /\ conn[c].due <= acked  BY DEF ConnTyped
<1>2. conn[c].due \in Nat \ {0} /\ From(c) \in Nat  BY <1>1 DEF ConnType, From
<1> DEFINE d == conn[c].due
<1>3. d \in 1 .. acked /\ d \in 1 .. Len(recs)  BY <1>0, <1>1, <1>2
<1>4. ASSUME NEW i \in 1 .. Len(recs), NEW j \in 1 .. Len(recs), i <= j
      PROVE  EndOf(recs[i]) <= EndOf(recs[j])
  <2>1. EndOf(recs[i]) \in Nat /\ recs[j].off < EndOf(recs[j]) /\ EndOf(recs[j]) \in Nat
        /\ recs[j].off \in Nat
    BY <1>0, RecordNumbers
  <2>2. CASE i = j  BY <2>1, <2>2
  <2>3. CASE i # j
    <3>1. j \in i + 1 .. Len(recs)  BY <1>4, <2>3
    <3>2. EndOf(recs[i]) <= recs[j].off  BY <1>0, <3>1, Later
    <3> QED  BY <2>1, <3>2
  <2> QED  BY <2>2, <2>3
<1>5. StoredEnd(c) \in Nat /\ StoredEnd(c) <= AckedEnd
  <2>1. StoredEnd(c) = EndOf(recs[d])  BY DEF StoredEnd
  <2> HIDE DEF d
  <2>2. EndOf(recs[d]) \in Nat  BY <1>0, <1>3, RecordNumbers
  <2>3. d <= acked  BY <1>3
  <2> QED  BY <1>0, <1>3, <1>4, <2>1, <2>2, <2>3
<1>6. ASSUME NEW i \in 1 .. d
      PROVE  /\ i \in 1 .. Len(recs) /\ i \in 1 .. acked
             /\ recs[i].off \in Nat /\ recs[i].len \in Nat \ {0} /\ recs[i].id \in Nat
             /\ EndOf(recs[i]) \in Nat /\ recs[i].off < EndOf(recs[i])
             /\ EndOf(recs[i]) <= StoredEnd(c) /\ EndOf(recs[i]) <= size
  <2>1. StoredEnd(c) = EndOf(recs[d])  BY DEF StoredEnd
  <2> HIDE DEF d
  <2>2. i \in 1 .. Len(recs) /\ i \in 1 .. acked /\ i <= d  BY <1>0, <1>3
  <2>3. EndOf(recs[i]) <= EndOf(recs[d])  BY <1>3, <1>4, <2>2
  <2>4. /\ recs[i].off \in Nat /\ recs[i].len \in Nat \ {0} /\ recs[i].id \in Nat
        /\ EndOf(recs[i]) \in Nat /\ recs[i].off < EndOf(recs[i])
    BY <1>0, <2>2, RecordNumbers
  <2> QED  BY <1>0, <1>5, <2>1, <2>2, <2>3, <2>4
<1>7. StoredEnd(c) <= size /\ StoredEnd(c) <= FileEnd  BY <1>0, <1>5
<1> QED  BY <1>2, <1>3, <1>5, <1>6, <1>7

\* Each of them follows the one before.
LEMMA DueNext ==
  ASSUME Disk, ConnTyped, NEW c \in Client, conn[c].due # 0, NEW j \in 1 .. conn[c].due
  PROVE  /\ j = conn[c].due => EndOf(recs[j]) = StoredEnd(c)
         /\ j # conn[c].due => j + 1 \in 1 .. conn[c].due /\ recs[j + 1].off = EndOf(recs[j])
         /\ \A i \in 1 .. conn[c].due : i < j => EndOf(recs[i]) <= recs[j].off
         /\ \A i \in 1 .. conn[c].due : recs[i].off = recs[j].off => i = j
<1>0. /\ conn[c].due \in 1 .. Len(recs) /\ Len(recs) \in Nat /\ Chained(recs)
      /\ \A i \in 1 .. conn[c].due : i \in 1 .. Len(recs)
  BY Due, DiskNumbers DEF Disk
<1>1. j = conn[c].due => EndOf(recs[j]) = StoredEnd(c)  BY DEF StoredEnd
<1>2. ASSUME j # conn[c].due
      PROVE  j + 1 \in 1 .. conn[c].due /\ recs[j + 1].off = EndOf(recs[j])
  <2>1. j + 1 \in 1 .. conn[c].due /\ j \in 1 .. Len(recs) - 1  BY <1>0, <1>2
  <2> QED  BY <1>0, <2>1 DEF Chained
<1>3. ASSUME NEW i \in 1 .. Len(recs), NEW k \in 1 .. Len(recs), i < k
      PROVE  EndOf(recs[i]) <= recs[k].off
  <2>1. k \in i + 1 .. Len(recs)  BY <1>0, <1>3
  <2> QED  BY <1>0, <2>1, Later
<1>4. ASSUME NEW i \in 1 .. conn[c].due, recs[i].off = recs[j].off PROVE i = j
  <2>1. i \in 1 .. Len(recs) /\ j \in 1 .. Len(recs)  BY <1>0
  <2>2. /\ recs[i].off \in Nat /\ EndOf(recs[i]) \in Nat /\ recs[i].off < EndOf(recs[i])
        /\ recs[j].off \in Nat /\ EndOf(recs[j]) \in Nat /\ recs[j].off < EndOf(recs[j])
    BY <1>0, <2>1, RecordNumbers
  <2>3. i < j => EndOf(recs[i]) <= recs[j].off  BY <1>3, <2>1
  <2>4. j < i => EndOf(recs[j]) <= recs[i].off  BY <1>3, <2>1
  <2> QED  BY <1>0, <1>4, <2>1, <2>2, <2>3, <2>4
<1> QED  BY <1>0, <1>1, <1>2, <1>3, <1>4

\* It consists of items.
LEMMA WantedTyped ==
  ASSUME Disk, ConnTyped, NEW c \in Client, conn[c].due # 0
  PROVE  /\ Wants(c) \in Seq(Seq(Item)) /\ Len(Wants(c)) = conn[c].due
         /\ \A i \in 1 .. conn[c].due : /\ Wants(c)[i] = Wanted(c, i)
                                       /\ Wanted(c, i) \in Seq(Item)
                                       /\ Whole(i) \in Seq(Byte)
         /\ conn[c].q.kind # "file" => Promised(c) = UpTo(c, conn[c].due)
         /\ conn[c].q.kind = "file" => Promised(c) = Between(From(c), StoredEnd(c))
         /\ Promised(c) \in Seq(Item)
         /\ \A n \in 0 .. conn[c].due : UpTo(c, n) \in Seq(Item)
<1> DEFINE d == conn[c].due
<1>0. /\ d \in Nat \ {0} /\ From(c) \in Nat /\ StoredEnd(c) \in Nat /\ StoredEnd(c) <= FileEnd
      /\ \A i \in 1 .. d : i \in 1 .. Len(recs) /\ recs[i].off \in Nat /\ recs[i].id \in Nat
           /\ EndOf(recs[i]) \in Nat /\ EndOf(recs[i]) <= StoredEnd(c)
      /\ FileEnd \in Nat
  BY Due, DiskNumbers DEF FileEnd
<1>1. ASSUME NEW i \in 1 .. d PROVE Whole(i) \in Seq(Byte)
  <2>1. EndOf(recs[i]) <= FileEnd  BY <1>0
  <2> QED  BY <1>0, <2>1, BetweenTyped DEF Whole
<1>2. ASSUME NEW i \in 1 .. d PROVE Wanted(c, i) \in Seq(Item)
  <2>1. Wanted(c, i) \in {Whole(i), <<recs[i].id>>, << >>}  BY DEF Wanted, Whole
  <2>2. <<recs[i].id>> \in Seq(Nat) /\ << >> \in Seq(Nat)  BY <1>0
  <2>3. Whole(i) \in Seq(Item) /\ <<recs[i].id>> \in Seq(Item) /\ << >> \in Seq(Item)
    BY <1>1, <2>2, Items
  <2> QED  BY <2>1, <2>3
<1>3. Wants(c) \in Seq(Seq(Item)) /\ Len(Wants(c)) = d
      /\ \A i \in 1 .. d : Wants(c)[i] = Wanted(c, i)
  <2> DEFINE W(i) == Wanted(c, i)
             S == Seq(Item)
  <2>1. \A i \in 1 .. d : W(i) \in S  BY <1>2
  <2>2. Wants(c) = [i \in 1 .. d |-> W(i)]  BY DEF Wants
  <2> HIDE DEF d, W, S
  <2>3. [i \in 1 .. d |-> W(i)] \in Seq(S) /\ Len([i \in 1 .. d |-> W(i)]) = d
        /\ \A i \in 1 .. d : [k \in 1 .. d |-> W(k)][i] = W(i)
    BY <1>0, <2>1
  <2> QED  BY <2>2, <2>3 DEF S, W
<1>4. ASSUME NEW n \in 0 .. d PROVE UpTo(c, n) \in Seq(Item)
  BY <1>3, PartTyped DEF UpTo
<1>5. UpTo(c, d) = FlattenSeq(Wants(c))  BY <1>3, PartEnds DEF UpTo
<1>6. conn[c].q.kind # "file" => Promised(c) = UpTo(c, d)  BY <1>5 DEF Promised, Wants
<1>7. conn[c].q.kind = "file" => Promised(c) = Between(From(c), StoredEnd(c))
  BY DEF Promised, StoredEnd
<1>8. Promised(c) \in Seq(Item)
  <2>1. Between(From(c), StoredEnd(c)) \in Seq(Item)  BY <1>0, BetweenTyped, Items
  <2>2. d \in 0 .. d  BY <1>0
  <2> QED  BY <1>4, <1>6, <1>7, <2>1, <2>2
<1> QED  BY <1>1, <1>2, <1>3, <1>4, <1>6, <1>7, <1>8

\* The parts of the reply, one record after the other.
LEMMA UpToGives ==
  ASSUME Disk, ConnTyped, NEW c \in Client, conn[c].due # 0
  PROVE  /\ UpTo(c, 0) = << >>
         /\ \A j \in 1 .. conn[c].due : UpTo(c, j) = UpTo(c, j - 1) \o Wanted(c, j)
         /\ \A m \in 0 .. conn[c].due : \A n \in m .. conn[c].due :
              /\ IsPrefix(UpTo(c, m), UpTo(c, n))
              /\ (\A i \in m + 1 .. n : Wanted(c, i) = << >>) => UpTo(c, n) = UpTo(c, m)
<1> DEFINE d == conn[c].due
           w == Wants(c)
<1>1. /\ w \in Seq(Seq(Item)) /\ Len(w) = d /\ d \in Nat
      /\ \A i \in 1 .. d : w[i] = Wanted(c, i)
  BY WantedTyped, Due
<1>2. \A n : UpTo(c, n) = Part(w, n)  BY DEF UpTo
<1> HIDE DEF w, d
<1>3. Part(w, 0) = << >>  BY <1>1, PartEnds
<1>4. ASSUME NEW j \in 1 .. d PROVE Part(w, j) = Part(w, j - 1) \o Wanted(c, j)
  <2> DEFINE n == j - 1
  <2>1. n \in Nat /\ n + 1 <= Len(w) /\ n + 1 = j  BY <1>1
  <2> HIDE DEF n
  <2>2. Part(w, n + 1) = Part(w, n) \o w[n + 1]  BY <1>1, <2>1, PartMore
  <2>3. Part(w, j) = Part(w, n) \o Wanted(c, j)  BY <1>1, <2>1, <2>2
  <2> QED  BY <2>3 DEF n
<1>5. ASSUME NEW m \in 0 .. d, NEW n \in m .. d PROVE IsPrefix(Part(w, m), Part(w, n))
  <2>1. m \in Nat /\ n \in Nat /\ m <= n /\ n <= Len(w)  BY <1>1
  <2> QED  BY <1>1, <2>1, PartBegins
<1>6. ASSUME NEW m \in 0 .. d, NEW n \in m .. d, \A i \in m + 1 .. n : Wanted(c, i) = << >>
      PROVE  Part(w, n) = Part(w, m)
  <2>1. m \in Nat /\ n \in Nat /\ m <= n /\ n <= Len(w)  BY <1>1
  <2>2. \A i \in m + 1 .. n : i \in 1 .. d  BY <1>1
  <2>3. \A i \in m + 1 .. n : w[i] = << >>  BY <1>1, <1>6, <2>2
  <2> QED  BY <1>1, <2>1, <2>3, PartSkips
<1>7. /\ Part(w, 0) = << >>
      /\ \A j \in 1 .. d : Part(w, j) = Part(w, j - 1) \o Wanted(c, j)
      /\ \A m \in 0 .. d : \A n \in m .. d :
           /\ IsPrefix(Part(w, m), Part(w, n))
           /\ (\A i \in m + 1 .. n : Wanted(c, i) = << >>) => Part(w, n) = Part(w, m)
  BY <1>3, <1>4, <1>5, <1>6
<1> QED  BY <1>2, <1>7 DEF d

-----------------------------------------------------------------------------
(* What a request asks for does not change while it is served. *)

\* The request of c is the same, and so are the records it is about.
Lasting(c) ==
  /\ conn'[c].q = conn[c].q /\ conn'[c].due = conn[c].due
  /\ acked <= Len(recs') /\ \A i \in 1 .. acked : recs'[i] = recs[i]

\* Then what it asks for is.
LEMMA StaysAsked ==
  ASSUME Disk, Disk', ConnTyped, NEW c \in Client, conn[c].due # 0, Lasting(c)
  PROVE  /\ From(c)' = From(c) /\ StoredEnd(c)' = StoredEnd(c)
         /\ Promised(c)' = Promised(c) /\ Wants(c)' = Wants(c)
         /\ \A i \in 1 .. conn[c].due :
              recs'[i] = recs[i] /\ Whole(i)' = Whole(i) /\ Wanted(c, i)' = Wanted(c, i)
         /\ \A p \in Nat : \A q \in Nat : q <= StoredEnd(c) => Between(p, q)' = Between(p, q)
         /\ \A p : AtStored(c, p)' = AtStored(c, p)
         /\ \A n \in 0 .. conn[c].due : Passed(c, n)' = Passed(c, n)
<1> DEFINE d == conn[c].due
<1>0. /\ d \in Nat \ {0} /\ d \in 1 .. acked /\ d \in 1 .. Len(recs) /\ From(c) \in Nat
      /\ StoredEnd(c) \in Nat
      /\ \A i \in 1 .. d :
           /\ i \in 1 .. Len(recs) /\ i \in 1 .. acked /\ recs[i].off \in Nat
           /\ EndOf(recs[i]) \in Nat /\ EndOf(recs[i]) <= StoredEnd(c)
      /\ acked \in Nat /\ Len(recs) \in Nat /\ Chained(recs) /\ Chained(recs') /\ Len(recs') \in Nat
  BY Due, DiskNumbers DEF Disk, Chained
<1>1. conn'[c].due = d /\ conn'[c].q = conn[c].q  BY DEF Lasting
<1>2. ASSUME NEW i \in 1 .. d PROVE recs'[i] = recs[i] /\ i \in 1 .. Len(recs')
  <2>1. i \in 1 .. acked /\ acked <= Len(recs')  BY <1>0 DEF Lasting
  <2> QED  BY <1>0, <2>1 DEF Lasting
<1>3. From(c)' = From(c)  BY <1>1 DEF From
<1>4. StoredEnd(c)' = StoredEnd(c)
  <2>1. d \in 1 .. d  BY <1>0
  <2> QED  BY <1>1, <1>2, <2>1 DEF StoredEnd
<1>5. ASSUME NEW p \in Nat, p < StoredEnd(c) PROVE ByteAt(p)' = ByteAt(p)
  <2>1. StoredEnd(c) = EndOf(recs[d])  BY DEF StoredEnd
  <2> HIDE DEF d
  <2>2. PICK i \in 1 .. d : recs[i].off <= p /\ p < EndOf(recs[i])
    <3>1. Chained(SubSeq(recs, 1, d)) /\ Len(SubSeq(recs, 1, d)) = d
          /\ \A i \in 1 .. d : SubSeq(recs, 1, d)[i] = recs[i]
      BY <1>0, ChainedPart
    <3> DEFINE f == SubSeq(recs, 1, d)
    <3>2. d \in 1 .. d  BY <1>0
    <3>3. Chained(f) /\ Len(f) = d /\ \A i \in 1 .. d : f[i] = recs[i]  BY <3>1
    <3> HIDE DEF f
    <3>4. p < EndOf(f[Len(f)])  BY <1>5, <2>1, <3>2, <3>3
    <3>5. \E i \in 1 .. Len(f) : f[i].off <= p /\ p < EndOf(f[i])  BY <3>3, <3>4, InSomeRecord
    <3> QED  BY <3>3, <3>5
  <2>3. i \in 1 .. Len(recs) /\ i \in 1 .. Len(recs') /\ recs'[i] = recs[i]  BY <1>0, <1>2
  <2>4. (CHOOSE k \in 1 .. Len(recs) : recs[k].off <= p /\ p < EndOf(recs[k])) = i
    BY <1>0, <2>2, <2>3, OneRecord
  <2>5. recs'[i].off <= p /\ p < EndOf(recs'[i])  BY <2>2, <2>3
  <2>6. (CHOOSE k \in 1 .. Len(recs') : recs'[k].off <= p /\ p < EndOf(recs'[k])) = i
    BY <1>0, <2>3, <2>5, OneRecord
  <2>7. ByteAt(p) = <<recs[i].id, p - recs[i].off>>  BY <2>4 DEF ByteAt
  <2>8. ByteAt(p)' = <<recs'[i].id, p - recs'[i].off>>  BY <2>6 DEF ByteAt
  <2> QED  BY <2>3, <2>7, <2>8
<1>6. ASSUME NEW p \in Nat, NEW q \in Nat, q <= StoredEnd(c)
      PROVE  Between(p, q)' = Between(p, q)
  <2>1. ASSUME NEW k \in 1 .. q - p PROVE ByteAt(p + k - 1)' = ByteAt(p + k - 1)
    <3> DEFINE x == p + k - 1
    <3>1. x \in Nat /\ x < StoredEnd(c)  BY <1>0, <1>6
    <3> HIDE DEF x
    <3>2. ByteAt(x)' = ByteAt(x)  BY <1>5, <3>1
    <3> QED  BY <3>2 DEF x
  <2>2. Between(p, q)' = [k \in 1 .. q - p |-> ByteAt(p + k - 1)']  BY DEF Between
  <2>3. Between(p, q) = [k \in 1 .. q - p |-> ByteAt(p + k - 1)]  BY DEF Between
  <2> QED  BY <2>1, <2>2, <2>3
<1>7. ASSUME NEW i \in 1 .. d PROVE Whole(i)' = Whole(i)
  <2>1. PICK p \in Nat, q \in Nat : p = recs[i].off /\ q = EndOf(recs[i]) /\ q <= StoredEnd(c)
    BY <1>0
  <2>2. Whole(i) = Between(p, q)  BY <2>1 DEF Whole
  <2>3. Whole(i)' = Between(p, q)'
    <3>1. recs'[i].off = p /\ EndOf(recs'[i]) = q  BY <1>2, <2>1
    <3> QED  BY <3>1 DEF Whole, Between
  <2> QED  BY <1>6, <2>1, <2>2, <2>3
<1>8. \A p : AtStored(c, p)' = AtStored(c, p)  BY <1>1, <1>2 DEF AtStored
<1>12. ASSUME NEW n \in 0 .. d PROVE Passed(c, n)' = Passed(c, n)
  <2>1. \A k \in 1 .. n : k \in 1 .. d  BY <1>0
  <2>2. \A k \in 1 .. n : recs'[k] = recs[k]  BY <1>2, <2>1
  <2> QED  BY <1>3, <2>2 DEF Passed
<1>9. ASSUME NEW i \in 1 .. d PROVE Wanted(c, i)' = Wanted(c, i)
  <2>0. PICK q : q = conn[c].q  OBVIOUS
  <2>00. PICK x : x = q.from  OBVIOUS
  <2> DEFINE r == recs[i]
             w(at, all) == CASE q.kind = "record" /\ r.off = x /\ ~r.empty -> all
                             [] q.kind = "filter" /\ r.off >= x /\ r.hit /\ at -> all
                             [] q.kind = "list" /\ r.off >= x -> <<r.id>>
                             [] OTHER -> << >>
  <2>1. Wanted(c, i) = w(Reached(c, i), Whole(i))  BY <2>0, <2>00 DEF Wanted, Whole
  <2>2. Wanted(c, i)' = w(Reached(c, i)', Whole(i)')
    BY <1>1, <1>2, <2>0, <2>00 DEF Wanted, Whole
  <2>3. Reached(c, i)' = Reached(c, i)
    <3>1. i \in 0 .. d  BY <1>0
    <3>2. Passed(c, i)' = Passed(c, i)  BY <1>12, <3>1
    <3>3. AtStored(c, x)' = AtStored(c, x)  BY <1>8
    <3>4. From(c) = x  BY <2>0, <2>00 DEF From
    <3>5. Reached(c, i) = (AtStored(c, x) /\ Passed(c, i))
      BY <3>4 DEF Reached, AtStored, Passed
    <3>6. Reached(c, i)' = (AtStored(c, x)' /\ Passed(c, i)')
      BY <1>3, <3>4 DEF Reached, AtStored, Passed
    <3> QED  BY <3>2, <3>3, <3>5, <3>6
  <2>4. Whole(i)' = Whole(i)  BY <1>7
  <2> HIDE DEF w
  <2> QED  BY <2>1, <2>2, <2>3, <2>4
<1>10. Wants(c)' = Wants(c)
  <2>1. Wants(c)' = [i \in 1 .. d |-> Wanted(c, i)']  BY <1>1 DEF Wants
  <2>2. Wants(c) = [i \in 1 .. d |-> Wanted(c, i)]  BY DEF Wants
  <2> HIDE DEF d
  <2> QED  BY <1>9, <2>1, <2>2
<1>11. Promised(c)' = Promised(c)
  <2>1. CASE conn[c].q.kind = "file"
    <3>0. PICK p \in Nat, q \in Nat : p = From(c) /\ q = StoredEnd(c)  BY <1>0
    <3>1. Promised(c)' = Between(p, q)'
      <4>1. From(c)' = p /\ StoredEnd(c)' = q  BY <1>3, <1>4, <3>0
      <4> QED  BY <1>1, <2>1, <4>1 DEF Promised, StoredEnd, Between
    <3>2. Between(p, q)' = Between(p, q)  BY <1>0, <1>6, <3>0
    <3>3. Promised(c) = Between(p, q)  BY <2>1, <3>0 DEF Promised, StoredEnd
    <3> QED  BY <3>1, <3>2, <3>3
  <2>2. CASE conn[c].q.kind # "file"
    <3>1. Promised(c)' = FlattenSeq(Wants(c)')  BY <1>1, <2>2 DEF Promised, Wants
    <3>2. Promised(c) = FlattenSeq(Wants(c))  BY <2>2 DEF Promised, Wants
    <3> QED  BY <1>10, <3>1, <3>2
  <2> QED  BY <2>1, <2>2
<1> QED  BY <1>2, <1>3, <1>4, <1>6, <1>7, <1>8, <1>9, <1>10, <1>11, <1>12

-----------------------------------------------------------------------------
(* The end of a reply. *)

\* The end of a chunked reply, as a client sees it.
Ending(f) == f.t = "last" \/ (f.t = "chunk" /\ f.bytes = << >>)

\* Where a reply ends, all that was promised came before; an error may come first.
Marks(F, got, P) ==
  \A k \in 1 .. Len(F) :
    /\ Ending(F[k]) => IsPrefix(P, got \o Carried(SubSeq(F, 1, k - 1)))
    /\ F[k].t = "page" => P = << >>
    /\ F[k].t = "body" => IsPrefix(P, F[k].ids) \/ (k > 1 /\ F[1].t = "error")

\* One frame more, which may be the end.
LEMMA MarksMore ==
  ASSUME NEW F \in Seq(OneFrame), NEW got, NEW P, NEW f \in OneFrame, Marks(F, got, P),
         Ending(f) => IsPrefix(P, got \o Carried(F)),
         f.t = "page" => P = << >>,
         f.t = "body" => IsPrefix(P, f.ids) \/ (F # << >> /\ F[1].t = "error")
  PROVE  Marks(F \o <<f>>, got, P)
<1> DEFINE h == <<f>>
           G == F \o h
<1>0. Len(F) \in Nat /\ h \in Seq(OneFrame) /\ Len(h) = 1 /\ h[1] = f  OBVIOUS
<1>1. /\ G \in Seq(OneFrame) /\ Len(G) = Len(F) + 1
      /\ \A k \in 1 .. Len(F) : G[k] = F[k]
      /\ G[Len(F) + 1] = f
  <2> HIDE DEF h
  <2>1. F \in Seq(OneFrame) /\ h \in Seq(OneFrame)  BY <1>0
  <2>2. /\ G \in Seq(OneFrame) /\ Len(G) = Len(F) + Len(h)
        /\ \A k \in 1 .. Len(F) + Len(h) : G[k] = IF k <= Len(F) THEN F[k] ELSE h[k - Len(F)]
    BY <2>1, ConcatProperties
  <2> HIDE DEF G
  <2>3. \A k \in 1 .. Len(F) + 1 : G[k] = IF k <= Len(F) THEN F[k] ELSE h[k - Len(F)]
    BY <1>0, <2>2
  <2>4. \A k \in 1 .. Len(F) : k \in 1 .. Len(F) + 1 /\ k <= Len(F)  BY <1>0
  <2>5. Len(F) + 1 \in 1 .. Len(F) + 1 /\ ~ (Len(F) + 1 <= Len(F)) /\ Len(F) + 1 - Len(F) = 1
    BY <1>0
  <2>6. G[Len(F) + 1] = f  BY <1>0, <2>3, <2>5
  <2> QED  BY <1>0, <2>2, <2>3, <2>4, <2>6
<1> HIDE DEF G
<1>2. ASSUME NEW n \in 0 .. Len(F) PROVE SubSeq(G, 1, n) = SubSeq(F, 1, n)
  <2>1. \A i \in 1 .. n : G[i] = F[i] /\ F[i] \in OneFrame /\ G[i] \in OneFrame  BY <1>0, <1>1
  <2>2. n \in Int /\ 1 \in Int  OBVIOUS
  <2> DEFINE a == SubSeq(G, 1, n)
             b == SubSeq(F, 1, n)
  <2>3. /\ a \in Seq(OneFrame) /\ Len(a) = IF 1 <= n THEN n - 1 + 1 ELSE 0
        /\ \A i \in 1 .. n - 1 + 1 : a[i] = G[1 + i - 1]
    BY <2>1, <2>2, SubSeqProperties
  <2>4. /\ b \in Seq(OneFrame) /\ Len(b) = IF 1 <= n THEN n - 1 + 1 ELSE 0
        /\ \A i \in 1 .. n - 1 + 1 : b[i] = F[1 + i - 1]
    BY <2>1, <2>2, SubSeqProperties
  <2> HIDE DEF a, b
  <2>5. n - 1 + 1 = n /\ (IF 1 <= n THEN n - 1 + 1 ELSE 0) = n /\ \A i \in 1 .. n : 1 + i - 1 = i
    OBVIOUS
  <2>6. Len(a) = n /\ Len(b) = n /\ \A i \in 1 .. n : a[i] = b[i]  BY <2>1, <2>3, <2>4, <2>5
  <2>7. a = b  BY <2>3, <2>4, <2>6, SeqEqual
  <2> QED  BY <2>7 DEF a, b
<1>3. SubSeq(G, 1, Len(F)) = F
  <2>1. SubSeq(F, 1, Len(F)) = F  BY SubSeqFull
  <2>2. Len(F) \in 0 .. Len(F)  BY <1>0
  <2> QED  BY <1>2, <2>1, <2>2
<1>4. ASSUME NEW k \in 1 .. Len(G)
      PROVE  /\ Ending(G[k]) => IsPrefix(P, got \o Carried(SubSeq(G, 1, k - 1)))
             /\ G[k].t = "page" => P = << >>
             /\ G[k].t = "body" => IsPrefix(P, G[k].ids) \/ (k > 1 /\ G[1].t = "error")
  <2>1. CASE k \in 1 .. Len(F)
    <3>1. k - 1 \in 0 .. Len(F) /\ 1 \in 1 .. Len(F)  BY <1>0, <2>1
    <3>2. SubSeq(G, 1, k - 1) = SubSeq(F, 1, k - 1) /\ G[k] = F[k] /\ G[1] = F[1]
      BY <1>1, <1>2, <2>1, <3>1
    <3>3. /\ Ending(F[k]) => IsPrefix(P, got \o Carried(SubSeq(F, 1, k - 1)))
          /\ F[k].t = "page" => P = << >>
          /\ F[k].t = "body" => IsPrefix(P, F[k].ids) \/ (k > 1 /\ F[1].t = "error")
      BY <2>1 DEF Marks
    <3> QED  BY <3>2, <3>3
  <2>2. CASE k = Len(F) + 1
    <3>1. k - 1 = Len(F)  BY <1>0, <2>2
    <3>2. G[k] = f /\ SubSeq(G, 1, k - 1) = F  BY <1>1, <1>3, <2>2, <3>1
    <3>3. F # << >> => k > 1 /\ G[1] = F[1]
      <4>1. F # << >> => Len(F) # 0  OBVIOUS
      <4>2. F # << >> => 1 \in 1 .. Len(F)  BY <1>0, <4>1
      <4> QED  BY <1>0, <1>1, <2>2, <4>1, <4>2
    <3> QED  BY <3>2, <3>3
  <2> QED  BY <1>0, <1>1, <2>1, <2>2
<1>5. Marks(G, got, P)  BY <1>4 DEF Marks
<1> QED  BY <1>5 DEF G

\* No frame ends nothing.
LEMMA MarksNone ==
  ASSUME NEW got, NEW P
  PROVE  Marks(<< >>, got, P)
BY DEF Marks

\* A single frame.
LEMMA MarksOne ==
  ASSUME NEW got \in Seq(Byte), NEW P, NEW f \in OneFrame,
         Ending(f) => IsPrefix(P, got), f.t = "page" => P = << >>,
         f.t = "body" => IsPrefix(P, f.ids)
  PROVE  Marks(<<f>>, got, P)
<1>1. << >> \in Seq(OneFrame) /\ << >> \o <<f>> = <<f>>  OBVIOUS
<1>2. got \o Carried(<< >>) = got  BY CarriedNone, ConcatEmptySeq
<1> QED  BY <1>1, <1>2, MarksNone, MarksMore

\* The client takes the head or a chunk.
LEMMA MarksTail ==
  ASSUME NEW F \in Seq(OneFrame), F # << >>, NEW got \in Seq(Byte), NEW P, Marks(F, got, P),
         F[1].t \in {"head", "chunk"}
  PROVE  Marks(Tail(F), got \o BytesOf(F[1]), P)
<1> DEFINE T == Tail(F)
           bs == BytesOf(F[1])
<1>0. Len(F) \in Nat \ {0} /\ F[1] \in OneFrame  OBVIOUS
<1>1. T \in Seq(OneFrame) /\ Len(T) = Len(F) - 1 /\ \A k \in 1 .. Len(F) - 1 : T[k] = F[k + 1]
  BY HeadTailProperties
<1>2. bs \in Seq(Byte)  BY <1>0, BytesOfTyped
<1>3. ASSUME NEW k \in 1 .. Len(T)
      PROVE  /\ Ending(T[k]) => IsPrefix(P, (got \o bs) \o Carried(SubSeq(T, 1, k - 1)))
             /\ T[k].t = "page" => P = << >>
             /\ T[k].t = "body" => IsPrefix(P, T[k].ids) \/ (k > 1 /\ T[1].t = "error")
  <2> DEFINE S == SubSeq(F, 1, k)
             m == k + 1
  <2>1. k \in 1 .. Len(F) - 1 /\ m \in 1 .. Len(F) /\ m - 1 = k  BY <1>0, <1>1
  <2>2. T[k] = F[m]  BY <1>1, <2>1
  <2>3. /\ Ending(F[m]) => IsPrefix(P, got \o Carried(SubSeq(F, 1, m - 1)))
        /\ F[m].t = "page" => P = << >>
        /\ F[m].t = "body" => IsPrefix(P, F[m].ids) \/ (m > 1 /\ F[1].t = "error")
    <3> HIDE DEF m
    <3> QED  BY <2>1 DEF Marks
  <2>4. S \in Seq(OneFrame) /\ Len(S) = k /\ S[1] = F[1] /\ S # << >>
    <3>1. k \in Nat /\ k <= Len(F) /\ k # 0  BY <1>0, <2>1
    <3>2. S \in Seq(OneFrame) /\ Len(S) = k /\ S[1] = F[1]  BY <1>0, <3>1
    <3> QED  BY <3>1, <3>2
  <2>5. Tail(S) = SubSeq(T, 1, k - 1)
    <3> DEFINE a == Tail(S)
               b == SubSeq(T, 1, k - 1)
    <3>1. \A i \in 1 .. k : S[i] = F[i]  BY <1>0, <2>1
    <3> HIDE DEF S, T
    <3>2. a \in Seq(OneFrame) /\ Len(a) = k - 1 /\ \A i \in 1 .. k - 1 : a[i] = S[i + 1]
      BY <2>4, HeadTailProperties
    <3>3. b \in Seq(OneFrame) /\ Len(b) = k - 1 /\ \A i \in 1 .. k - 1 : b[i] = T[i]
      <4>1. \A i \in 1 .. k - 1 : i \in 1 .. Len(T)  BY <1>0, <1>1
      <4>2. \A i \in 1 .. k - 1 : T[i] \in OneFrame  BY <1>1, <4>1
      <4>3. k - 1 \in Nat  OBVIOUS
      <4> QED  BY <4>2, <4>3
    <3> HIDE DEF a, b
    <3>4. ASSUME NEW i \in 1 .. k - 1 PROVE a[i] = b[i]
      <4>1. i + 1 \in 1 .. k /\ i \in 1 .. Len(F) - 1  BY <2>1
      <4> QED  BY <1>1, <3>1, <3>2, <3>3, <4>1
    <3>5. a = b  BY <3>2, <3>3, <3>4, SeqEqual
    <3> QED  BY <3>5 DEF a, b
  <2>6. Carried(S) = bs \o Carried(SubSeq(T, 1, k - 1))
    <3> HIDE DEF S
    <3>1. Carried(S) = BytesOf(S[1]) \o Carried(Tail(S))  BY <2>4, CarriedFirst
    <3> QED  BY <2>4, <2>5, <3>1
  <2>7. got \o Carried(S) = (got \o bs) \o Carried(SubSeq(T, 1, k - 1))
    <3> DEFINE x == Carried(SubSeq(T, 1, k - 1))
    <3>1. x \in Seq(Byte)
      <4>1. Tail(S) \in Seq(OneFrame)
        <5> HIDE DEF S
        <5> QED  BY <2>4
      <4> QED  BY <2>5, <4>1, CarriedTyped
    <3> HIDE DEF x, bs, S, T, m
    <3>3. got \in Seq(Byte) /\ bs \in Seq(Byte) /\ x \in Seq(Byte)  BY <1>2, <3>1
    <3>2. (got \o bs) \o x = got \o (bs \o x)  BY <3>3, BytesJoined
    <3> QED  BY <2>6, <3>2 DEF x
  <2>8. SubSeq(F, 1, m - 1) = S  BY <2>1
  <2> HIDE DEF S, T, m, bs
  <2> QED  BY <2>2, <2>3, <2>7, <2>8
<1>4. Marks(T, got \o bs, P)  BY <1>3 DEF Marks
<1> QED  BY <1>4

-----------------------------------------------------------------------------
(* What a client was sent, step by step. *)

\* What a client was sent is a sequence.
LEMMA StreamTyped ==
  ASSUME ConnTyped, CallTyped, NEW c \in Client
  PROVE  /\ Frames(c) \in Seq(OneFrame) /\ Carried(Frames(c)) \in Seq(Byte)
         /\ call[c].got \in Seq(Item) /\ Stream(c) \in Seq(Item) /\ Len(Stream(c)) \in Nat
         /\ call[c].st # "over" => call[c].got \in Seq(Byte) /\ Stream(c) \in Seq(Byte)
<1> DEFINE x == call[c].got
           y == Carried(Frames(c))
<1>1. Frames(c) \in Seq(OneFrame) /\ y \in Seq(Byte)  BY FramesTyped, CarriedTyped
<1>2. call[c] \in CallType  BY DEF CallTyped
<1>3. x \in Seq(Item)
  <2>1. x \in Seq(Byte) \cup Seq(Nat)  BY <1>2 DEF CallType
  <2> QED  BY <2>1, Items
<1>4. call[c].st # "over" => x \in Seq(Byte)  BY DEF CallTyped
<1>5. Stream(c) = x \o y  BY DEF Stream
<1> HIDE DEF x, y
<1>6. y \in Seq(Item)  BY <1>1, Items
<1>7. x \o y \in Seq(Item) /\ Len(x \o y) \in Nat  BY <1>3, <1>6
<1>8. x \in Seq(Byte) => x \o y \in Seq(Byte)  BY <1>1
<1> QED  BY <1>1, <1>3, <1>4, <1>5, <1>7, <1>8 DEF x, y

\* A client that was sent nothing, and then is sent some frames.
LEMMA RepliedHas ==
  ASSUME Types, NEW c \in Client, NEW frames \in Seq(OneFrame), HasReplied(c, frames), call' = call,
         conn[c].out = << >>, conn[c].wire = << >>, call[c].got = << >>
  PROVE  /\ \A d \in Client : d # c => conn'[d] = conn[d]
         /\ conn'[c].q = conn[c].q /\ conn'[c].st = "handled" /\ conn'[c].due = acked
         /\ conn'[c].gone = conn[c].gone /\ conn'[c].wire = << >> /\ conn'[c].out = frames
         /\ Frames(c)' = frames /\ Stream(c)' = Carried(frames)
<1>1. /\ \A d \in Client : d # c => conn'[d] = conn[d]
      /\ conn'[c].q = conn[c].q /\ conn'[c].st = "handled" /\ conn'[c].due = acked
      /\ conn'[c].gone = conn[c].gone
      /\ conn'[c].out = << >> \o frames /\ conn'[c].wire = << >>
  BY DEF HasReplied
<1>2. << >> \o frames = frames  OBVIOUS
<1>3. Frames(c)' = frames  BY <1>1, <1>2 DEF Frames
<1>4. Stream(c)' = << >> \o Carried(frames)  BY <1>3 DEF Stream
<1>5. Carried(frames) \in Seq(Byte)  BY CarriedTyped
<1>6. << >> \o Carried(frames) = Carried(frames)  BY <1>5, ConcatEmptySeq
<1> QED  BY <1>1, <1>2, <1>3, <1>4, <1>6

\* So it is after a handler's reply.
LEMMA Replied ==
  ASSUME Types, NEW c \in Client, NEW frames \in Seq(OneFrame), Reply(c, frames), call' = call,
         conn[c].out = << >>, conn[c].wire = << >>, call[c].got = << >>
  PROVE  /\ \A d \in Client : d # c => conn'[d] = conn[d]
         /\ conn'[c].q = conn[c].q /\ conn'[c].st = "handled" /\ conn'[c].due = acked
         /\ conn'[c].gone = conn[c].gone /\ conn'[c].wire = << >> /\ conn'[c].out = frames
         /\ conn'[c].torn = conn[c].torn
         /\ Frames(c)' = frames /\ Stream(c)' = Carried(frames)
<1>1. HasReplied(c, frames)  BY ReplyHas
<1>2. conn'[c].torn = conn[c].torn  BY ReplyGives, DiskNumbers DEF Types, ConnTyped
<1> QED  BY <1>1, <1>2, RepliedHas

\* A client that is sent more.
LEMMA QueuedHas ==
  ASSUME Types, NEW c \in Client, NEW frames \in Seq(OneFrame), HasQueued(c, frames), call' = call
  PROVE  /\ \A d \in Client : d # c => conn'[d] = conn[d]
         /\ conn'[c].q = conn[c].q /\ conn'[c].st = conn[c].st /\ conn'[c].due = conn[c].due
         /\ conn'[c].gone = conn[c].gone /\ conn'[c].wire = conn[c].wire
         /\ Frames(c)' = Frames(c) \o frames
         /\ Stream(c)' = Stream(c) \o Carried(frames)
<1>0. conn \in [Client -> ConnType] /\ ConnTyped /\ CallTyped  BY DEF Types, ConnTyped
<1>1. /\ \A d \in Client : d # c => conn'[d] = conn[d]
      /\ conn'[c].q = conn[c].q /\ conn'[c].st = conn[c].st /\ conn'[c].due = conn[c].due
      /\ conn'[c].gone = conn[c].gone
      /\ conn'[c].out = conn[c].out \o frames /\ conn'[c].wire = conn[c].wire
  BY DEF HasQueued
<1> DEFINE o == conn[c].out
           w == conn[c].wire
           x == call[c].got
           y == Carried(Frames(c))
           z == Carried(frames)
<1>2. Frames(c)' = w \o (o \o frames) /\ Frames(c) = w \o o  BY <1>1 DEF Frames
<1>3. o \in Seq(OneFrame) /\ w \in Seq(OneFrame)  BY <1>0, FramesTyped
<1>4. x \in Seq(Item) /\ y \in Seq(Byte) /\ z \in Seq(Byte) /\ Frames(c) \in Seq(OneFrame)
  BY <1>0, StreamTyped, CarriedTyped
<1>5. Frames(c)' = Frames(c) \o frames
  <2> HIDE DEF o, w
  <2>1. (w \o o) \o frames = w \o (o \o frames)  BY <1>3, Joined
  <2> QED  BY <1>2, <2>1
<1>6. Stream(c)' = x \o Carried(Frames(c) \o frames) /\ Stream(c) = x \o y  BY <1>5 DEF Stream
<1>7. Carried(Frames(c) \o frames) = y \o z  BY <1>4, CarriedJoined
<1> HIDE DEF x, y, z
<1>8. x \in Seq(Item) /\ y \in Seq(Item) /\ z \in Seq(Item)  BY <1>4, Items
<1>9. (x \o y) \o z = x \o (y \o z)  BY <1>8, ItemsJoined
<1>10. Stream(c)' = Stream(c) \o z  BY <1>6, <1>7, <1>9
<1> QED  BY <1>1, <1>5, <1>10 DEF z

\* So it is after a turn of a handler.
LEMMA Queued ==
  ASSUME Types, NEW c \in Client, NEW frames \in Seq(OneFrame), Queue(c, frames), call' = call
  PROVE  /\ \A d \in Client : d # c => conn'[d] = conn[d]
         /\ conn'[c].q = conn[c].q /\ conn'[c].st = conn[c].st /\ conn'[c].due = conn[c].due
         /\ conn'[c].gone = conn[c].gone /\ conn'[c].wire = conn[c].wire
         /\ conn'[c].torn = conn[c].torn
         /\ Frames(c)' = Frames(c) \o frames
         /\ Stream(c)' = Stream(c) \o Carried(frames)
<1>1. HasQueued(c, frames)  BY QueueHas
<1>2. conn'[c].torn = conn[c].torn  BY QueueGives DEF Types, ConnTyped
<1> QED  BY <1>1, <1>2, QueuedHas

\* A client whose reply is written, or lost.
LEMMA Delivered ==
  ASSUME Types, NEW c \in Client, Write(c), call' = call
  PROVE  /\ \A d \in Client : d # c => conn'[d] = conn[d]
         /\ conn'[c].q = conn[c].q /\ conn'[c].st = conn[c].st /\ conn'[c].due = conn[c].due
         /\ conn'[c].torn = conn[c].torn
         /\ conn'[c].gone = conn[c].gone /\ job' = job /\ job.of = {} /\ UNCHANGED <<disk, exit>>
         /\ IF conn[c].gone THEN conn'[c].wire = conn[c].wire /\ conn'[c].out = << >>
            ELSE Frames(c)' = Frames(c) /\ Stream(c)' = Stream(c)
<1>1. /\ \A d \in Client : d # c => conn'[d] = conn[d]
      /\ conn'[c].q = conn[c].q /\ conn'[c].st = conn[c].st /\ conn'[c].due = conn[c].due
      /\ conn'[c].torn = conn[c].torn
      /\ conn'[c].gone = conn[c].gone /\ job' = job /\ job = NoJob /\ UNCHANGED <<disk, exit>>
  BY WriteGives
<1>2. job.of = {}  BY <1>1 DEF NoJob
<1>3. CASE conn[c].gone  BY <1>1, <1>2, <1>3, WriteGives
<1>4. CASE ~conn[c].gone
  <2>1. PICK k \in 1 .. Len(conn[c].out) :
          /\ conn'[c].wire = conn[c].wire \o SubSeq(conn[c].out, 1, k)
          /\ conn'[c].out = SubSeq(conn[c].out, k + 1, Len(conn[c].out))
    BY <1>4, WriteGives
  <2> DEFINE o == conn[c].out
             w == conn[c].wire
  <2>2. o \in Seq(OneFrame) /\ w \in Seq(OneFrame)  BY FramesTyped DEF Types
  <2>3. Frames(c)' = (w \o SubSeq(o, 1, k)) \o SubSeq(o, k + 1, Len(o))  BY <2>1 DEF Frames
  <2>4. Frames(c) = w \o o  BY DEF Frames
  <2>5. k \in 1 .. Len(o) /\ Len(o) \in Nat  BY <2>2
  <2> HIDE DEF o, w
  <2>6. SubSeq(o, 1, k) \in Seq(OneFrame) /\ SubSeq(o, k + 1, Len(o)) \in Seq(OneFrame)
    BY <2>2, <2>5, SMTT(30)
  <2>7. SubSeq(o, 1, k) \o SubSeq(o, k + 1, Len(o)) = o
    <3>1. /\ 1 \in 1 .. Len(o) + 1 /\ k \in 1 - 1 .. Len(o) /\ Len(o) \in k .. Len(o)
      BY <2>5
    <3>2. SubSeq(o, 1, k) \o SubSeq(o, k + 1, Len(o)) = SubSeq(o, 1, Len(o))
      BY <2>2, <3>1, ConcatAdjacentSubSeq
    <3>3. SubSeq(o, 1, Len(o)) = o  BY <2>2
    <3> QED  BY <3>2, <3>3
  <2>8. (w \o SubSeq(o, 1, k)) \o SubSeq(o, k + 1, Len(o))
          = w \o (SubSeq(o, 1, k) \o SubSeq(o, k + 1, Len(o)))
    BY <2>2, <2>6, Joined
  <2>9. Frames(c)' = Frames(c)  BY <2>3, <2>4, <2>7, <2>8
  <2>10. Stream(c)' = Stream(c)  BY <2>9 DEF Stream
  <2> QED  BY <1>1, <1>2, <1>4, <2>9, <2>10
<1> QED  BY <1>3, <1>4

\* A client that takes the head of its reply, or a chunk.
LEMMA Taken ==
  ASSUME Types, AllFormed, NEW c \in Client, ReadHead(c) \/ ReadChunk(c)
  PROVE  /\ \A d \in Client : d # c => conn'[d] = conn[d] /\ call'[d] = call[d]
         /\ UNCHANGED <<disk, exit, job>>
         /\ conn'[c].q = conn[c].q /\ conn'[c].st = conn[c].st /\ conn'[c].due = conn[c].due
         /\ conn'[c].torn = conn[c].torn
         /\ conn'[c].gone = conn[c].gone /\ conn[c].st = "handled"
         /\ call[c].st # "over" /\ call'[c].st = "reading" /\ call'[c].result = call[c].result
         /\ Frames(c) # << >> /\ Frames(c)[1].t \in {"head", "chunk"}
         /\ Frames(c)' = Tail(Frames(c))
         /\ call'[c].got = call[c].got \o BytesOf(Frames(c)[1])
         /\ Stream(c)' = Stream(c)
         /\ conn[c].q.kind # "list" => \A k \in 1 .. Len(Frames(c)') : Frames(c)'[k].t # "head"
<1>0. ConnTyped /\ CallTyped /\ Formed(c) /\ conn[c] \in ConnType /\ call[c] \in CallType
      /\ call \in [Client -> CallType]
  BY SMTT(30) DEF Types, ConnTyped, CallTyped, AllFormed
<1>1. Consume(c) /\ conn[c].wire # << >> /\ UNCHANGED <<disk, exit, job>>
  BY DEF ReadHead, ReadChunk, Reading, Elsewhere
<1>2. /\ \A d \in Client : d # c => conn'[d] = conn[d]
      /\ conn'[c].q = conn[c].q /\ conn'[c].st = conn[c].st
      /\ conn'[c].out = conn[c].out /\ conn'[c].wire = Tail(conn[c].wire)
      /\ conn'[c].due = conn[c].due /\ conn'[c].gone = conn[c].gone
      /\ conn'[c].torn = conn[c].torn
  BY <1>0, <1>1, ConsumeGives
<1>3. \/ call[c].st = "waiting" /\ conn[c].wire[1].t = "head"
      \/ call[c].st = "reading" /\ conn[c].wire[1].t = "chunk"
  BY DEF ReadHead, ReadChunk, Reading
<1>4. \A d \in Client : d # c => call'[d] = call[d]  BY CallGives DEF ClientReads
<1>5. call'[c].st = "reading"  BY CallGives DEF ClientReads
<1>6. call'[c].result = call[c].result /\ call'[c].got = call[c].got \o BytesOf(conn[c].wire[1])
  <2>0. call[c].got \in Seq(Byte)  BY <1>0, <1>3 DEF CallTyped
  <2>1. CASE ReadHead(c)
    <3>1. BytesOf(conn[c].wire[1]) = << >>  BY <2>1 DEF ReadHead, Reading, BytesOf
    <3>2. call[c].got \o << >> = call[c].got  BY <2>0, ConcatEmptySeq
    <3>3. call' = [call EXCEPT ![c].st = "reading"]  BY <2>1 DEF ReadHead
    <3>4. call'[c].result = call[c].result /\ call'[c].got = call[c].got
      BY <1>0, <3>3 DEF CallType
    <3> QED  BY <3>1, <3>2, <3>4
  <2>2. CASE ReadChunk(c)
    <3>1. BytesOf(conn[c].wire[1]) = conn[c].wire[1].bytes
      BY <2>2, SMTT(30) DEF ReadChunk, Reading, BytesOf
    <3> DEFINE bs == conn[c].wire[1].bytes
    <3>2. call' = [call EXCEPT ![c].got = @ \o bs, ![c].count = (@ + Len(bs)) % W32]
      BY <2>2 DEF ReadChunk
    <3>3. call'[c].result = call[c].result /\ call'[c].got = call[c].got \o bs
      <4> HIDE DEF bs
      <4> QED  BY <1>0, <3>2 DEF CallType
    <3> QED  BY <3>1, <3>3, SMTT(30)
  <2> QED  BY <2>1, <2>2
<1>7. conn[c].st = "handled"
  <2>1. conn[c].st \in {"none", "asked", "handled"}  BY <1>0 DEF ConnType
  <2> QED  BY <1>0, <1>1, <1>3, <2>1 DEF Formed
<1>8. /\ Frames(c) # << >> /\ Frames(c)[1] = conn[c].wire[1] /\ Frames(c)' = Tail(Frames(c))
      /\ Frames(c) \in Seq(OneFrame)
  <2> DEFINE o == conn[c].out
             w == conn[c].wire
  <2>1. o \in Seq(OneFrame) /\ w \in Seq(OneFrame) /\ w # << >> /\ Frames(c) \in Seq(OneFrame)
    BY <1>0, <1>1, FramesTyped
  <2>2. Frames(c)' = Tail(w) \o o /\ Frames(c) = w \o o  BY <1>2 DEF Frames
  <2> HIDE DEF o, w
  <2>3. /\ w \o o # << >> /\ (w \o o)[1] = w[1] /\ Tail(w \o o) = Tail(w) \o o  BY <2>1
  <2> QED  BY <2>1, <2>2, <2>3 DEF w
<1>9. Stream(c)' = Stream(c)
  <2> DEFINE x == call[c].got
             b == BytesOf(Frames(c)[1])
             t == Carried(Tail(Frames(c)))
  <2>1. x \in Seq(Item)  BY <1>0, StreamTyped
  <2>2. b \in Seq(Byte)
    <3>1. Frames(c)[1] \in OneFrame  BY <1>8
    <3> QED  BY <3>1, BytesOfTyped
  <2>3. t \in Seq(Byte)
    <3>1. Tail(Frames(c)) \in Seq(OneFrame)  BY <1>8
    <3> QED  BY <3>1, CarriedTyped
  <2>4. Carried(Frames(c)) = b \o t  BY <1>8, CarriedFirst
  <2>5. Stream(c)' = (x \o b) \o t  BY <1>6, <1>8 DEF Stream
  <2>6. Stream(c) = x \o (b \o t)  BY <2>4 DEF Stream
  <2> HIDE DEF x, b, t
  <2>7. x \in Seq(Item) /\ b \in Seq(Item) /\ t \in Seq(Item)  BY <2>1, <2>2, <2>3, Items
  <2>8. (x \o b) \o t = x \o (b \o t)  BY <2>7, ItemsJoined, SMTT(30)
  <2> QED  BY <2>5, <2>6, <2>8
<1>10. ASSUME conn[c].q.kind # "list", NEW k \in 1 .. Len(Frames(c)')
       PROVE  Frames(c)'[k].t # "head"
  <2>1. Form(Frames(c), call[c].st, conn[c].q.kind, c \in job.of)
    BY <1>0, <1>3, <1>7 DEF Formed
  <2>2. (c \in job.of) \in BOOLEAN  OBVIOUS
  <2>3. Form(Frames(c)', "reading", conn[c].q.kind, c \in job.of)
    <3>1. \/ call[c].st = "waiting" /\ Frames(c)[1].t = "head"
          \/ call[c].st = "reading" /\ Frames(c)[1].t = "chunk"
      BY <1>3, <1>8
    <3>2. Frames(c) # << >> /\ Frames(c)' = Tail(Frames(c))  BY <1>8
    <3>3. Form(Tail(Frames(c)), "reading", conn[c].q.kind, c \in job.of)
      BY <2>1, <2>2, <3>1, <3>2, FormTail, ZenonT(60)
    <3> QED  BY <3>2, <3>3
  <2> QED  BY <1>10, <2>3 DEF Form
<1> QED  BY <1>1, <1>2, <1>3, <1>4, <1>5, <1>6, <1>7, <1>8, <1>9, <1>10

-----------------------------------------------------------------------------
(* Steps that are about another client. *)

\* A step that leaves the reply, the call and the handler of c alone.
Kept(c) ==
  /\ conn'[c] = conn[c] /\ call'[c] = call[c]
  /\ (c \in job'.of) = (c \in job.of) /\ (c \in job.of => job' = job)
  /\ Lasting(c) /\ (exit # "none" => exit' # "none")
  /\ mode' = mode /\ (mode = "plain" => size' \in Nat /\ size <= size')

\* The handlers, case by case.
LEMMA HandleGives ==
  ASSUME Types, NEW c \in Client, Handle(c)
  PROVE  /\ job = NoJob /\ job.of = {} /\ UNCHANGED disk /\ conn[c].st = "asked"
         /\ job'.of \subseteq {c} /\ (exit # "none" => exit' # "none")
         /\ \/ conn' = conn /\ job' = NoJob
            \/ /\ Reply(c, <<Error>>) /\ job' = NoJob
               /\ \/ exit # "none"
                  \/ conn[c].q.kind \in {"wrong", "stop"}
                  \/ conn[c].q.kind = "record" /\ RecordAt(From(c)) = 0
            \/ Reply(c, <<Page>>) /\ job' = NoJob /\ conn[c].q.kind = "stop"
            \/ /\ Reply(c, <<Begun(0), Ended>>) /\ job' = NoJob
               /\ conn[c].q.kind = "file" /\ size = From(c)
            \/ /\ Reply(c, <<Begun(size - From(c))>>)
               /\ conn[c].q.kind = "file" /\ size > From(c)
               /\ job'.of = {c} /\ job'.step = "chunks" /\ job'.at = From(c)
               /\ job'.left = size - From(c)
            \/ /\ RecordAt(From(c)) # 0 /\ Reply(c, <<Begun(recs[RecordAt(From(c))].len)>>)
               /\ conn[c].q.kind = "record"
               /\ job'.of = {c} /\ job'.step = "chunks" /\ job'.at = From(c)
               /\ job'.left = recs[RecordAt(From(c))].len
            \/ /\ Reply(c, << >>) /\ conn[c].q.kind = "list"
               /\ job'.of = {c} /\ job'.step = "list" /\ job'.at = From(c) /\ job'.left = 0
               /\ job'.upto = size /\ job'.list = << >>
            \/ /\ Reply(c, <<Begun(Unknown)>>) /\ conn[c].q.kind = "filter"
               /\ job'.of = {c} /\ job'.step = "filter" /\ job'.at = From(c)
               /\ job'.left = 0 /\ job'.upto = size
<1>0. /\ job = NoJob /\ conn[c].st = "asked" /\ UNCHANGED disk /\ From(c) \in Nat
      /\ size \in Nat
  BY Handled, DiskNumbers DEF Types
<1>1. job.of = {}  BY <1>0 DEF NoJob
<1>2. exit # "none" => exit' # "none"
  BY DEF Handle, HandleLate, HandleWrong, HandleFile, HandleRecord, HandleList, HandleFilter,
     HandleStop, Handling
<1>3. CASE HandleLate(c)
  BY <1>0, <1>1, <1>2, <1>3 DEF HandleLate, Accepts, NoJob
<1>4. CASE HandleWrong(c)
  BY <1>0, <1>1, <1>2, <1>4 DEF HandleWrong, Handling, NoJob
<1>5. CASE HandleStop(c)
  BY <1>0, <1>1, <1>2, <1>5 DEF HandleStop, NoJob
<1>6. CASE HandleFile(c)
  <2> DEFINE n == size - From(c)
  <2>0. n \in Int /\ (n = 0 => size = From(c)) /\ (n > 0 => size > From(c))  BY <1>0
  <2>1. \/ conn' = conn /\ job' = NoJob
        \/ n = 0 /\ Reply(c, <<Begun(0), Ended>>) /\ job' = NoJob
        \/ /\ n > 0 /\ Reply(c, <<Begun(n)>>)
           /\ job' = [NoJob EXCEPT !.of = {c}, !.step = "chunks", !.at = From(c), !.left = n]
    BY <1>0, <1>6 DEF HandleFile
  <2>2. conn[c].q.kind = "file"  BY <1>6 DEF HandleFile, Handling
  <2>3. CASE conn' = conn /\ job' = NoJob  BY <1>0, <1>1, <1>2, <2>3 DEF NoJob
  <2>4. CASE n = 0 /\ Reply(c, <<Begun(0), Ended>>) /\ job' = NoJob
    BY <1>0, <1>1, <1>2, <2>0, <2>2, <2>4 DEF NoJob
  <2>5. CASE /\ n > 0 /\ Reply(c, <<Begun(n)>>)
             /\ job' = [NoJob EXCEPT !.of = {c}, !.step = "chunks", !.at = From(c), !.left = n]
    <3>1. job'.of = {c} /\ job'.step = "chunks" /\ job'.at = From(c) /\ job'.left = n
      BY <2>5 DEF NoJob
    <3> QED  BY <1>0, <1>1, <1>2, <2>0, <2>2, <2>5, <3>1
  <2> QED  BY <2>1, <2>3, <2>4, <2>5
<1>7. CASE HandleRecord(c)
  <2> DEFINE i == RecordAt(From(c))
  <2>1. \/ i = 0 /\ Reply(c, <<Error>>) /\ job' = NoJob
        \/ /\ i # 0 /\ Reply(c, <<Begun(recs[i].len)>>)
           /\ job' = [NoJob EXCEPT !.of = {c}, !.step = "chunks", !.at = From(c),
                                   !.left = recs[i].len]
    BY <1>0, <1>7 DEF HandleRecord
  <2>2. conn[c].q.kind = "record"  BY <1>7 DEF HandleRecord, Handling
  <2>3. CASE i = 0 /\ Reply(c, <<Error>>) /\ job' = NoJob
    BY <1>0, <1>1, <1>2, <2>2, <2>3 DEF NoJob
  <2>4. CASE /\ i # 0 /\ Reply(c, <<Begun(recs[i].len)>>)
             /\ job' = [NoJob EXCEPT !.of = {c}, !.step = "chunks", !.at = From(c),
                                     !.left = recs[i].len]
    <3>1. job'.of = {c} /\ job'.step = "chunks" /\ job'.at = From(c) /\ job'.left = recs[i].len
      BY <2>4 DEF NoJob
    <3> QED  BY <1>0, <1>1, <1>2, <2>2, <2>4, <3>1
  <2> QED  BY <2>1, <2>3, <2>4
<1>8. CASE HandleList(c)
  <2>1. /\ Reply(c, << >>) /\ conn[c].q.kind = "list"
        /\ job' = [NoJob EXCEPT !.of = {c}, !.step = "list", !.at = From(c), !.upto = size]
    BY <1>8 DEF HandleList, Handling
  <2>2. /\ job'.of = {c} /\ job'.step = "list" /\ job'.at = From(c) /\ job'.left = 0
        /\ job'.upto = size /\ job'.list = << >>
    BY <2>1 DEF NoJob
  <2> QED  BY <1>0, <1>1, <1>2, <2>1, <2>2
<1>9. CASE HandleFilter(c)
  <2>1. /\ Reply(c, <<Begun(Unknown)>>) /\ conn[c].q.kind = "filter"
        /\ job' = [NoJob EXCEPT !.of = {c}, !.step = "filter", !.at = From(c), !.upto = size]
    BY <1>9 DEF HandleFilter, Handling
  <2>2. /\ job'.of = {c} /\ job'.step = "filter" /\ job'.at = From(c) /\ job'.left = 0
        /\ job'.upto = size
    BY <2>1 DEF NoJob
  <2> QED  BY <1>0, <1>1, <1>2, <2>1, <2>2
<1> QED  BY <1>3, <1>4, <1>5, <1>6, <1>7, <1>8, <1>9 DEF Handle

\* Of the records that were stored, the writing process changes none.
LEMMA WriterLasts ==
  ASSUME Types, Writer, call' = call, NEW c \in Client
  PROVE  Kept(c)
<1>0. /\ conn' = conn /\ job' = job /\ exit' = exit /\ Chained(recs)
      /\ acked \in 1 .. Len(recs) /\ Len(recs) \in Nat /\ acked \in Nat /\ size \in Nat
      /\ size <= EndOf(recs[Len(recs)])
  BY WriterStep, DiskNumbers DEF Types, Disk
<1>1. mode' = mode  BY DEF Writer, Begin, Grow, Stored, Withdraw, Written
<1>2. acked <= Len(recs') /\ \A i \in 1 .. acked : recs'[i] = recs[i]
  <2>1. CASE Begin
    <3>1. PICK r : recs' = Append(recs, r)  BY <2>1 DEF Begin
    <3>2. Len(recs') = Len(recs) + 1 /\ \A k \in 1 .. Len(recs) : recs'[k] = recs[k]
      BY <1>0, <3>1 DEF Chained
    <3> QED  BY <1>0, <3>2
  <2>2. CASE Grow \/ Stored  BY <1>0, <2>2 DEF Grow, Stored, Written
  <2>3. CASE Withdraw
    <3>1. recs' = SubSeq(recs, 1, acked)  BY <2>3 DEF Withdraw
    <3> QED  BY <1>0, <3>1, ChainedPart
  <2> QED  BY <2>1, <2>2, <2>3 DEF Writer
<1>3. mode = "plain" => size' \in Nat /\ size <= size'
  <2>1. CASE Begin
    <3>1. PICK r \in Coming : \E k \in 1 .. r.len : size' = size + k  BY <2>1 DEF Begin
    <3>2. r.len \in Nat  BY ServerAssumption
    <3> QED  BY <1>0, <3>1, <3>2
  <2>2. CASE Grow
    <3>1. size' \in size + 1 .. EndOf(recs[Len(recs)])  BY <2>2 DEF Grow
    <3> QED  BY <1>0, <3>1
  <2>3. CASE Stored  BY <1>0, <2>3 DEF Stored
  <2>4. CASE Withdraw  BY <2>4 DEF Withdraw
  <2> QED  BY <2>1, <2>2, <2>3, <2>4 DEF Writer
<1> QED  BY <1>0, <1>1, <1>2, <1>3 DEF Kept, Lasting

\* As long as the disk is left alone, so are the records.
LEMMA SameDisk ==
  ASSUME Types, UNCHANGED disk, NEW c \in Client,
         conn'[c].q = conn[c].q, conn'[c].due = conn[c].due
  PROVE  Lasting(c) /\ mode' = mode /\ (mode = "plain" => size' \in Nat /\ size <= size')
<1>1. acked <= Len(recs) /\ size \in Nat  BY DiskNumbers DEF Types, Disk
<1> QED  BY <1>1 DEF Lasting, disk

\* A read fails in the handler of c.
Fault(c) == (ReadFails /\ job.of = {c}) \/ RecordUnread(c)

\* Every step is one of the process that writes, or of the loop, or it is about a
\* single client.
LEMMA StepKinds ==
  ASSUME Types, AllFormed, [Next]_vars
  PROVE  \/ \A d \in Client : Kept(d)
         \/ \E c \in Client :
              /\ \A d \in Client : d # c => Kept(d)
              /\ UNCHANGED disk
              /\ \/ call' = call /\ (Handle(c) \/ Write(c) \/ (Work /\ job.of = {c}) \/ Fault(c))
                 \/ ClientStep(c)
<1>1. ASSUME conn' = conn, call' = call, job' = job, UNCHANGED disk,
             exit # "none" => exit' # "none"
      PROVE  \A d \in Client : Kept(d)
  BY <1>1, SameDisk DEF Kept
<1>2. ASSUME NEW c \in Client, \A d \in Client : d # c => conn'[d] = conn[d] /\ call'[d] = call[d],
             job' = job \/ (job.of \subseteq {c} /\ job'.of \subseteq {c}),
             UNCHANGED disk, exit # "none" => exit' # "none"
      PROVE  \A d \in Client : d # c => Kept(d)
  <2> SUFFICES ASSUME NEW d \in Client, d # c PROVE Kept(d)  OBVIOUS
  <2>1. conn'[d] = conn[d] /\ call'[d] = call[d]  BY <1>2
  <2>2. Lasting(d) /\ mode' = mode /\ (mode = "plain" => size' \in Nat /\ size <= size')
    BY <1>2, <2>1, SameDisk
  <2>3. (d \in job'.of) = (d \in job.of) /\ (d \in job.of => job' = job)
    <3>1. CASE job' = job  BY <3>1
    <3>2. CASE job.of \subseteq {c} /\ job'.of \subseteq {c}
      <4>1. d \notin job.of /\ d \notin job'.of  BY <3>2
      <4> QED  BY <4>1
    <3> QED  BY <1>2, <3>1, <3>2
  <2> QED  BY <1>2, <2>1, <2>2, <2>3 DEF Kept
<1>3. CASE Writer /\ call' = call  BY <1>3, WriterLasts
<1>4. CASE Die /\ call' = call  BY <1>1, <1>4 DEF Die
<1>5. CASE UNCHANGED vars  BY <1>1, <1>5 DEF vars, svars
<1>6. CASE Server /\ call' = call
  <2>1. CASE NewRound \/ Close \/ FilterBeyond
    <3>1. conn' = conn /\ job' = job /\ UNCHANGED disk /\ (exit # "none" => exit' # "none")
      BY <2>1 DEF NewRound, Close, FilterBeyond
    <3> QED  BY <1>1, <1>6, <3>1
  <2>2. ASSUME NEW c \in Client, Handle(c)
        PROVE  (\A d \in Client : d # c => Kept(d)) /\ UNCHANGED disk
    <3>1. /\ job.of = {} /\ job'.of \subseteq {c} /\ (exit # "none" => exit' # "none")
          /\ UNCHANGED disk
      BY <2>2, HandleGives
    <3>2. \A d \in Client : d # c => conn'[d] = conn[d]
      <4>1. conn' = conn \/ \E frames \in Seq(OneFrame) : Reply(c, frames)
        <5>1. /\ <<Error>> \in Seq(OneFrame) /\ <<Page>> \in Seq(OneFrame)
              /\ <<Begun(0), Ended>> \in Seq(OneFrame) /\ <<Begun(Unknown)>> \in Seq(OneFrame)
              /\ << >> \in Seq(OneFrame)
              /\ \A n \in Nat : <<Begun(n)>> \in Seq(OneFrame)
          BY FrameShapes
        <5>2. From(c) \in Nat /\ size \in Nat /\ Disk  BY <2>2, Handled, DiskNumbers DEF Types
        <5>3. size > From(c) => size - From(c) \in Nat  BY <5>2
        <5>4. RecordAt(From(c)) # 0 => recs[RecordAt(From(c))].len \in Nat
          BY <5>2, RecordAtGives
        <5> QED  BY <2>2, <5>1, <5>3, <5>4, HandleGives
      <4>2. CASE conn' = conn  BY <4>2
      <4>3. ASSUME NEW frames \in Seq(OneFrame), Reply(c, frames)
            PROVE  \A d \in Client : d # c => conn'[d] = conn[d]
        BY <4>3, ReplyGives, DiskNumbers DEF Types, ConnTyped
      <4> QED  BY <4>1, <4>2, <4>3
    <3> QED  BY <1>2, <1>6, <3>1, <3>2
  <2>3. ASSUME NEW c \in Client, Write(c)
        PROVE  (\A d \in Client : d # c => Kept(d)) /\ UNCHANGED disk
    BY <1>2, <1>6, <2>3, WriteGives
  <2>4. CASE Work
    <3>1. PICK c \in Client : job.of = {c}  BY <2>4, WorkLeaves
    <3>2. UNCHANGED disk /\ exit' = exit  BY <2>4, WorkLeaves
    <3>3. job'.of \subseteq {c} /\ \A d \in Client : d # c => conn'[d] = conn[d]
      <4>1. NoJob.of = {}  BY DEF NoJob
      <4>2. ASSUME NEW frames, Queue(c, frames) PROVE \A d \in Client : d # c => conn'[d] = conn[d]
        BY <4>2 DEF Queue, Types, ConnTyped
      <4>3. CASE SendChunk  BY <3>1, <4>1, <4>2, <4>3, SendChunkGives
      <4>4. CASE ListNext
        <5>1. \/ conn' = conn /\ job'.of = {c}
              \/ job' = NoJob /\ \E frames : Queue(c, frames)
          BY <3>1, <4>4, ListNextGives
        <5> QED  BY <4>1, <4>2, <5>1
      <4>5. CASE FilterNext
        <5>1. \/ conn' = conn /\ job'.of = {c}
              \/ job' = NoJob /\ \E frames : Queue(c, frames)
          BY <3>1, <4>5, FilterNextGives
        <5> QED  BY <4>1, <4>2, <5>1
      <4> QED  BY <2>4, <4>3, <4>4, <4>5 DEF Work
    <3>4. \A d \in Client : d # c => Kept(d)  BY <1>2, <1>6, <3>1, <3>2, <3>3
    <3> QED  BY <1>6, <2>4, <3>1, <3>2, <3>4
  <2> QED  BY <1>6, <2>1, <2>2, <2>3, <2>4 DEF Server
<1>7. ASSUME NEW c \in Client, ClientStep(c)
      PROVE  (\A d \in Client : d # c => Kept(d)) /\ UNCHANGED disk
  <2>1. UNCHANGED <<disk, exit, job>>  BY <1>7, ClientTypes
  <2>2. \A d \in Client : d # c => conn'[d] = conn[d] /\ call'[d] = call[d]
    <3>0. ConnTyped  BY DEF Types
    <3>1. CASE Ask(c)  BY <3>1, AskGives
    <3>2. CASE ClientReads(c) \/ Timeout(c) \/ AskRefused(c)
      <4>1. \A d \in Client : d # c => call'[d] = call[d]  BY <3>2, CallGives
      <4>2. \A d \in Client : d # c => conn'[d] = conn[d]
        <5>1. CASE Consume(c) /\ conn[c].wire # << >>  BY <3>0, <5>1, ConsumeGives
        <5>2. CASE Leave(c)  BY <3>0, <5>2, LeaveGives
        <5>3. CASE conn' = conn  BY <5>3
        <5> QED  BY <3>2, <5>1, <5>2, <5>3, ReadsGives
      <4> QED  BY <4>1, <4>2
    <3> QED  BY <1>7, <3>1, <3>2 DEF ClientStep
  <2> QED  BY <1>2, <2>1, <2>2
<1>8. CASE DiskFault /\ call' = call
  <2>1. NoJob.of = {}  BY DEF NoJob
  <2>2. CASE ReadFails
    <3>1. PICK c \in Client : job.of = {c} /\ HasQueued(c, TornReply)
      BY <2>2, ReadFailsGives
    <3>2. UNCHANGED disk /\ exit' = exit /\ job' = NoJob  BY <2>2, ReadFailsGives
    <3>3. \A d \in Client : d # c => conn'[d] = conn[d] /\ call'[d] = call[d]
      BY <1>8, <3>1 DEF HasQueued
    <3>4. \A d \in Client : d # c => Kept(d)  BY <1>2, <2>1, <3>1, <3>2, <3>3
    <3> QED  BY <1>8, <2>2, <3>1, <3>2, <3>4 DEF Fault
  <2>3. ASSUME NEW c \in Client, RecordUnread(c)
        PROVE  (\A d \in Client : d # c => Kept(d)) /\ UNCHANGED disk /\ Fault(c)
    <3>1. UNCHANGED disk /\ exit' = exit /\ job' = job /\ HasReplied(c, <<Error>>)
      BY <2>3, RecordUnreadGives
    <3>2. \A d \in Client : d # c => conn'[d] = conn[d] /\ call'[d] = call[d]
      BY <1>8, <3>1 DEF HasReplied
    <3>3. \A d \in Client : d # c => Kept(d)  BY <1>2, <3>1, <3>2
    <3> QED  BY <2>3, <3>1, <3>3 DEF Fault
  <2> QED  BY <1>8, <2>2, <2>3 DEF DiskFault
<1> QED  BY <1>3, <1>4, <1>5, <1>6, <1>7, <1>8, <1>1 DEF Next

-----------------------------------------------------------------------------
(* What each turn of a handler does, and that no reply begins before its call. *)

\* A turn of each handler's loop, case by case.
LEMMA SendChunkIs ==
  ASSUME Types, SendChunk, NEW c \in Client, job.of = {c}
  PROVE  LET n  == Lesser(Chunk, job.left)
             bs == BytesAt(job.at, n)
         IN  /\ n \in Nat /\ n <= job.left /\ (job.left # 0 => n # 0) /\ bs \in Seq(Byte)
             /\ Len(bs) \in Nat
             /\ \/ /\ job.left > n /\ Queue(c, <<Piece(bs)>>)
                   /\ job'.of = {c} /\ job'.step = "chunks" /\ job'.at = job.at + Len(bs)
                   /\ job'.left = job.left - n /\ job'.next = job.next /\ job'.upto = job.upto
                \/ /\ job.left = n /\ Queue(c, <<Piece(bs)>>) /\ conn[c].q.kind = "filter"
                   /\ job'.of = {c} /\ job'.step = "filter" /\ job'.at = job.next
                   /\ job'.left = 0 /\ job'.upto = job.upto
                \/ /\ job.left = n /\ Queue(c, <<Piece(bs), Ended>>)
                   /\ conn[c].q.kind # "filter" /\ job' = NoJob
<1> DEFINE n  == Lesser(Chunk, job.left)
           bs == BytesAt(job.at, n)
           more == [job EXCEPT !.at = @ + Len(bs), !.left = @ - n]
<1>0. /\ job.at \in Nat /\ job.left \in Nat /\ job \in JobType /\ Disk /\ Chunk \in Nat \ {0}
      /\ job.next \in Nat /\ job.upto \in Nat
  BY WorkLeaves, ServerAssumption DEF Types, JobTyped, Work
<1>1. n \in Nat /\ n <= job.left /\ (job.left # 0 => n # 0) /\ job.left - n \in Nat
      /\ (~ (job.left > n) => job.left = n)
  BY <1>0 DEF Lesser
<1>2. bs \in Seq(Byte)  BY <1>0, <1>1, BytesTyped
<1>3. Len(bs) \in Nat  BY <1>2
<1>4. \/ job.left > n /\ Queue(c, <<Piece(bs)>>) /\ job' = more
      \/ /\ job.left = n /\ conn[c].q.kind = "filter" /\ Queue(c, <<Piece(bs)>>)
         /\ job' = [more EXCEPT !.step = "filter", !.at = job.next]
      \/ /\ ~ (job.left > n) /\ conn[c].q.kind # "filter"
         /\ Queue(c, <<Piece(bs), Ended>>) /\ job' = NoJob
  BY <1>1 DEF SendChunk
<1>5. job.step = "chunks"  BY DEF SendChunk, Working
<1>6. /\ more.of = {c} /\ more.step = "chunks" /\ more.at = job.at + Len(bs)
      /\ more.left = job.left - n /\ more.next = job.next /\ more.upto = job.upto
      /\ LET m == [more EXCEPT !.step = "filter", !.at = job.next]
         IN  /\ m.of = {c} /\ m.step = "filter" /\ m.at = job.next /\ m.left = job.left - n
             /\ m.upto = job.upto
  <2> HIDE DEF n, bs
  <2> QED  BY <1>0, <1>5 DEF JobType
<1> HIDE DEF more
<1>7. CASE job.left > n /\ Queue(c, <<Piece(bs)>>) /\ job' = more
  BY <1>1, <1>2, <1>3, <1>6, <1>7
<1>8. CASE /\ job.left = n /\ conn[c].q.kind = "filter" /\ Queue(c, <<Piece(bs)>>)
           /\ job' = [more EXCEPT !.step = "filter", !.at = job.next]
  <2>1. job.left - n = 0  BY <1>1, <1>8
  <2> QED  BY <1>1, <1>2, <1>3, <1>6, <1>8, <2>1
<1>9. CASE /\ ~ (job.left > n) /\ conn[c].q.kind # "filter"
           /\ Queue(c, <<Piece(bs), Ended>>) /\ job' = NoJob
  BY <1>1, <1>2, <1>3, <1>9
<1> QED  BY <1>4, <1>7, <1>8, <1>9

\* A list is no longer than the file has records.
LEMMA ListShort ==
  ASSUME Types, job.step = "list"
  PROVE  job.list \in ShortList /\ Len(job.list) \in Nat
<1>1. PICK j \in 0 .. Len(recs) : Len(job.list) + Len(recs) <= j + born
  BY DEF Types, JobTyped
<1>2. job.list \in Seq(Nat)  BY DEF Types, JobTyped, JobType
<1>3. Len(job.list) \in Nat  BY <1>2
<1>4. /\ Len(recs) \in Nat /\ born \in Nat /\ MaxBorn \in Nat /\ born <= MaxBorn
      /\ j \in Nat /\ j <= Len(recs)
  BY DiskNumbers DEF Types
<1>5. Len(job.list) <= MaxBorn  BY <1>1, <1>3, <1>4
<1> QED  BY <1>2, <1>3, <1>5 DEF ShortList

\* A turn of the loop that makes a list.
LEMMA ListNextIs ==
  ASSUME Types, ListNext, NEW c \in Client, job.of = {c}
  PROVE  LET i     == RecordAt(job.at)
             reply == <<Begun(Len(job.list)), Body(job.list)>>
         IN  \/ job.at = job.upto /\ Queue(c, reply) /\ job' = NoJob
             \/ job.at # job.upto /\ i = 0 /\ Queue(c, <<Error>> \o reply) /\ job' = NoJob
             \/ /\ job.at # job.upto /\ i # 0 /\ conn' = conn
                /\ job'.of = {c} /\ job'.step = "list" /\ job'.at = EndOf(recs[i])
                /\ job'.list = Append(job.list, recs[i].id)
                /\ job'.left = job.left /\ job'.upto = job.upto
<1> DEFINE i     == RecordAt(job.at)
           reply == <<Begun(Len(job.list)), Body(job.list)>>
<1>0. job \in JobType /\ job.step = "list"  BY DEF Types, JobTyped, ListNext, Working
<1>1. \/ job.at = job.upto /\ Queue(c, reply) /\ job' = NoJob
      \/ job.at # job.upto /\ i = 0 /\ Queue(c, <<Error>> \o reply) /\ job' = NoJob
      \/ /\ job.at # job.upto /\ i # 0 /\ conn' = conn
         /\ job' = [job EXCEPT !.at = EndOf(recs[i]), !.list = Append(@, recs[i].id)]
  BY DEF ListNext
<1>2. CASE /\ job.at # job.upto /\ i # 0 /\ conn' = conn
           /\ job' = [job EXCEPT !.at = EndOf(recs[i]), !.list = Append(@, recs[i].id)]
  <2>1. /\ job'.of = {c} /\ job'.step = "list" /\ job'.at = EndOf(recs[i])
        /\ job'.list = Append(job.list, recs[i].id)
        /\ job'.left = job.left /\ job'.upto = job.upto
    <3> HIDE DEF i
    <3> QED  BY <1>0, <1>2 DEF JobType
  <2> QED  BY <1>2, <2>1
<1> QED  BY <1>1, <1>2

\* A turn of the loop that filters.
LEMMA FilterNextIs ==
  ASSUME Types, FilterNext, NEW c \in Client, job.of = {c}
  PROVE  LET i     == RecordAt(job.at)
             after == job.at + recs[i].len
         IN  \/ (job.at = job.upto \/ i = 0) /\ Queue(c, <<Ended>>) /\ job' = NoJob
             \/ /\ job.at # job.upto /\ i # 0 /\ conn' = conn /\ job'.of = {c}
                /\ job'.upto = job.upto
                /\ IF recs[i].hit
                     THEN /\ job'.step = "chunks" /\ job'.at = job.at
                          /\ job'.left = recs[i].len /\ job'.next = after
                     ELSE job'.step = "filter" /\ job'.at = after /\ job'.left = job.left
<1> DEFINE i     == RecordAt(job.at)
           after == job.at + recs[i].len
<1>0. job \in JobType /\ job.step = "filter"  BY DEF Types, JobTyped, FilterNext, Working
<1>1. \/ (job.at = job.upto \/ i = 0) /\ Queue(c, <<Ended>>) /\ job' = NoJob
      \/ /\ job.at # job.upto /\ i # 0 /\ conn' = conn
         /\ job' = IF recs[i].hit
                     THEN [job EXCEPT !.step = "chunks", !.left = recs[i].len, !.next = after]
                     ELSE [job EXCEPT !.at = after]
  BY DEF FilterNext
<1>2. CASE /\ job.at # job.upto /\ i # 0 /\ conn' = conn
           /\ job' = IF recs[i].hit
                       THEN [job EXCEPT !.step = "chunks", !.left = recs[i].len, !.next = after]
                       ELSE [job EXCEPT !.at = after]
  <2>1. /\ job'.of = {c} /\ job'.upto = job.upto
        /\ IF recs[i].hit
             THEN /\ job'.step = "chunks" /\ job'.at = job.at
                  /\ job'.left = recs[i].len /\ job'.next = after
             ELSE job'.step = "filter" /\ job'.at = after /\ job'.left = job.left
    <3> HIDE DEF i, after
    <3>1. CASE recs[i].hit  BY <1>0, <1>2, <3>1 DEF JobType
    <3>2. CASE ~recs[i].hit  BY <1>0, <1>2, <3>2 DEF JobType
    <3> QED  BY <3>1, <3>2
  <2> QED  BY <1>2, <2>1
<1> QED  BY <1>1, <1>2

\* What a client has before its request is handled, and what the handler may count on.
Started(c) ==
  /\ conn[c].st # "handled" => conn[c].out = << >> /\ conn[c].wire = << >> /\ call[c].got = << >>
  /\ conn[c].st = "handled" => conn[c].due # 0
  /\ conn[c].gone => conn[c].wire = << >>
  /\ conn[c].torn => conn[c].st = "handled" /\ c \notin job.of
  /\ c \in job.of =>
       /\ job.step = "filter" => conn[c].q.kind = "filter"
       /\ conn[c].q.kind \in {"filter", "list"} => StoredEnd(c) <= job.upto

\* The replies to all clients.
AllStarted == \A c \in Client : Started(c)

\* A step about another client keeps it,
LEMMA StartedKept ==
  ASSUME Types, Disk', AllFormed, NEW c \in Client, Started(c), Kept(c)
  PROVE  Started(c)'
<1>1. conn'[c] = conn[c] /\ call'[c] = call[c] /\ (c \in job'.of) = (c \in job.of)
      /\ (c \in job.of => job' = job) /\ Lasting(c)
  BY DEF Kept
<1>2. c \in job.of => StoredEnd(c)' = StoredEnd(c)
  <2>1. c \in job.of => conn[c].due # 0  BY DEF AllFormed, Formed, Started
  <2> QED  BY <1>1, <2>1, StaysAsked DEF Types
<1> QED  BY <1>1, <1>2 DEF Started

\* A read that fails ends the reply.
LEMMA FaultGives ==
  ASSUME Types, AllFormed, NEW c \in Client, Started(c), Fault(c), call' = call
  PROVE  /\ UNCHANGED <<disk, exit>> /\ job.of \subseteq {c} /\ job'.of = {}
         /\ conn'[c].q = conn[c].q /\ conn'[c].st = "handled" /\ conn'[c].torn /\ ~conn[c].torn
         /\ conn'[c].gone = conn[c].gone /\ conn'[c].wire = conn[c].wire
         /\ \/ /\ c \in job.of /\ conn[c].st = "handled" /\ conn'[c].due = conn[c].due
               /\ TornReply \in Seq(OneFrame) /\ Frames(c)' = Frames(c) \o TornReply
               /\ conn[c].q.kind # "list" => TornReply = <<Ended>> /\ Stream(c)' = Stream(c)
            \/ /\ job.of = {} /\ conn[c].st = "asked" /\ conn'[c].due = acked
               /\ conn[c].q.kind = "record" /\ Frames(c)' = <<Error>> /\ Stream(c)' = << >>
<1>0. ConnTyped /\ CallTyped /\ Formed(c)  BY DEF Types, AllFormed
<1>1. CASE ReadFails /\ job.of = {c}
  <2>1. /\ UNCHANGED <<disk, exit>> /\ job' = NoJob /\ TornReply \in Seq(OneFrame)
        /\ HasQueued(c, TornReply) /\ conn'[c].torn
    <3>1. \A d \in Client : job.of = {d} => d = c  BY <1>1
    <3> QED  BY <1>1, <3>1, ReadFailsGives
  <2>2. /\ conn'[c].q = conn[c].q /\ conn'[c].st = conn[c].st /\ conn'[c].due = conn[c].due
        /\ conn'[c].gone = conn[c].gone /\ conn'[c].wire = conn[c].wire
        /\ Frames(c)' = Frames(c) \o TornReply
        /\ Stream(c)' = Stream(c) \o Carried(TornReply)
    BY <2>1, QueuedHas
  <2>3. /\ c \in job.of /\ conn[c].st = "handled" /\ ~conn[c].torn
        /\ (job.step = "list") = (conn[c].q.kind = "list")
    BY <1>0, <1>1 DEF Formed, Started
  <2>4. ASSUME conn[c].q.kind # "list" PROVE TornReply = <<Ended>> /\ Stream(c)' = Stream(c)
    <3>1. TornReply = <<Ended>>  BY <2>3, <2>4 DEF TornReply
    <3>2. Carried(<<Ended>>) = << >>  BY CarriedOne, FrameShapes DEF BytesOf, Ended
    <3>3. Stream(c) \in Seq(Item)  BY <1>0, StreamTyped
    <3>4. Stream(c) \o << >> = Stream(c)  BY <3>3, ConcatEmptySeq
    <3> QED  BY <2>2, <3>1, <3>2, <3>4
  <2>5. NoJob.of = {}  BY DEF NoJob
  <2> QED  BY <1>1, <2>1, <2>2, <2>3, <2>4, <2>5
<1>2. CASE RecordUnread(c)
  <2>1. /\ job = NoJob /\ conn[c].st = "asked" /\ UNCHANGED <<disk, exit, job>>
        /\ conn[c].q.kind = "record" /\ <<Error>> \in Seq(OneFrame)
        /\ HasReplied(c, <<Error>>) /\ conn'[c].torn
    BY <1>2, RecordUnreadGives
  <2>2. /\ conn[c].out = << >> /\ conn[c].wire = << >> /\ call[c].got = << >> /\ ~conn[c].torn
    BY <2>1 DEF Started
  <2>3. /\ conn'[c].q = conn[c].q /\ conn'[c].st = "handled" /\ conn'[c].due = acked
        /\ conn'[c].gone = conn[c].gone /\ conn'[c].wire = << >>
        /\ Frames(c)' = <<Error>> /\ Stream(c)' = Carried(<<Error>>)
    BY <2>1, <2>2, RepliedHas
  <2>4. Carried(<<Error>>) = << >>  BY CarriedOne, FrameShapes DEF BytesOf, Error
  <2>5. NoJob.of = {}  BY DEF NoJob
  <2> QED  BY <2>1, <2>2, <2>3, <2>4, <2>5
<1> QED  BY <1>1, <1>2 DEF Fault

\* and every step does.
LEMMA StartedStep ==
  ASSUME Types, Types', AllFormed, AllStarted, [Next]_vars
  PROVE  AllStarted'
<1>0. Disk /\ Disk' /\ acked \in Nat \ {0} /\ ConnTyped /\ CallTyped  BY DiskNumbers DEF Types
<1>1. ASSUME NEW d \in Client, Kept(d) PROVE Started(d)'
  BY <1>0, <1>1, StartedKept DEF AllStarted
<1>2. CASE \A d \in Client : Kept(d)  BY <1>1, <1>2 DEF AllStarted
<1>3. ASSUME NEW c \in Client, \A d \in Client : d # c => Kept(d), UNCHANGED disk,
             \/ call' = call /\ (Handle(c) \/ Write(c) \/ (Work /\ job.of = {c}) \/ Fault(c))
             \/ ClientStep(c)
      PROVE  AllStarted'
  <2> SUFFICES Started(c)'  BY <1>1, <1>3 DEF AllStarted
  <2>0. Started(c) /\ Formed(c) /\ conn[c] \in ConnType /\ call[c] \in CallType
        /\ call \in [Client -> CallType]
    BY <1>0 DEF AllStarted, AllFormed, ConnTyped, CallTyped
  <2>1. CASE call' = call /\ Handle(c)
    <3>1. conn[c].st = "asked" /\ job.of = {} /\ NoJob.of = {}  BY <2>1, HandleGives DEF NoJob
    <3>2. conn[c].out = << >> /\ conn[c].wire = << >> /\ call[c].got = << >>
      BY <2>0, <3>1 DEF Started
    <3>3. ASSUME NEW frames \in Seq(OneFrame), Reply(c, frames),
                 c \in job'.of =>
                   /\ job'.step = "filter" => conn[c].q.kind = "filter"
                   /\ conn[c].q.kind \in {"filter", "list"} => job'.upto = size
          PROVE  Started(c)'
      <4>1. /\ conn'[c].st = "handled" /\ conn'[c].due = acked /\ conn'[c].wire = << >>
            /\ conn'[c].q = conn[c].q /\ conn'[c].torn = conn[c].torn
        BY <2>1, <3>2, <3>3, Replied
      <4>2. StoredEnd(c)' = EndOf(recs[acked])  BY <1>3, <4>1 DEF StoredEnd, disk
      <4>3. EndOf(recs[acked]) <= size  BY <1>0, DiskNumbers
      <4>4. ~conn[c].torn  BY <2>0, <3>1 DEF Started
      <4> QED  BY <1>0, <3>3, <4>1, <4>2, <4>3, <4>4 DEF Started
    <3>4. CASE conn' = conn /\ job' = NoJob  BY <2>0, <2>1, <3>1, <3>4 DEF Started
    <3>5. /\ <<Error>> \in Seq(OneFrame) /\ <<Page>> \in Seq(OneFrame)
          /\ <<Begun(0), Ended>> \in Seq(OneFrame) /\ <<Begun(Unknown)>> \in Seq(OneFrame)
          /\ << >> \in Seq(OneFrame)
          /\ \A n \in Nat : <<Begun(n)>> \in Seq(OneFrame)
      BY FrameShapes
    <3>6. From(c) \in Nat /\ size \in Nat  BY <1>0, <2>1, Handled, DiskNumbers
    <3>7. size > From(c) => size - From(c) \in Nat  BY <3>6
    <3>8. RecordAt(From(c)) # 0 => recs[RecordAt(From(c))].len \in Nat
      BY <1>0, <3>6, RecordAtGives
    <3>9. \/ conn' = conn /\ job' = NoJob
          \/ \E frames \in Seq(OneFrame) :
               /\ Reply(c, frames)
               /\ c \in job'.of =>
                    /\ job'.step = "filter" => conn[c].q.kind = "filter"
                    /\ conn[c].q.kind \in {"filter", "list"} => job'.upto = size
      BY <2>1, <3>1, <3>5, <3>7, <3>8, HandleGives
    <3> QED  BY <3>3, <3>4, <3>9
  <2>2. CASE call' = call /\ Write(c)
    <3>1. /\ conn'[c].q = conn[c].q /\ conn'[c].st = conn[c].st /\ conn'[c].due = conn[c].due
          /\ conn'[c].gone = conn[c].gone /\ job' = job /\ job.of = {}
          /\ conn'[c].torn = conn[c].torn
          /\ (conn[c].gone => conn'[c].wire = conn[c].wire)
      BY <2>2, Delivered
    <3>2. conn[c].out # << >>  BY <2>2 DEF Write
    <3> QED  BY <2>0, <3>1, <3>2 DEF Started
  <2>3. CASE call' = call /\ Work /\ job.of = {c}
    <3>1. c \in job.of /\ conn[c].st = "handled"
          /\ (conn[c].q.kind = "list") = (job.step = "list") /\ NoJob.of = {}
      BY <2>0, <2>3 DEF Formed, NoJob
    <3>2. ASSUME conn'[c].q = conn[c].q, conn'[c].st = conn[c].st, conn'[c].due = conn[c].due,
                 conn'[c].gone = conn[c].gone, conn'[c].wire = conn[c].wire,
                 conn'[c].torn = conn[c].torn,
                 c \in job'.of => /\ job'.step = "filter" => conn[c].q.kind = "filter"
                                  /\ job'.upto = job.upto
          PROVE  Started(c)'
      <4>1. StoredEnd(c)' = StoredEnd(c)  BY <1>3, <3>2 DEF StoredEnd, disk
      <4> QED  BY <2>0, <3>1, <3>2, <4>1 DEF Started
    <3>3. \A frames : Queue(c, frames) =>
            /\ conn'[c].q = conn[c].q /\ conn'[c].st = conn[c].st /\ conn'[c].due = conn[c].due
            /\ conn'[c].gone = conn[c].gone /\ conn'[c].wire = conn[c].wire
            /\ conn'[c].torn = conn[c].torn
      BY <1>0, <2>0 DEF Queue, ConnTyped, ConnType
    <3>4. CASE SendChunk
      <4>1. /\ \E frames : Queue(c, frames)
            /\ \/ job'.step = "chunks" /\ job'.upto = job.upto
               \/ conn[c].q.kind = "filter" /\ job'.upto = job.upto
               \/ job' = NoJob
        BY <2>3, <3>4, SendChunkIs
      <4> QED  BY <3>1, <3>2, <3>3, <4>1
    <3>5. CASE ListNext
      <4>1. /\ conn' = conn \/ \E frames : Queue(c, frames)
            /\ job' = NoJob \/ (job'.step = "list" /\ job'.upto = job.upto)
        BY <2>3, <3>5, ListNextIs
      <4> QED  BY <3>1, <3>2, <3>3, <4>1
    <3>6. CASE FilterNext
      <4>1. /\ conn' = conn \/ \E frames : Queue(c, frames)
            /\ job' = NoJob \/ job'.upto = job.upto
        BY <2>3, <3>6, FilterNextIs
      <4>2. conn[c].q.kind = "filter"  BY <2>0, <3>1, <3>6 DEF Started, FilterNext, Working
      <4> QED  BY <3>1, <3>2, <3>3, <4>1, <4>2
    <3> QED  BY <2>3, <3>4, <3>5, <3>6 DEF Work
  <2>4. CASE Ask(c)
    <3>1. /\ conn'[c].st = "asked" /\ conn'[c].out = conn[c].out /\ conn'[c].wire = conn[c].wire
          /\ call[c] = NoCall /\ call'[c].got = call[c].got /\ conn'[c].torn = conn[c].torn
      BY <2>4, AskGives
    <3>2. call[c].st = "idle" /\ call[c].got = << >>  BY <3>1 DEF NoCall
    <3>3. conn[c].st = "none"  BY <2>0, <3>2 DEF Formed
    <3>4. c \notin job.of /\ job' = job  BY <2>0, <2>4, <3>3 DEF Formed, Ask, Elsewhere
    <3> QED  BY <2>0, <3>1, <3>2, <3>3, <3>4 DEF Formed, Started
  <2>5. CASE ClientReads(c) \/ Timeout(c) \/ AskRefused(c)
    <3>1. job' = job  BY <2>5, ReadsGives
    <3>2. /\ conn'[c].q = conn[c].q /\ conn'[c].st = conn[c].st /\ conn'[c].out = conn[c].out
          /\ conn'[c].due = conn[c].due /\ conn'[c].torn = conn[c].torn
          /\ \/ conn'[c].wire = << >>
             \/ conn'[c].wire = conn[c].wire /\ conn'[c].gone = conn[c].gone
             \/ conn[c].wire # << >> /\ conn'[c].gone = conn[c].gone
      <4>1. CASE Consume(c) /\ conn[c].wire # << >>  BY <1>0, <4>1, ConsumeGives
      <4>2. CASE Leave(c)  BY <1>0, <4>2, LeaveGives
      <4>3. CASE conn' = conn  BY <4>3
      <4> QED  BY <2>5, <4>1, <4>2, <4>3, ReadsGives
    <3>3. StoredEnd(c)' = StoredEnd(c)  BY <1>3, <3>2 DEF StoredEnd, disk
    <3>4. conn[c].wire = << >> => call'[c].got = call[c].got
      <4>1. ASSUME conn[c].wire = << >> PROVE call'[c].got = call[c].got
        <5>1. Dropped(c) \/ Timeout(c) \/ AskRefused(c)
          BY <2>5, <4>1 DEF ClientReads, ReadHead, ReadError, ReadPage, ReadChunk, ReadLast,
             ReadBody, Reading
        <5> QED  BY <2>0, <5>1 DEF Dropped, Timeout, AskRefused, Return, CallType
      <4> QED  BY <4>1
    <3> QED  BY <2>0, <3>1, <3>2, <3>3, <3>4 DEF Started
  <2>6. CASE call' = call /\ Fault(c)
    <3>1. /\ conn'[c].st = "handled" /\ c \notin job'.of /\ conn'[c].gone = conn[c].gone
          /\ conn'[c].wire = conn[c].wire
          /\ \/ conn[c].st = "handled" /\ conn'[c].due = conn[c].due
             \/ conn'[c].due = acked
      BY <2>0, <2>6, FaultGives
    <3> QED  BY <1>0, <2>0, <3>1 DEF Started
  <2> QED  BY <1>3, <2>1, <2>2, <2>3, <2>4, <2>5, <2>6 DEF ClientStep
<1> QED  BY <1>2, <1>3, StepKinds

-----------------------------------------------------------------------------
(* The length that a head announces. *)

\* What was sent under a head that announced its length, and what the handler still has
\* to send, is no more than that; for an uncompressed file, which is never cut, it is all.
ToCome(c) == IF c \in job.of THEN job.left ELSE 0
\* A reply whose head announces a length.
Headed(F) == F # << >> /\ F[1].t = "head" /\ F[1].length # Unknown

\* For client c,
Announced(c) ==
  Headed(Frames(c)) /\ conn[c].q.kind # "list" =>
    /\ conn[c].q.kind \in {"file", "record"}
    /\ Len(Stream(c)) + ToCome(c) <= Frames(c)[1].length
    /\ mode = "plain" /\ conn[c].q.kind = "file" /\ ~conn[c].torn =>
         /\ Len(Stream(c)) + ToCome(c) = Frames(c)[1].length
         /\ c \in job.of => job.at + job.left <= size

\* and for all of them.
AllAnnounced == \A c \in Client : Announced(c)

\* A step about another client keeps it,
LEMMA AnnouncedKept ==
  ASSUME Types, Types', NEW c \in Client, Announced(c), Kept(c)
  PROVE  Announced(c)'
<1>1. conn'[c] = conn[c] /\ call'[c] = call[c] /\ (c \in job'.of) = (c \in job.of)
      /\ (c \in job.of => job' = job) /\ mode' = mode
      /\ (mode = "plain" => size' \in Nat /\ size <= size')
  BY DEF Kept
<1>2. Frames(c)' = Frames(c)  BY <1>1 DEF Frames
<1>3. Stream(c)' = Stream(c)  BY <1>1, <1>2 DEF Stream
<1>4. ToCome(c)' = ToCome(c)  BY <1>1 DEF ToCome
<1>5. size \in Nat /\ job.at \in Nat /\ job.left \in Nat
  <2>1. job \in JobType  BY DEF Types, JobTyped
  <2> QED  BY <2>1, DiskNumbers DEF Types, JobType
<1>6. c \in job.of /\ mode = "plain" /\ job.at + job.left <= size
        => job'.at + job'.left <= size'
  BY <1>1, <1>5
<1> QED  BY <1>1, <1>2, <1>3, <1>4, <1>6 DEF Announced

\* Frames that have no head leave the one that was first.
LEMMA HeadedMore ==
  ASSUME NEW F \in Seq(OneFrame), NEW G \in Seq(OneFrame), G # << >>, ~ Headed(G)
  PROVE  Headed(F \o G) => Headed(F) /\ (F \o G)[1] = F[1]
<1>1. CASE F = << >>
  <2>1. << >> \o G = G  OBVIOUS
  <2> QED  BY <1>1, <2>1
<1>2. CASE F # << >>
  <2>1. Len(F) \in Nat /\ Len(F) # 0 /\ Len(G) \in Nat  BY <1>2
  <2>2. 1 \in 1 .. Len(F)  BY <2>1
  <2>3. (F \o G)[1] = F[1]  BY <2>1, <2>2
  <2> QED  BY <1>2, <2>3 DEF Headed
<1> QED  BY <1>1, <1>2

\* A reply begins.
LEMMA AnnouncedReply ==
  ASSUME Types, Types', NEW c \in Client, Handle(c), call' = call,
         conn[c].out = << >>, conn[c].wire = << >>, call[c].got = << >>
  PROVE  Announced(c)'
<1>0. /\ Disk /\ From(c) \in Nat /\ size \in Nat /\ UNCHANGED disk
      /\ RecordAt(From(c)) # 0 => recs[RecordAt(From(c))].len \in Nat
  BY Handled, DiskNumbers, RecordAtGives DEF Types
<1>1. ASSUME NEW frames \in Seq(OneFrame), Reply(c, frames),
             Headed(frames) /\ conn[c].q.kind # "list" =>
               /\ conn[c].q.kind \in {"file", "record"} /\ Len(Carried(frames)) = 0
               /\ ToCome(c)' \in Nat /\ ToCome(c)' = frames[1].length
               /\ conn[c].q.kind = "file" /\ c \in job'.of => job'.at + job'.left <= size
      PROVE  Announced(c)'
  <2>1. conn'[c].q = conn[c].q /\ Frames(c)' = frames /\ Stream(c)' = Carried(frames)
    BY <1>1, Replied
  <2>2. size' = size /\ mode' = mode  BY <1>0 DEF disk
  <2> QED  BY <1>1, <2>1, <2>2 DEF Announced
<1>2. ASSUME NEW f \in OneFrame PROVE <<f>> \in Seq(OneFrame) /\ <<f>>[1] = f
  OBVIOUS
<1>3. ASSUME NEW n \in Nat \cup {Unknown}
      PROVE  /\ Begun(n) \in OneFrame /\ Begun(n).t = "head" /\ Begun(n).length = n
             /\ BytesOf(Begun(n)) = << >> /\ Len(Carried(<<Begun(n)>>)) = 0
  <2>1. /\ Begun(n) \in OneFrame /\ Begun(n).t = "head" /\ Begun(n).length = n
        /\ BytesOf(Begun(n)) = << >>
    BY FrameShapes DEF Begun, BytesOf
  <2>2. Carried(<<Begun(n)>>) = << >>  BY <2>1, CarriedOne
  <2> QED  BY <2>1, <2>2
<1>4. CASE conn' = conn
  <2>1. Frames(c)' = << >> \o << >>  BY <1>4 DEF Frames
  <2> QED  BY <2>1 DEF Announced, Headed
<1>5. CASE Reply(c, <<Error>>) \/ Reply(c, <<Page>>)
  <2>1. ASSUME NEW f \in OneFrame, f.t # "head", Reply(c, <<f>>) PROVE Announced(c)'
    <3>1. ~ Headed(<<f>>)  BY <1>2, <2>1 DEF Headed
    <3> QED  BY <1>1, <1>2, <2>1, <3>1
  <2>2. Error.t # "head" /\ Page.t # "head"  BY DEF Error, Page
  <2> QED  BY <1>5, <2>1, <2>2, FrameShapes
<1>6. CASE Reply(c, <<Begun(0), Ended>>) /\ job' = NoJob /\ conn[c].q.kind = "file"
  <2>1. Ended \in OneFrame /\ BytesOf(Ended) = << >>  BY FrameShapes DEF Ended, BytesOf
  <2>2. Begun(0) \in OneFrame /\ Begun(0).length = 0 /\ BytesOf(Begun(0)) = << >>  BY <1>3
  <2>3. /\ <<Begun(0), Ended>> \in Seq(OneFrame) /\ <<Begun(0), Ended>>[1] = Begun(0)
    BY <2>1, <2>2
  <2>4. Len(Carried(<<Begun(0), Ended>>)) = 0
    <3>1. Carried(<<Begun(0), Ended>>) = << >> \o << >>  BY <2>1, <2>2, CarriedTwo
    <3> QED  BY <3>1
  <2>5. ToCome(c)' = 0 /\ c \notin job'.of  BY <1>6 DEF ToCome, NoJob
  <2>6. ToCome(c)' \in Nat /\ ToCome(c)' = <<Begun(0), Ended>>[1].length  BY <2>2, <2>3, <2>5
  <2> QED  BY <1>1, <1>6, <2>3, <2>4, <2>5, <2>6
<1>7. ASSUME NEW n \in Nat, Reply(c, <<Begun(n)>>), conn[c].q.kind \in {"file", "record"},
             job'.of = {c}, job'.left = n, job'.at = From(c),
             conn[c].q.kind = "file" => From(c) + n <= size
      PROVE  Announced(c)'
  <2>1. ToCome(c)' = n  BY <1>7 DEF ToCome
  <2>2. <<Begun(n)>> \in Seq(OneFrame) /\ <<Begun(n)>>[1].length = n
        /\ Len(Carried(<<Begun(n)>>)) = 0
    BY <1>2, <1>3
  <2> QED  BY <1>1, <1>7, <2>1, <2>2
<1>8. CASE Reply(c, << >>)
  <2>1. << >> \in Seq(OneFrame) /\ ~ Headed(<< >>)  BY DEF Headed
  <2> QED  BY <1>1, <1>8, <2>1
<1>9. CASE Reply(c, <<Begun(Unknown)>>)
  <2>1. <<Begun(Unknown)>> \in Seq(OneFrame) /\ ~ Headed(<<Begun(Unknown)>>)
    BY <1>2, <1>3 DEF Headed
  <2> QED  BY <1>1, <1>9, <2>1
<1>10. size > From(c) => size - From(c) \in Nat /\ From(c) + (size - From(c)) <= size  BY <1>0
<1> QED  BY <1>0, <1>4, <1>5, <1>6, <1>7, <1>8, <1>9, <1>10, HandleGives

\* A turn of a handler's loop.
LEMMA AnnouncedWork ==
  ASSUME Types, Types', AllFormed, NEW c \in Client, Announced(c), Started(c),
         Work, job.of = {c}, call' = call
  PROVE  Announced(c)'
<1>0. /\ Disk /\ ConnTyped /\ CallTyped /\ UNCHANGED disk /\ Formed(c) /\ c \in job.of
      /\ job.at \in Nat /\ job.left \in Nat /\ size \in Nat
      /\ Frames(c) \in Seq(OneFrame) /\ Stream(c) \in Seq(Item) /\ Len(Stream(c)) \in Nat
  BY WorkLeaves, DiskNumbers, StreamTyped DEF Types, AllFormed
<1>1. mode' = mode /\ size' = size  BY <1>0 DEF disk
<1>2. ToCome(c) = job.left /\ ~conn[c].torn  BY <1>0 DEF ToCome, Started
<1>3. ASSUME NEW frames \in Seq(OneFrame), Queue(c, frames), frames # << >>,
             ~ Headed(frames)
      PROVE  /\ conn'[c].q = conn[c].q /\ conn'[c].torn = conn[c].torn
             /\ Headed(Frames(c)') => Headed(Frames(c)) /\ Frames(c)'[1] = Frames(c)[1]
             /\ Len(Stream(c)') = Len(Stream(c)) + Len(Carried(frames))
             /\ Len(Carried(frames)) \in Nat
  <2>1. conn'[c].q = conn[c].q /\ conn'[c].torn = conn[c].torn
        /\ Frames(c)' = Frames(c) \o frames
        /\ Stream(c)' = Stream(c) \o Carried(frames)
    BY <1>3, Queued
  <2>2. Headed(Frames(c)') => Headed(Frames(c)) /\ Frames(c)'[1] = Frames(c)[1]
    BY <1>0, <1>3, <2>1, HeadedMore
  <2>3. Carried(frames) \in Seq(Item)  BY CarriedTyped, Items
  <2>4. Len(Stream(c)') = Len(Stream(c)) + Len(Carried(frames))  BY <1>0, <2>1, <2>3
  <2>5. Len(Carried(frames)) \in Nat  BY <2>3
  <2> QED  BY <2>1, <2>2, <2>4, <2>5
<1>4. CASE SendChunk
  <2> DEFINE n  == Lesser(Chunk, job.left)
             bs == BytesAt(job.at, n)
             x  == Piece(bs)
  <2>1. /\ n \in Nat /\ n <= job.left /\ bs \in Seq(Byte) /\ Len(bs) \in Nat
        /\ \/ /\ job.left > n /\ Queue(c, <<x>>)
              /\ job'.of = {c} /\ job'.at = job.at + Len(bs) /\ job'.left = job.left - n
           \/ /\ job.left = n /\ Queue(c, <<x>>) /\ conn[c].q.kind = "filter"
           \/ /\ job.left = n /\ Queue(c, <<x, Ended>>) /\ job' = NoJob
    BY <1>0, <1>4, SendChunkIs
  <2>2. Len(bs) <= n /\ (job.at + job.left <= size => Len(bs) = n)
    <3> DEFINE m == IF job.at >= size THEN 0 ELSE Lesser(n, size - job.at)
    <3>1. Len(bs) = m  BY <1>0, <2>1, BytesAtGives
    <3>2. m <= n /\ (job.at + job.left <= size => m = n)  BY <1>0, <2>1, SMTT(30) DEF Lesser
    <3> QED  BY <3>1, <3>2
  <2>3. /\ x \in OneFrame /\ x.t = "chunk" /\ BytesOf(x) = bs
        /\ Ended \in OneFrame /\ BytesOf(Ended) = << >>
    BY <2>1, FrameShapes DEF Piece, Ended, BytesOf
  <2> HIDE DEF n, bs, x
  <2>4. /\ <<x>> \in Seq(OneFrame) /\ <<x, Ended>> \in Seq(OneFrame)
        /\ <<x>>[1] = x /\ <<x, Ended>>[1] = x /\ <<x>> # << >> /\ <<x, Ended>> # << >>
    BY <2>3
  <2>5. ~ Headed(<<x>>) /\ ~ Headed(<<x, Ended>>)  BY <2>3, <2>4 DEF Headed
  <2>6. Carried(<<x>>) = bs /\ Carried(<<x, Ended>>) = bs
    <3>1. Carried(<<x>>) = bs  BY <2>3, CarriedOne
    <3>2. Carried(<<x, Ended>>) = bs \o << >>  BY <2>3, CarriedTwo
    <3>3. bs \o << >> = bs  BY <2>1, ConcatEmptySeq
    <3> QED  BY <3>1, <3>2, <3>3
  <2>7. /\ conn'[c].q = conn[c].q
        /\ Headed(Frames(c)') => Headed(Frames(c)) /\ Frames(c)'[1] = Frames(c)[1]
        /\ Len(Stream(c)') = Len(Stream(c)) + Len(bs)
    <3>1. CASE Queue(c, <<x>>)  BY <1>3, <2>4, <2>5, <2>6, <3>1
    <3>2. CASE Queue(c, <<x, Ended>>)  BY <1>3, <2>4, <2>5, <2>6, <3>2
    <3> QED  BY <2>1, <3>1, <3>2
  <2>8. SUFFICES ASSUME Headed(Frames(c)'), conn[c].q.kind # "list" PROVE Announced(c)'
    BY <2>7 DEF Announced
  <2>9. /\ conn[c].q.kind \in {"file", "record"}
        /\ Len(Stream(c)) + job.left <= Frames(c)[1].length
        /\ mode = "plain" /\ conn[c].q.kind = "file" =>
             /\ Len(Stream(c)) + job.left = Frames(c)[1].length
             /\ job.at + job.left <= size
    BY <1>0, <1>2, <2>7, <2>8 DEF Announced
  <2>11. Frames(c)[1].length \in Nat
    <3>1. Frames(c) # << >> /\ Frames(c)[1].t = "head" /\ Frames(c)[1].length # Unknown
      BY <2>7, <2>8 DEF Headed
    <3>2. Frames(c)[1] \in OneFrame  BY <1>0, <3>1
    <3> QED  BY <3>1, <3>2, FrameFields
  <2>13. PICK a \in Nat, l \in Nat, p \in Nat, z \in Nat, y \in Nat, m \in Nat, h \in Nat :
           /\ a = Len(Stream(c)) /\ l = job.left /\ p = job.at /\ z = size
           /\ y = Frames(c)[1].length /\ m = Len(bs) /\ h = n
    BY <1>0, <2>1, <2>11
  <2>14. Len(Stream(c)') = a + m /\ m <= h /\ h <= l /\ (p + l <= z => m = h) /\ a + l <= y
         /\ (mode = "plain" /\ conn[c].q.kind = "file" => a + l = y /\ p + l <= z)
    BY <2>1, <2>2, <2>7, <2>9, <2>13
  <2>10. CASE /\ job'.of = {c} /\ job'.at = job.at + Len(bs) /\ job'.left = job.left - n
    <3>1. ToCome(c)' = job.left - n /\ c \in job'.of  BY <2>10 DEF ToCome
    <3>4. a + m + (l - h) <= y
          /\ (p + l <= z /\ a + l = y => a + m + (l - h) = y /\ (p + m) + (l - h) <= z)
      BY <2>14
    <3>2. Len(Stream(c)') + (job.left - n) <= Frames(c)[1].length  BY <2>13, <2>14, <3>4
    <3>3. mode = "plain" /\ conn[c].q.kind = "file" =>
            /\ Len(Stream(c)') + (job.left - n) = Frames(c)[1].length
            /\ (job.at + Len(bs)) + (job.left - n) <= size
      BY <2>13, <2>14, <3>4
    <3> QED  BY <1>1, <2>7, <2>8, <2>9, <2>10, <3>1, <3>2, <3>3 DEF Announced
  <2>12. CASE job.left = n /\ job' = NoJob
    <3>1. ToCome(c)' = 0 /\ c \notin job'.of  BY <2>12 DEF ToCome, NoJob
    <3>4. a + m + 0 <= y /\ (p + l <= z /\ a + l = y => a + m + 0 = y)
      <4>1. l = h  BY <2>12, <2>13
      <4>2. m <= l /\ (p + l <= z => m = l) /\ a + l <= y  BY <2>14, <4>1
      <4> QED  BY <4>2
    <3>2. Len(Stream(c)') + 0 <= Frames(c)[1].length  BY <2>13, <2>14, <3>4
    <3>3. mode = "plain" /\ conn[c].q.kind = "file" =>
            Len(Stream(c)') + 0 = Frames(c)[1].length
      BY <2>13, <2>14, <3>4
    <3> QED  BY <1>1, <2>7, <2>8, <2>9, <3>1, <3>2, <3>3 DEF Announced
  <2> QED  BY <2>1, <2>9, <2>10, <2>12
<1>5. CASE ListNext
  <2>1. conn[c].q.kind = "list"  BY <1>0, <1>5 DEF Formed, ListNext, Working
  <2>2. conn'[c].q = conn[c].q
    <3>1. conn' = conn \/ \E frames : Queue(c, frames)  BY <1>5, ListNextIs
    <3>2. \A frames : Queue(c, frames) => conn'[c].q = conn[c].q
      BY <1>0 DEF Queue, ConnTyped, ConnType
    <3> QED  BY <3>1, <3>2
  <2> QED  BY <2>1, <2>2 DEF Announced
<1>6. CASE FilterNext
  <2>1. conn[c].q.kind = "filter"  BY <1>0, <1>6 DEF Started, FilterNext, Working
  <2>2. ~ Headed(Frames(c))  BY <2>1 DEF Announced
  <2>3. conn' = conn \/ Queue(c, <<Ended>>)  BY <1>6, FilterNextIs
  <2>4. ~ Headed(Frames(c)')
    <3>1. CASE conn' = conn
      <4>1. Frames(c)' = Frames(c)  BY <3>1 DEF Frames
      <4> QED  BY <2>2, <4>1
    <3>2. CASE Queue(c, <<Ended>>)
      <4>1. Ended \in OneFrame /\ Ended.t # "head"  BY FrameShapes DEF Ended
      <4>2. <<Ended>> \in Seq(OneFrame) /\ <<Ended>>[1] = Ended /\ <<Ended>> # << >>  BY <4>1
      <4>3. ~ Headed(<<Ended>>)  BY <4>1, <4>2 DEF Headed
      <4> QED  BY <1>3, <2>2, <3>2, <4>2, <4>3
    <3> QED  BY <2>3, <3>1, <3>2
  <2> QED  BY <2>4 DEF Announced
<1> QED  BY <1>4, <1>5, <1>6 DEF Work

\* What its client does.
LEMMA AnnouncedClient ==
  ASSUME Types, Types', AllFormed, NEW c \in Client, Announced(c), Started(c), ClientStep(c)
  PROVE  Announced(c)'
<1>0. /\ ConnTyped /\ CallTyped /\ Formed(c) /\ UNCHANGED <<disk, exit, job>>
      /\ call \in [Client -> CallType] /\ conn[c] \in ConnType /\ call[c] \in CallType
  BY ClientTypes DEF Types, AllFormed, CallTyped, ConnTyped
<1>1. CASE Ask(c) \/ AskRefused(c)
  <2>1. call[c].st = "idle"  BY <1>1 DEF Ask, AskRefused, NoCall
  <2>2. conn[c].out = << >> /\ conn[c].wire = << >>  BY <1>0, <2>1 DEF Formed
  <2>3. conn'[c].out = << >> /\ conn'[c].wire = << >>
    <3>1. CASE Ask(c)  BY <2>2, <3>1, AskGives
    <3>2. CASE AskRefused(c)  BY <2>2, <3>2 DEF AskRefused
    <3> QED  BY <1>1, <3>1, <3>2
  <2>4. Frames(c)' = << >> \o << >>  BY <2>3 DEF Frames
  <2> QED  BY <2>4 DEF Announced, Headed
<1>2. CASE ReadHead(c) \/ ReadChunk(c)
  <2>1. /\ conn'[c].q = conn[c].q
        /\ conn[c].q.kind # "list" => \A k \in 1 .. Len(Frames(c)') : Frames(c)'[k].t # "head"
        /\ Frames(c)' = Tail(Frames(c)) /\ Frames(c) # << >>
    BY <1>2, Taken
  <2>2. Frames(c)' \in Seq(OneFrame)
    <3>1. Frames(c) \in Seq(OneFrame)  BY <1>0, FramesTyped
    <3> QED  BY <2>1, <3>1
  <2>3. Headed(Frames(c)') => 1 \in 1 .. Len(Frames(c)')  BY <2>2 DEF Headed
  <2> QED  BY <2>1, <2>3 DEF Announced, Headed
<1>3. CASE /\ ~ReadHead(c) /\ ~ReadChunk(c) /\ ~AskRefused(c)
           /\ (ClientReads(c) \/ Timeout(c))
  <2>1. Leave(c)  BY <1>3, ReadsGives
  <2>2. /\ conn'[c].q = conn[c].q /\ conn'[c].out = conn[c].out /\ conn'[c].wire = << >>
        /\ conn'[c].torn = conn[c].torn
    BY <1>0, <2>1, LeaveGives
  <2>3. Frames(c)' = conn[c].out
    <3>1. << >> \o conn[c].out = conn[c].out  BY <1>0, FramesTyped
    <3> QED  BY <2>2, <3>1 DEF Frames
  <2>4. CASE conn[c].wire = << >>
    <3>1. Dropped(c) \/ Timeout(c)
      BY <1>3, <2>4 DEF ClientReads, ReadHead, ReadError, ReadPage, ReadChunk, ReadLast,
         ReadBody, Reading
    <3>2. call'[c].got = call[c].got  BY <1>0, <3>1 DEF Dropped, Timeout, Return, CallType
    <3>3. << >> \o conn[c].out = conn[c].out  BY <1>0, FramesTyped
    <3>4. Frames(c)' = Frames(c)  BY <2>3, <2>4, <3>3 DEF Frames
    <3>5. Stream(c)' = Stream(c)  BY <3>2, <3>4 DEF Stream
    <3>6. ToCome(c)' = ToCome(c) /\ mode' = mode /\ size' = size  BY <1>0 DEF ToCome, disk
    <3> QED  BY <1>0, <2>2, <3>4, <3>5, <3>6 DEF Announced
  <2>5. CASE conn[c].wire # << >>
    <3> DEFINE o == conn[c].out
               w == conn[c].wire
    <3>1. call[c].st \in {"waiting", "reading"}
      BY <1>3 DEF ClientReads, ReadHead, ReadError, ReadPage, ReadChunk, ReadLast,
         ReadBody, Dropped, Timeout, Reading
    <3>2. conn[c].st = "handled"  BY <2>5 DEF Started
    <3>3. Form(Frames(c), call[c].st, conn[c].q.kind, c \in job.of)
      BY <1>0, <3>1, <3>2 DEF Formed
    <3>4. Frames(c) = w \o o /\ o \in Seq(OneFrame) /\ w \in Seq(OneFrame) /\ w # << >>
      BY <1>0, <2>5, FramesTyped DEF Frames
    <3>5. Frames(c)' = o  BY <2>3
    <3> HIDE DEF o, w
    <3>6. ASSUME o # << >>, conn[c].q.kind # "list" PROVE o[1].t # "head"
      <4> DEFINE n == Len(w) + 1
      <4>1. Len(w) \in Nat \ {0} /\ Len(o) \in Nat \ {0}
        <5>1. Len(w) # 0 /\ Len(o) # 0  BY <3>4, <3>6
        <5> QED  BY <3>4, <5>1
      <4>2. /\ Len(w \o o) = Len(w) + Len(o)
            /\ \A i \in 1 .. Len(w) + Len(o) :
                 (w \o o)[i] = IF i <= Len(w) THEN w[i] ELSE o[i - Len(w)]
        BY <3>4, ConcatProperties
      <4>3. n \in 1 .. Len(w) + Len(o) /\ n # 1 /\ ~ (n <= Len(w)) /\ n - Len(w) = 1
        BY <4>1
      <4>4. (w \o o)[n] = o[1] /\ n \in 1 .. Len(Frames(c))  BY <3>4, <4>2, <4>3
      <4> HIDE DEF n
      <4>5. Frames(c)[n].t # "head"  BY <3>3, <3>6, <4>3, <4>4 DEF Form
      <4> QED  BY <3>4, <4>4, <4>5
    <3> QED  BY <2>2, <3>5, <3>6, SMTT(30) DEF Announced, Headed
  <2> QED  BY <2>4, <2>5
<1>4. AskRefused(c) \/ ~AskRefused(c)  OBVIOUS
<1> QED  BY <1>1, <1>2, <1>3, <1>4 DEF ClientStep

\* and every step does.
LEMMA AnnouncedStep ==
  ASSUME Types, Types', AllFormed, AllStarted, AllAnnounced, [Next]_vars
  PROVE  AllAnnounced'
<1>1. ASSUME NEW d \in Client, Kept(d) PROVE Announced(d)'
  BY <1>1, AnnouncedKept DEF AllAnnounced
<1>2. CASE \A d \in Client : Kept(d)  BY <1>1, <1>2 DEF AllAnnounced
<1>3. ASSUME NEW c \in Client, \A d \in Client : d # c => Kept(d), UNCHANGED disk,
             \/ call' = call /\ (Handle(c) \/ Write(c) \/ (Work /\ job.of = {c}) \/ Fault(c))
             \/ ClientStep(c)
      PROVE  AllAnnounced'
  <2> SUFFICES Announced(c)'  BY <1>1, <1>3 DEF AllAnnounced
  <2>0. Started(c) /\ Announced(c)  BY DEF AllStarted, AllAnnounced
  <2>1. CASE call' = call /\ Handle(c)
    <3>1. conn[c].st = "asked"  BY <2>1, HandleGives
    <3>2. conn[c].out = << >> /\ conn[c].wire = << >> /\ call[c].got = << >>
      BY <2>0, <3>1 DEF Started
    <3> QED  BY <2>1, <3>2, AnnouncedReply
  <2>2. CASE call' = call /\ Write(c)
    <3>1. /\ conn'[c].q = conn[c].q /\ job' = job /\ job.of = {} /\ UNCHANGED disk
          /\ conn'[c].torn = conn[c].torn
          /\ IF conn[c].gone THEN conn'[c].wire = conn[c].wire /\ conn'[c].out = << >>
             ELSE Frames(c)' = Frames(c) /\ Stream(c)' = Stream(c)
      BY <2>2, Delivered
    <3>2. CASE conn[c].gone
      <4>1. conn'[c].wire = << >> /\ conn'[c].out = << >>  BY <2>0, <3>1, <3>2 DEF Started
      <4>2. Frames(c)' = << >> \o << >>  BY <4>1 DEF Frames
      <4> QED  BY <4>2 DEF Announced, Headed
    <3>3. CASE ~conn[c].gone
      <4>1. ToCome(c)' = ToCome(c) /\ mode' = mode /\ c \notin job'.of
        BY <3>1 DEF ToCome, disk
      <4> QED  BY <2>0, <3>1, <3>3, <4>1 DEF Announced
    <3> QED  BY <3>2, <3>3
  <2>3. CASE call' = call /\ Work /\ job.of = {c}  BY <2>0, <2>3, AnnouncedWork
  <2>4. CASE ClientStep(c)  BY <2>0, <2>4, AnnouncedClient
  <2>5. CASE call' = call /\ Fault(c)
    <3>1. /\ conn'[c].q = conn[c].q /\ conn'[c].torn /\ c \notin job'.of
          /\ \/ /\ c \in job.of /\ TornReply \in Seq(OneFrame)
                /\ Frames(c)' = Frames(c) \o TornReply
                /\ conn[c].q.kind # "list" => TornReply = <<Ended>> /\ Stream(c)' = Stream(c)
             \/ Frames(c)' = <<Error>>
      BY <2>0, <2>5, FaultGives
    <3>2. ToCome(c)' = 0  BY <3>1 DEF ToCome
    <3>3. CASE Frames(c)' = <<Error>>
      <4>1. ~ Headed(<<Error>>)  BY FrameShapes DEF Headed, Error
      <4> QED  BY <3>3, <4>1 DEF Announced
    <3>4. CASE /\ c \in job.of /\ Frames(c)' = Frames(c) \o <<Ended>>
               /\ Stream(c)' = Stream(c) /\ conn[c].q.kind # "list"
      <4>1. <<Ended>> \in Seq(OneFrame) /\ ~ Headed(<<Ended>>) /\ <<Ended>> # << >>
        BY FrameShapes DEF Headed, Ended
      <4>2. ConnTyped /\ CallTyped /\ job \in JobType  BY DEF Types, JobTyped
      <4>3. /\ Frames(c) \in Seq(OneFrame) /\ Len(Stream(c)) \in Nat /\ job.left \in Nat
        BY <4>2, StreamTyped DEF JobType
      <4>4. Headed(Frames(c)') => Headed(Frames(c)) /\ Frames(c)'[1] = Frames(c)[1]
        BY <3>4, <4>1, <4>3, HeadedMore
      <4>5. ToCome(c) = job.left  BY <3>4 DEF ToCome
      <4>6. SUFFICES ASSUME Headed(Frames(c)') PROVE Announced(c)'  BY DEF Announced
      <4>7. Frames(c)[1].length \in Nat
        <5>1. Frames(c) # << >> /\ Frames(c)[1].t = "head" /\ Frames(c)[1].length # Unknown
          BY <4>4, <4>6 DEF Headed
        <5>2. Frames(c)[1] \in OneFrame  BY <4>3, <5>1
        <5> QED  BY <5>1, <5>2, FrameFields
      <4>8. /\ conn[c].q.kind \in {"file", "record"}
            /\ Len(Stream(c)) + job.left <= Frames(c)[1].length
        BY <2>0, <3>4, <4>4, <4>5, <4>6 DEF Announced
      <4>9. Len(Stream(c)) + 0 <= Frames(c)[1].length
        <5>1. \A a, l, y \in Nat : a + l <= y => a + 0 <= y  OBVIOUS
        <5> QED  BY <4>3, <4>7, <4>8, <5>1
      <4> QED  BY <3>1, <3>2, <3>4, <4>4, <4>6, <4>8, <4>9 DEF Announced
    <3>5. CASE conn[c].q.kind = "list"  BY <3>1, <3>5 DEF Announced
    <3> QED  BY <3>1, <3>3, <3>4, <3>5
  <2> QED  BY <1>3, <2>1, <2>2, <2>3, <2>4, <2>5
<1> QED  BY <1>2, <1>3, StepKinds

-----------------------------------------------------------------------------
(* The bytes of a reply: what was sent and what the handler still owes. *)

\* The requests answered with bytes of the file.
Data == {"file", "record", "filter"}

\* All that was asked for and stored was sent.
Served(c) == IsPrefix(Promised(c), Stream(c))

\* What is left of a file, which may have become shorter than it was.
FileLeft(c) ==
  /\ conn[c].q.kind = "file" /\ job.step = "chunks"
  /\ \E b, p \in Nat :
       /\ From(c) = b /\ job.at = p /\ b <= p /\ p < StoredEnd(c) /\ StoredEnd(c) <= p + job.left
       /\ Stream(c) = Between(b, p)

\* Record j, from b to e, is sent up to p; no one can cut it any more.
RecordFrom(c, j, b, p, e) ==
  /\ recs[j].off = b /\ EndOf(recs[j]) = e /\ job.at = p
  /\ b <= p /\ p < e /\ p + job.left = e /\ Wanted(c, j) = Between(b, e)
  /\ conn[c].q.kind = "record" => From(c) = b
  /\ conn[c].q.kind = "filter" =>
       job.next = e /\ From(c) <= b /\ AtStored(c, From(c)) /\ Passed(c, j)
  /\ Stream(c) = UpTo(c, j - 1) \o Between(b, p)

\* What is left of a record.
RecordLeft(c) ==
  /\ conn[c].q.kind \in {"record", "filter"} /\ job.step = "chunks"
  /\ \E j \in 1 .. conn[c].due : \E b, p, e \in Nat : RecordFrom(c, j, b, p, e)

\* A filter is at the beginning of record j, and met no empty one before it.
FilterLeft(c) ==
  /\ conn[c].q.kind = "filter" /\ job.step = "filter" /\ AtStored(c, From(c))
  /\ \E j \in 1 .. conn[c].due :
       /\ job.at = recs[j].off /\ From(c) <= job.at
       /\ Stream(c) = UpTo(c, j - 1) /\ Passed(c, j - 1)

\* A list: it is complete, or cannot be, or it is at the beginning of record j.
ListLeft(c) ==
  \/ IsPrefix(Promised(c), job.list)
  \/ job.at < StoredEnd(c) /\ ~AtStored(c, job.at)
  \/ \E j \in 1 .. conn[c].due :
       job.at = recs[j].off /\ From(c) <= job.at /\ job.list = UpTo(c, j - 1)

\* What the server still owes to a client that waits for it.
Owes(c) ==
  IF c \in job.of
    THEN /\ conn[c].q.kind \in Data =>
              Served(c) \/ FileLeft(c) \/ RecordLeft(c) \/ FilterLeft(c)
         /\ conn[c].q.kind = "list" => ListLeft(c)
    ELSE conn[c].q.kind \in Data => Served(c) \/ (Has(c, "error") /\ exit # "none")

\* When a read failed, it may be that only the beginning was sent.
Halved(c) ==
  conn[c].q.kind \in Data => Served(c) \/ IsPrefix(Stream(c), Promised(c))

\* A reply under way: an end comes only after all of it, and the handler owes the rest.
Sent(c) ==
  conn[c].st = "handled" /\ call[c].st # "over" =>
    IF conn[c].torn THEN Halved(c)
    ELSE Marks(Frames(c), call[c].got, Promised(c)) /\ Owes(c)

\* A call that has succeeded.
Succeeded(c) ==
  call[c].result = "ok" =>
    /\ call[c].st = "over"
    /\ ~call[c].cut /\ ~conn[c].torn
         => conn[c].st = "handled" /\ IsPrefix(Promised(c), call[c].got)

\* The replies under way to all clients,
AllSent == \A c \in Client : Sent(c)
\* and the calls of all of them.
AllSucceeded == \A c \in Client : Succeeded(c)

\* What a step leaves as it was that leaves c alone, or only goes on with its reply.
LEMMA LeftStays ==
  ASSUME Disk, Disk', ConnTyped, NEW c \in Client, conn[c].due # 0, Lasting(c),
         Stream(c)' = Stream(c), job' = job
  PROVE  /\ Served(c) => Served(c)'
         /\ FileLeft(c) => FileLeft(c)'
         /\ RecordLeft(c) => RecordLeft(c)'
         /\ FilterLeft(c) => FilterLeft(c)'
         /\ ListLeft(c) => ListLeft(c)'
         /\ Halved(c) => Halved(c)'
<1>0. /\ From(c)' = From(c) /\ StoredEnd(c)' = StoredEnd(c)
      /\ Promised(c)' = Promised(c) /\ Wants(c)' = Wants(c)
      /\ \A i \in 1 .. conn[c].due : recs'[i] = recs[i] /\ Wanted(c, i)' = Wanted(c, i)
      /\ \A p \in Nat : \A q \in Nat : q <= StoredEnd(c) => Between(p, q)' = Between(p, q)
      /\ \A p : AtStored(c, p)' = AtStored(c, p)
      /\ \A n \in 0 .. conn[c].due : Passed(c, n)' = Passed(c, n)
  BY StaysAsked
<1>1. conn'[c].q = conn[c].q /\ conn'[c].due = conn[c].due  BY DEF Lasting
<1>2. \A n : UpTo(c, n)' = UpTo(c, n)
  <2> TAKE n
  <2>1. UpTo(c, n)' = Part(Wants(c)', n)  BY DEF UpTo, Part
  <2> QED  BY <1>0, <2>1 DEF UpTo
<1>3. /\ StoredEnd(c) \in Nat /\ From(c) \in Nat
      /\ \A i \in 1 .. conn[c].due : EndOf(recs[i]) \in Nat /\ EndOf(recs[i]) <= StoredEnd(c)
  BY Due
<1>11. ASSUME NEW j \in 1 .. conn[c].due
       PROVE  Passed(c, j)' = Passed(c, j) /\ Passed(c, j - 1)' = Passed(c, j - 1)
  <2>1. conn[c].due \in Nat  BY Due
  <2>2. j \in 0 .. conn[c].due /\ j - 1 \in 0 .. conn[c].due  BY <2>1
  <2> QED  BY <1>0, <2>2
<1>4. AtStored(c, From(c))' = AtStored(c, From(c))
  <2>1. PICK x : x = From(c)  OBVIOUS
  <2>2. AtStored(c, From(c))' = AtStored(c, x)'  BY <1>0, <2>1 DEF AtStored
  <2> QED  BY <1>0, <2>1, <2>2
<1>5. AtStored(c, job.at)' = AtStored(c, job.at)
  <2>1. PICK x : x = job.at  OBVIOUS
  <2>2. AtStored(c, job.at)' = AtStored(c, x)'  BY <2>1 DEF AtStored
  <2> QED  BY <1>0, <2>1, <2>2
<1>6. Served(c) => Served(c)'  BY <1>0 DEF Served
<1>7. ASSUME FileLeft(c) PROVE FileLeft(c)'
  <2>1. PICK b \in Nat, p \in Nat :
          /\ From(c) = b /\ job.at = p /\ b <= p /\ p < StoredEnd(c)
          /\ StoredEnd(c) <= p + job.left /\ Stream(c) = Between(b, p)
    BY <1>7 DEF FileLeft
  <2>2. Between(b, p)' = Between(b, p)  BY <1>0, <1>3, <2>1
  <2>3. Stream(c)' = Between(b, p)'  BY <2>1, <2>2
  <2> QED  BY <1>0, <1>1, <1>7, <2>1, <2>3 DEF FileLeft
<1>8. ASSUME RecordLeft(c) PROVE RecordLeft(c)'
  <2>0. PICK j \in 1 .. conn[c].due, b \in Nat, p \in Nat, e \in Nat : RecordFrom(c, j, b, p, e)
    BY <1>8 DEF RecordLeft
  <2>1. /\ recs[j].off = b /\ EndOf(recs[j]) = e /\ job.at = p
        /\ b <= p /\ p < e /\ p + job.left = e /\ Wanted(c, j) = Between(b, e)
        /\ conn[c].q.kind = "record" => From(c) = b
        /\ conn[c].q.kind = "filter" =>
             job.next = e /\ From(c) <= b /\ AtStored(c, From(c)) /\ Passed(c, j)
        /\ Stream(c) = UpTo(c, j - 1) \o Between(b, p)
    BY <2>0 DEF RecordFrom
  <2>2. Between(b, p)' = Between(b, p) /\ Between(b, e)' = Between(b, e)
    BY <1>0, <1>3, <2>1
  <2>3. UpTo(c, j - 1)' = UpTo(c, j - 1)  BY <1>2
  <2>4. Wanted(c, j)' = Between(b, e)'  BY <1>0, <2>1, <2>2
  <2>5. Stream(c)' = UpTo(c, j - 1)' \o Between(b, p)'  BY <2>1, <2>2, <2>3
  <2>6. recs'[j].off = b /\ EndOf(recs'[j]) = e /\ job'.at = p /\ p + job'.left = e
        /\ (conn[c].q.kind = "filter" => job'.next = e)
    BY <1>0, <2>1
  <2>7. RecordFrom(c, j, b, p, e)'
    BY <1>0, <1>1, <1>4, <1>11, <2>1, <2>4, <2>5, <2>6 DEF RecordFrom
  <2> QED  BY <1>1, <1>8, <2>7 DEF RecordLeft
<1>9. ASSUME FilterLeft(c) PROVE FilterLeft(c)'
  <2>1. PICK j \in 1 .. conn[c].due :
          /\ job.at = recs[j].off /\ From(c) <= job.at
          /\ Stream(c) = UpTo(c, j - 1) /\ Passed(c, j - 1)
    BY <1>9 DEF FilterLeft
  <2>2. /\ job'.at = recs'[j].off /\ From(c)' <= job'.at
        /\ Stream(c)' = UpTo(c, j - 1)' /\ Passed(c, j - 1)'
    BY <1>0, <1>2, <1>11, <2>1
  <2> QED  BY <1>1, <1>4, <1>9, <2>2 DEF FilterLeft
<1>10. ASSUME ListLeft(c) PROVE ListLeft(c)'
  <2>1. CASE IsPrefix(Promised(c), job.list)  BY <1>0, <2>1 DEF ListLeft
  <2>2. CASE job.at < StoredEnd(c) /\ ~AtStored(c, job.at)  BY <1>0, <1>5, <2>2 DEF ListLeft
  <2>3. ASSUME NEW j \in 1 .. conn[c].due,
               job.at = recs[j].off /\ From(c) <= job.at /\ job.list = UpTo(c, j - 1)
        PROVE  ListLeft(c)'
    <3>1. job'.at = recs'[j].off /\ From(c)' <= job'.at /\ job'.list = UpTo(c, j - 1)'
      BY <1>0, <1>2, <2>3
    <3> QED  BY <1>1, <3>1 DEF ListLeft
  <2> QED  BY <1>10, <2>1, <2>2, <2>3 DEF ListLeft
<1>12. Halved(c) => Halved(c)'  BY <1>0, <1>1, <1>6 DEF Halved
<1> QED  BY <1>6, <1>7, <1>8, <1>9, <1>10, <1>12

\* A step about another client keeps a reply under way,
LEMMA SentKept ==
  ASSUME Types, Disk', NEW c \in Client, Started(c), Sent(c), Kept(c)
  PROVE  Sent(c)'
<1>1. conn'[c] = conn[c] /\ call'[c] = call[c] /\ (c \in job'.of) = (c \in job.of)
      /\ (c \in job.of => job' = job) /\ Lasting(c) /\ (exit # "none" => exit' # "none")
  BY DEF Kept
<1>2. Frames(c)' = Frames(c)  BY <1>1 DEF Frames
<1>3. Stream(c)' = Stream(c)  BY <1>1, <1>2 DEF Stream
<1>4. SUFFICES ASSUME conn[c].st = "handled", call[c].st # "over" PROVE Sent(c)'
  BY <1>1 DEF Sent
<1>5. conn[c].due # 0 /\ Disk /\ ConnTyped  BY <1>4 DEF Started, Types
<1>11. CASE conn[c].torn
  <2>1. Halved(c) /\ c \notin job.of  BY <1>4, <1>11 DEF Sent, Started
  <2>2. Halved(c)'
    <3>1. Promised(c)' = Promised(c)  BY <1>1, <1>5, StaysAsked
    <3> QED  BY <1>1, <1>3, <2>1, <3>1 DEF Halved, Served
  <2> QED  BY <1>1, <1>11, <2>2 DEF Sent
<1>12. SUFFICES ASSUME ~conn[c].torn
                PROVE  Marks(Frames(c), call[c].got, Promised(c))' /\ Owes(c)'
  BY <1>1, <1>11 DEF Sent
<1>6. Marks(Frames(c), call[c].got, Promised(c)) /\ Owes(c)  BY <1>4, <1>12 DEF Sent
<1>7. Promised(c)' = Promised(c)  BY <1>1, <1>5, StaysAsked
<1>8. Marks(Frames(c)', call'[c].got, Promised(c)')  BY <1>1, <1>2, <1>6, <1>7
<1>9. CASE c \in job.of
  <2>1. /\ Served(c) => Served(c)'
        /\ FileLeft(c) => FileLeft(c)'
        /\ RecordLeft(c) => RecordLeft(c)'
        /\ FilterLeft(c) => FilterLeft(c)'
        /\ ListLeft(c) => ListLeft(c)'
    BY <1>1, <1>3, <1>5, <1>9, LeftStays
  <2>2. Owes(c)'  BY <1>1, <1>6, <1>9, <2>1 DEF Owes
  <2> QED  BY <1>8, <2>2
<1>10. CASE c \notin job.of
  <2>1. Served(c)' = Served(c)  BY <1>3, <1>7 DEF Served
  <2>2. Has(c, "error") => Has(c, "error")'  BY <1>2 DEF Has
  <2>3. Owes(c)'  BY <1>1, <1>6, <1>10, <2>1, <2>2 DEF Owes
  <2> QED  BY <1>8, <2>3
<1> QED  BY <1>9, <1>10

\* and a call that has succeeded.
LEMMA SucceededKept ==
  ASSUME Types, Disk', NEW c \in Client, Started(c), Succeeded(c), call'[c] = call[c],
         conn[c].st = "handled" => Lasting(c) /\ conn'[c].st = "handled",
         conn[c].torn => conn'[c].torn
  PROVE  Succeeded(c)'
<1> SUFFICES ASSUME call[c].result = "ok", ~call[c].cut, ~conn[c].torn
             PROVE  conn'[c].st = "handled" /\ IsPrefix(Promised(c)', call[c].got)
  BY DEF Succeeded
<1>1. conn[c].st = "handled" /\ IsPrefix(Promised(c), call[c].got)
  BY DEF Succeeded
<1>2. Promised(c)' = Promised(c)  BY <1>1, StaysAsked DEF Started, Types
<1> QED  BY <1>1, <1>2

\* At a record whose data block is empty, a filter ends.
LEMMA EmptyEnds ==
  ASSUME Disk, ConnTyped, NEW c \in Client, conn[c].due # 0, NEW j \in 1 .. conn[c].due,
         conn[c].q.kind = "filter", From(c) <= recs[j].off, recs[j].empty
  PROVE  Promised(c) = UpTo(c, j - 1)
<1> DEFINE d == conn[c].due
<1>0. d \in Nat /\ From(c) \in Nat /\ recs[j].off \in Nat  BY Due
<1>1. ASSUME NEW i \in j .. d PROVE Wanted(c, i) = << >>
  <2>1. j \in 1 .. i /\ recs[j].off >= From(c)  BY <1>0
  <2>2. ~ Reached(c, i)  BY <2>1 DEF Reached
  <2> QED  BY <2>2 DEF Wanted
<1>2. j - 1 \in 0 .. d /\ d \in j - 1 .. d /\ \A i \in j - 1 + 1 .. d : i \in j .. d  BY <1>0
<1>3. UpTo(c, d) = UpTo(c, j - 1)
  <2>1. \A i \in j - 1 + 1 .. d : Wanted(c, i) = << >>  BY <1>1, <1>2
  <2> QED  BY <1>2, <2>1, UpToGives
<1> QED  BY <1>3, WantedTyped

\* What a request asks for that begins at a record, where none begins, or at the end.
Opens(c) ==
  LET q == conn[c].q
  IN  /\ From(c) \in Nat /\ StoredEnd(c) \in Nat /\ StoredEnd(c) <= AckedEnd
      /\ Promised(c) \in Seq(Item)
      /\ \A p \in Nat : Between(p, p) = << >>
      /\ q.kind = "file" => Promised(c) = Between(From(c), StoredEnd(c))
      /\ q.kind \in {"file", "list"} /\ StoredEnd(c) <= From(c) => Promised(c) = << >>
      /\ q.kind \in {"record", "filter"} /\ ~AtStored(c, From(c)) => Promised(c) = << >>
      /\ q.kind \notin {"file", "record", "filter", "list"} => Promised(c) = << >>
      /\ \A j \in 1 .. conn[c].due :
           /\ recs[j].off \in Nat /\ EndOf(recs[j]) \in Nat /\ recs[j].off < EndOf(recs[j])
           /\ EndOf(recs[j]) <= StoredEnd(c)
           /\ q.kind # "file" /\ recs[j].off = From(c) => UpTo(c, j - 1) = << >>
           /\ q.kind \in {"record", "filter"} /\ recs[j].off = From(c) /\ recs[j].empty
                => Promised(c) = << >>
           /\ q.kind = "filter" /\ recs[j].off = From(c) => Passed(c, j - 1)
           /\ q.kind = "record" /\ recs[j].off = From(c) /\ ~recs[j].empty
                => \A b, e \in Nat :
                     recs[j].off = b /\ EndOf(recs[j]) = e => Wanted(c, j) = Between(b, e)

\* It is so in every state of the right types.
AllOpen == Disk /\ ConnTyped => \A c \in Client : conn[c].due # 0 => Opens(c)

\* So it is: records are in order and each begins where another ends.
LEMMA OpensHold == AllOpen
<1> SUFFICES ASSUME Disk, ConnTyped, NEW c \in Client, conn[c].due # 0 PROVE Opens(c)
  BY DEF AllOpen
<1> DEFINE q == conn[c].q
           d == conn[c].due
<1>1. /\ d \in Nat \ {0} /\ From(c) \in Nat /\ StoredEnd(c) \in Nat /\ StoredEnd(c) <= AckedEnd
      /\ \A i \in 1 .. d :
           /\ recs[i].off \in Nat /\ EndOf(recs[i]) \in Nat /\ recs[i].off < EndOf(recs[i])
           /\ EndOf(recs[i]) <= StoredEnd(c)
  BY Due
<1>2. /\ q.kind # "file" => Promised(c) = UpTo(c, d)
      /\ q.kind = "file" => Promised(c) = Between(From(c), StoredEnd(c))
      /\ Promised(c) \in Seq(Item)
  BY WantedTyped
<1>3. /\ UpTo(c, 0) = << >>
      /\ \A m \in 0 .. d : \A n \in m .. d :
           (\A i \in m + 1 .. n : Wanted(c, i) = << >>) => UpTo(c, n) = UpTo(c, m)
  BY UpToGives
<1>4. From(c) = q.from  BY DEF From
<1>5. ASSUME NEW n \in 0 .. d, \A i \in 1 .. n : Wanted(c, i) = << >> PROVE UpTo(c, n) = << >>
  <2>1. 0 \in 0 .. d /\ n \in 0 .. d /\ \A i \in 0 + 1 .. n : Wanted(c, i) = << >>
    BY <1>1, <1>5
  <2> QED  BY <1>3, <2>1
<1>6. \A p \in Nat : Between(p, p) = << >>  BY BetweenNone
<1>7. d \in 0 .. d  BY <1>1
<1>8. ASSUME q.kind \in {"file", "list"}, StoredEnd(c) <= From(c) PROVE Promised(c) = << >>
  <2>1. CASE q.kind = "file"  BY <1>1, <1>2, <1>8, <2>1, BetweenNone
  <2>2. CASE q.kind = "list"
    <3>1. ASSUME NEW i \in 1 .. d PROVE Wanted(c, i) = << >>
      <4>1. ~ (recs[i].off >= q.from)  BY <1>1, <1>4, <1>8
      <4> QED  BY <2>2, <4>1 DEF Wanted
    <3> QED  BY <1>2, <1>5, <1>7, <2>2, <3>1
  <2> QED  BY <1>8, <2>1, <2>2
<1>9. ASSUME q.kind \in {"record", "filter"}, ~AtStored(c, From(c)) PROVE Promised(c) = << >>
  <2>1. ASSUME NEW i \in 1 .. d PROVE Wanted(c, i) = << >>
    <3>1. recs[i].off # q.from  BY <1>4, <1>9 DEF AtStored
    <3>2. ~Reached(c, i)  BY <1>9 DEF Reached, AtStored
    <3> QED  BY <1>9, <3>1, <3>2 DEF Wanted
  <2> QED  BY <1>2, <1>5, <1>7, <1>9, <2>1
<1>10. ASSUME q.kind \notin {"file", "record", "filter", "list"} PROVE Promised(c) = << >>
  <2>1. ASSUME NEW i \in 1 .. d PROVE Wanted(c, i) = << >>  BY <1>10 DEF Wanted
  <2> QED  BY <1>2, <1>5, <1>7, <1>10, <2>1
<1>11. ASSUME NEW j \in 1 .. d, q.kind # "file", recs[j].off = From(c)
       PROVE  UpTo(c, j - 1) = << >> /\ Passed(c, j - 1)
  <2>1. ASSUME NEW i \in 1 .. j - 1
        PROVE  Wanted(c, i) = << >> /\ ~ (recs[i].off >= From(c))
    <3>0. i \in 1 .. d /\ i < j  BY <1>1
    <3>1. EndOf(recs[i]) <= recs[j].off  BY <3>0, DueNext
    <3>2. recs[i].off \in Nat /\ EndOf(recs[i]) \in Nat /\ recs[i].off < EndOf(recs[i])
          /\ recs[j].off \in Nat
      BY <1>1, <3>0
    <3>3. recs[i].off # q.from /\ ~ (recs[i].off >= q.from)  BY <1>4, <1>11, <3>1, <3>2
    <3> QED  BY <1>4, <3>3 DEF Wanted
  <2>2. j - 1 \in 0 .. d  BY <1>1
  <2>3. Passed(c, j - 1)  BY <2>1 DEF Passed
  <2> QED  BY <1>5, <2>1, <2>2, <2>3
<1>13. ASSUME NEW j \in 1 .. d, q.kind \in {"record", "filter"}, recs[j].off = From(c),
              recs[j].empty
       PROVE  Promised(c) = << >>
  <2>1. CASE q.kind = "filter"
    <3>1. From(c) <= recs[j].off  BY <1>1, <1>13
    <3>2. Promised(c) = UpTo(c, j - 1)  BY <1>13, <2>1, <3>1, EmptyEnds
    <3> QED  BY <1>11, <1>13, <2>1, <3>2
  <2>2. CASE q.kind = "record"
    <3>1. ASSUME NEW i \in 1 .. d PROVE Wanted(c, i) = << >>
      <4>1. recs[i].off = recs[j].off => i = j  BY DueNext
      <4>2. ~ (recs[i].off = q.from /\ ~recs[i].empty)  BY <1>4, <1>13, <4>1
      <4> QED  BY <2>2, <4>2 DEF Wanted
    <3> QED  BY <1>2, <1>5, <1>7, <2>2, <3>1
  <2> QED  BY <1>13, <2>1, <2>2
<1>12. ASSUME NEW j \in 1 .. d, q.kind = "record", recs[j].off = From(c), ~recs[j].empty
       PROVE  Wanted(c, j) = Between(recs[j].off, EndOf(recs[j]))
  BY <1>4, <1>12 DEF Wanted
<1> QED  BY <1>1, <1>2, <1>6, <1>8, <1>9, <1>10, <1>11, <1>12, <1>13 DEF Opens

\* When nothing was asked for, any frame may be the end.
LEMMA MarksEmpty ==
  ASSUME NEW F \in Seq(OneFrame), NEW got \in Seq(Byte)
  PROVE  Marks(F, got, << >>)
<1> SUFFICES ASSUME NEW k \in 1 .. Len(F)
             PROVE  /\ IsPrefix(<< >>, got \o Carried(SubSeq(F, 1, k - 1)))
                    /\ F[k].t = "body" => IsPrefix(<< >>, F[k].ids)
  BY DEF Marks
<1> DEFINE x == Carried(SubSeq(F, 1, k - 1))
<1>1. x \in Seq(Byte)
  <2>1. Len(F) \in Nat /\ \A i \in 1 .. k - 1 : F[i] \in OneFrame  OBVIOUS
  <2>2. SubSeq(F, 1, k - 1) \in Seq(OneFrame)  BY <2>1
  <2> QED  BY <2>2, CarriedTyped
<1>2. IsPrefix(<< >>, got \o x)
  <2> HIDE DEF x
  <2>1. got \o x \in Seq(Byte)  BY <1>1
  <2> QED  BY <2>1, PrefixNone
<1>3. F[k].t = "body" => IsPrefix(<< >>, F[k].ids)
  <2>1. F[k] \in OneFrame  OBVIOUS
  <2>2. F[k].t = "body" => F[k].ids \in Seq(Nat)  BY <2>1, FrameFields DEF ShortList
  <2> QED  BY <2>2, PrefixNone
<1> QED  BY <1>2, <1>3

\* A stored record is given to whoever reads there, unless its data block is empty.
LEMMA StoredGiven ==
  ASSUME Disk, ConnTyped, NEW p \in Nat, NEW j \in 1 .. acked, recs[j].off = p
  PROVE  RecordAt(p) = IF recs[j].empty THEN 0 ELSE j
<1>0. /\ Chained(recs) /\ acked \in 1 .. Len(recs) /\ Len(recs) \in Nat /\ size \in Nat
      /\ AckedEnd = EndOf(recs[acked]) /\ AckedEnd <= size /\ AckedEnd \in Nat
  BY DiskNumbers DEF Disk
<1>1. j \in 1 .. Len(recs)  BY <1>0
<1>2. EndOf(recs[j]) <= AckedEnd
  <2>1. CASE j = acked  BY <1>0, <2>1
  <2>2. CASE j # acked
    <3>1. acked \in j + 1 .. Len(recs)  BY <1>0, <2>2
    <3>2. EndOf(recs[j]) <= recs[acked].off  BY <1>0, <1>1, <3>1, Later
    <3>3. recs[acked].off < EndOf(recs[acked]) /\ recs[acked].off \in Nat
          /\ EndOf(recs[j]) \in Nat
      BY <1>0, <1>1, RecordNumbers
    <3> QED  BY <1>0, <3>2, <3>3
  <2> QED  BY <2>1, <2>2
<1>3. EndOf(recs[j]) \in Nat  BY <1>0, <1>1, RecordNumbers
<1>4. EndOf(recs[j]) <= size  BY <1>0, <1>2, <1>3
<1> DEFINE i == RecordAt(p)
           given(k) == /\ ~recs[k].empty
                       /\ \/ EndOf(recs[k]) <= size
                          \/ mode = "plain" /\ recs[k].off + HeaderLen <= size
           found == {k \in 1 .. Len(recs) : recs[k].off = p /\ given(k)}
<1>5. i = IF found = {} THEN 0 ELSE CHOOSE k \in found : TRUE  BY DEF RecordAt
<1>6. ASSUME NEW k \in 1 .. Len(recs), recs[k].off = p PROVE k = j
  <2>1. ASSUME NEW a \in 1 .. Len(recs), NEW b \in 1 .. Len(recs), a < b
        PROVE  recs[a].off # recs[b].off
    <3>1. b \in a + 1 .. Len(recs)  BY <1>0, <2>1
    <3>2. EndOf(recs[a]) <= recs[b].off  BY <1>0, <3>1, Later
    <3>3. recs[a].off < EndOf(recs[a]) /\ recs[a].off \in Nat /\ EndOf(recs[a]) \in Nat
          /\ recs[b].off \in Nat
      BY <1>0, RecordNumbers
    <3> QED  BY <3>2, <3>3
  <2>2. ~ (k < j) /\ ~ (j < k)  BY <1>1, <1>6, <2>1
  <2> QED  BY <1>0, <1>1, <2>2
<1>7. CASE recs[j].empty
  <2>1. found = {}  BY <1>6, <1>7
  <2> HIDE DEF found
  <2> QED  BY <1>5, <1>7, <2>1
<1>8. CASE ~recs[j].empty
  <2>1. j \in found /\ \A k \in found : k = j  BY <1>1, <1>4, <1>6, <1>8
  <2> HIDE DEF found
  <2> QED  BY <1>5, <1>8, <2>1
<1> HIDE DEF i, found
<1> QED  BY <1>7, <1>8 DEF i

\* A reply begins.
LEMMA SentReply ==
  ASSUME Types, Types', NEW c \in Client, Handle(c), call' = call,
         conn[c].out = << >>, conn[c].wire = << >>, call[c].got = << >>, ~conn[c].torn
  PROVE  Sent(c)'
<1>0. /\ Disk /\ ConnTyped /\ Disk' /\ ConnTyped' /\ From(c) \in Nat /\ size \in Nat
      /\ UNCHANGED disk /\ acked \in Nat \ {0} /\ acked \in 1 .. Len(recs)
      /\ AckedEnd \in Nat /\ AckedEnd <= size /\ Chained(recs) /\ Len(recs) \in Nat
  BY Handled, DiskNumbers DEF Types, Disk
<1>1. /\ job = NoJob /\ conn[c].st = "asked" /\ NoJob.of = {}
      /\ (exit # "none" => exit' # "none")
  BY HandleGives DEF NoJob
<1>2. recs' = recs /\ acked' = acked /\ AckedEnd' = AckedEnd  BY <1>0 DEF disk, AckedEnd
\* What the reply says, once its first frames are known.
<1>3. ASSUME NEW frames \in Seq(OneFrame), Reply(c, frames)
      PROVE  /\ conn'[c].q = conn[c].q /\ conn'[c].st = "handled" /\ conn'[c].due = acked
             /\ Frames(c)' = frames /\ Stream(c)' = Carried(frames) /\ Opens(c)'
             /\ From(c)' = From(c)
             /\ AtStored(c, From(c))' = (\E j \in 1 .. acked : recs[j].off = From(c))
             /\ call'[c].got = << >> /\ << >> \in Seq(Byte) /\ ~conn'[c].torn
  <2>1. /\ ~conn'[c].torn /\ conn'[c].q = conn[c].q /\ conn'[c].st = "handled"
        /\ conn'[c].due = acked /\ Frames(c)' = frames /\ Stream(c)' = Carried(frames)
    BY <1>3, Replied
  <2>2. AllOpen'  BY OpensHold, PTL
  <2>3. Opens(c)'  BY <1>0, <2>1, <2>2 DEF AllOpen
  <2>4. From(c)' = From(c)  BY <2>1 DEF From
  <2>5. AtStored(c, From(c))' = (\E j \in 1 .. acked : recs[j].off = From(c))
    BY <1>2, <2>1, <2>4 DEF AtStored
  <2>6. call'[c].got = << >> /\ << >> \in Seq(Byte)  OBVIOUS
  <2> QED  BY <2>1, <2>3, <2>4, <2>5, <2>6
<1>4. ASSUME NEW frames \in Seq(OneFrame), Reply(c, frames), Marks(frames, << >>, Promised(c)'),
             Owes(c)'
      PROVE  Sent(c)'
  BY <1>3, <1>4 DEF Sent
\* When nothing is promised, nothing is owed.
<1>5. ASSUME NEW frames \in Seq(OneFrame), Reply(c, frames), Promised(c)' = << >>,
             conn[c].q.kind \in Data \/ job' = NoJob
      PROVE  Sent(c)'
  <2>1. Marks(frames, << >>, Promised(c)')  BY <1>3, <1>5, MarksEmpty
  <2>2. Served(c)'
    <3>1. Carried(frames) \in Seq(Byte)  BY CarriedTyped
    <3>2. IsPrefix(<< >>, Carried(frames))  BY <3>1, PrefixNone
    <3>3. Stream(c)' = Carried(frames)  BY <1>3, <1>5
    <3> QED  BY <1>5, <3>2, <3>3 DEF Served
  <2>3. conn'[c].q = conn[c].q  BY <1>3, <1>5
  <2>4. Owes(c)'  BY <1>1, <1>5, <2>2, <2>3 DEF Owes, Data
  <2> QED  BY <1>4, <1>5, <2>1, <2>4
<1>6. CASE conn' = conn /\ job' = NoJob
  BY <1>1, <1>6 DEF Sent
<1>7. CASE /\ Reply(c, <<Error>>) /\ job' = NoJob
           /\ \/ exit # "none"
              \/ conn[c].q.kind \in {"wrong", "stop"}
              \/ conn[c].q.kind = "record" /\ RecordAt(From(c)) = 0
  <2>1. <<Error>> \in Seq(OneFrame)  BY FrameShapes
  <2>2. CASE exit # "none"
    <3>0. Error \in OneFrame /\ Error.t = "error"  BY FrameShapes DEF Error
    <3>1. Marks(<<Error>>, << >>, Promised(c)')
      <4>1. ~ Ending(Error) /\ Error.t # "page" /\ Error.t # "body"  BY <3>0 DEF Ending
      <4> QED  BY <3>0, <4>1, <1>3, <1>7, <2>1, MarksOne
    <3>2. Has(c, "error")'
      <4>1. Frames(c)' = <<Error>>  BY <1>3, <1>7, <2>1
      <4>2. 1 \in 1 .. Len(<<Error>>) /\ <<Error>>[1] = Error  OBVIOUS
      <4> QED  BY <3>0, <4>1, <4>2 DEF Has
    <3>3. Owes(c)'  BY <1>1, <1>7, <2>2, <3>2 DEF Owes
    <3> QED  BY <1>4, <1>7, <2>1, <3>1, <3>3
  <2>3. CASE conn[c].q.kind \in {"wrong", "stop"}
    <3>1. Promised(c)' = << >>  BY <1>3, <1>7, <2>1, <2>3 DEF Opens
    <3> QED  BY <1>5, <1>7, <2>1, <3>1
  <2>4. CASE conn[c].q.kind = "record" /\ RecordAt(From(c)) = 0
    <3>0. /\ Opens(c)' /\ From(c)' = From(c) /\ conn'[c].q = conn[c].q /\ conn'[c].due = acked
          /\ AtStored(c, From(c))' = (\E j \in 1 .. acked : recs[j].off = From(c))
      BY <1>3, <1>7, <2>1
    <3>1. ASSUME NEW j \in 1 .. acked, recs[j].off = From(c) PROVE recs'[j].empty
      <4>1. RecordAt(From(c)) = IF recs[j].empty THEN 0 ELSE j  BY <1>0, <3>1, StoredGiven
      <4> QED  BY <1>0, <1>2, <2>4, <4>1
    <3>2. Promised(c)' = << >>
      <4>1. CASE AtStored(c, From(c))'
        <5>1. PICK j \in 1 .. acked : recs[j].off = From(c)  BY <3>0, <4>1
        <5> QED  BY <1>2, <2>4, <3>0, <3>1, <5>1 DEF Opens
      <4>2. CASE ~ AtStored(c, From(c))'  BY <2>4, <3>0, <4>2 DEF Opens
      <4> QED  BY <4>1, <4>2
    <3> QED  BY <1>5, <1>7, <2>1, <3>2
  <2> QED  BY <1>7, <2>2, <2>3, <2>4
<1>8. CASE Reply(c, <<Page>>) /\ job' = NoJob /\ conn[c].q.kind = "stop"
  <2>1. <<Page>> \in Seq(OneFrame)  BY FrameShapes
  <2>2. Promised(c)' = << >>  BY <1>3, <1>8, <2>1 DEF Opens
  <2> QED  BY <1>5, <1>8, <2>1, <2>2
<1>9. CASE Reply(c, <<Begun(0), Ended>>) /\ job' = NoJob /\ conn[c].q.kind = "file"
           /\ size = From(c)
  <2>1. <<Begun(0), Ended>> \in Seq(OneFrame)  BY FrameShapes
  <2>2. Promised(c)' = << >>
    <3>1. StoredEnd(c)' \in Nat /\ StoredEnd(c)' <= AckedEnd /\ Opens(c)' /\ From(c)' = From(c)
          /\ conn'[c].q.kind = "file"
      BY <1>2, <1>3, <1>9, <2>1 DEF Opens
    <3>2. StoredEnd(c)' <= From(c)'  BY <1>0, <1>9, <3>1
    <3> QED  BY <3>1, <3>2 DEF Opens
  <2> QED  BY <1>5, <1>9, <2>1, <2>2 DEF Data
\* A head alone marks nothing, and carries nothing.
<1>10. ASSUME NEW n \in Nat \cup {Unknown}, Reply(c, <<Begun(n)>>)
       PROVE  /\ <<Begun(n)>> \in Seq(OneFrame) /\ Marks(<<Begun(n)>>, << >>, Promised(c)')
              /\ Stream(c)' = << >>
  <2>1. Begun(n) \in OneFrame /\ Begun(n).t = "head" /\ BytesOf(Begun(n)) = << >>
    BY FrameShapes DEF Begun, BytesOf
  <2>2. <<Begun(n)>> \in Seq(OneFrame)  BY <2>1
  <2>3. ~ Ending(Begun(n)) /\ Begun(n).t # "page" /\ Begun(n).t # "body"  BY <2>1 DEF Ending
  <2>4. Marks(<<Begun(n)>>, << >>, Promised(c)')
    <3>1. << >> \in Seq(Byte)  OBVIOUS
    <3> QED  BY <2>1, <2>3, <3>1, MarksOne
  <2>5. Stream(c)' = << >>  BY <1>3, <1>10, <2>1, <2>2, CarriedOne
  <2> QED  BY <2>2, <2>4, <2>5
<1>11. CASE /\ Reply(c, <<Begun(size - From(c))>>)
            /\ conn[c].q.kind = "file" /\ size > From(c)
            /\ job'.of = {c} /\ job'.step = "chunks" /\ job'.at = From(c)
            /\ job'.left = size - From(c)
  <2> DEFINE n == size - From(c)
  <2>0. n \in Nat /\ size = From(c) + n  BY <1>0, <1>11
  <2>1. n \in Nat \cup {Unknown} /\ Reply(c, <<Begun(n)>>)  BY <1>11, <2>0
  <2> HIDE DEF n
  <2>2. <<Begun(n)>> \in Seq(OneFrame) /\ Marks(<<Begun(n)>>, << >>, Promised(c)')
        /\ Stream(c)' = << >>
    BY <1>10, <2>1
  <2>3. /\ StoredEnd(c)' \in Nat /\ StoredEnd(c)' <= AckedEnd /\ Opens(c)' /\ From(c)' = From(c)
        /\ conn'[c].q = conn[c].q
    BY <1>2, <1>3, <2>1, <2>2 DEF Opens
  <2>4. CASE StoredEnd(c)' <= From(c)
    <3>1. Promised(c)' = << >>  BY <1>11, <2>3, <2>4 DEF Opens
    <3> QED  BY <1>5, <1>11, <2>1, <2>2, <3>1 DEF Data
  <2>5. CASE ~ (StoredEnd(c)' <= From(c))
    <3>0. PICK b \in Nat : b = From(c)  BY <1>0
    <3>1. Stream(c)' = Between(b, b)'  BY <2>2, <2>3 DEF Opens
    <3>2. b < StoredEnd(c)' /\ StoredEnd(c)' <= b + n  BY <1>0, <2>0, <2>3, <2>5, <3>0
    <3>3. job'.at = b /\ job'.left = n /\ From(c)' = b /\ b <= b  BY <1>11, <2>3, <3>0 DEF n
    <3>4. FileLeft(c)'  BY <1>11, <2>3, <3>1, <3>2, <3>3 DEF FileLeft
    <3>5. Owes(c)'  BY <1>11, <2>3, <3>4 DEF Owes
    <3> QED  BY <1>4, <2>1, <2>2, <3>5
  <2> QED  BY <2>4, <2>5
<1>12. CASE /\ RecordAt(From(c)) # 0 /\ Reply(c, <<Begun(recs[RecordAt(From(c))].len)>>)
            /\ conn[c].q.kind = "record"
            /\ job'.of = {c} /\ job'.step = "chunks" /\ job'.at = From(c)
            /\ job'.left = recs[RecordAt(From(c))].len
  <2>0. PICK b \in Nat : b = From(c)  BY <1>0
  <2>1. PICK i : i = RecordAt(b)  OBVIOUS
  <2>2. /\ i \in 1 .. Len(recs) /\ recs[i].off = b /\ recs[i].len \in Nat \ {0} /\ ~recs[i].empty
        /\ EndOf(recs[i]) \in Nat /\ EndOf(recs[i]) = b + recs[i].len
    BY <1>0, <1>12, <2>0, <2>1, RecordAtGives
  <2> DEFINE n == recs[i].len
  <2>3. n \in Nat \cup {Unknown} /\ Reply(c, <<Begun(n)>>)  BY <1>12, <2>0, <2>1, <2>2
  <2> HIDE DEF n
  <2>4. <<Begun(n)>> \in Seq(OneFrame) /\ Marks(<<Begun(n)>>, << >>, Promised(c)')
        /\ Stream(c)' = << >>
    BY <1>10, <2>3
  <2>5. /\ Opens(c)' /\ From(c)' = From(c) /\ conn'[c].q = conn[c].q /\ conn'[c].due = acked
        /\ AtStored(c, From(c))' = (\E j \in 1 .. acked : recs[j].off = From(c))
    BY <1>3, <2>3, <2>4
  <2>6. CASE i \in 1 .. acked
    <3>1. PICK e \in Nat : e = EndOf(recs[i])  BY <2>2
    <3>2. /\ recs'[i].off = b /\ EndOf(recs'[i]) = e /\ job'.at = b /\ b <= b /\ b < e
          /\ ~recs'[i].empty
          /\ b + job'.left = e /\ From(c)' = b
      BY <1>2, <1>12, <2>0, <2>1, <2>2, <2>5, <3>1 DEF n
    <3>3. UpTo(c, i - 1)' = << >> /\ Between(b, b)' = << >>
      BY <1>12, <2>5, <2>6, <3>2 DEF Opens
    <3>4. Wanted(c, i)' = Between(b, e)'  BY <1>12, <2>5, <2>6, <3>2 DEF Opens
    <3>5. Stream(c)' = UpTo(c, i - 1)' \o Between(b, b)'
      <4>1. << >> \o << >> = << >>  OBVIOUS
      <4> QED  BY <2>4, <3>3, <4>1
    <3>6. conn'[c].q.kind # "filter"  BY <1>12, <2>5
    <3>7. RecordFrom(c, i, b, b, e)'  BY <3>2, <3>4, <3>5, <3>6 DEF RecordFrom
    <3>8. RecordLeft(c)'  BY <1>12, <2>5, <2>6, <3>7 DEF RecordLeft
    <3>9. Owes(c)'  BY <1>12, <2>5, <3>8 DEF Owes
    <3> QED  BY <1>4, <2>3, <2>4, <3>9
  <2>7. CASE i \notin 1 .. acked
    <3>1. ASSUME NEW j \in 1 .. acked, recs[j].off = From(c) PROVE FALSE
      <4>1. i = IF recs[j].empty THEN 0 ELSE j  BY <1>0, <2>0, <2>1, <3>1, StoredGiven
      <4> QED  BY <1>0, <2>2, <2>7, <3>1, <4>1
    <3>2. Promised(c)' = << >>  BY <1>12, <2>5, <3>1 DEF Opens
    <3> QED  BY <1>5, <1>12, <2>3, <2>4, <3>2 DEF Data
  <2> QED  BY <2>6, <2>7
<1>13. CASE /\ Reply(c, << >>) /\ conn[c].q.kind = "list"
            /\ job'.of = {c} /\ job'.step = "list" /\ job'.at = From(c) /\ job'.left = 0
            /\ job'.upto = size /\ job'.list = << >>
  <2>1. << >> \in Seq(OneFrame)  OBVIOUS
  <2>2. /\ Opens(c)' /\ From(c)' = From(c) /\ conn'[c].q = conn[c].q /\ conn'[c].due = acked
        /\ AtStored(c, From(c))' = (\E j \in 1 .. acked : recs[j].off = From(c))
    BY <1>3, <1>13, <2>1
  <2>3. StoredEnd(c)' \in Nat  BY <2>2 DEF Opens
  <2>4. ListLeft(c)'
    <3>1. CASE StoredEnd(c)' <= From(c)
      <4>1. Promised(c)' = << >>  BY <1>13, <2>2, <3>1 DEF Opens
      <4>2. << >> \in Seq(Nat)  OBVIOUS
      <4>3. IsPrefix(<< >>, << >>)  BY <4>2, PrefixNone
      <4> QED  BY <1>13, <4>1, <4>3 DEF ListLeft
    <3>2. CASE From(c) < StoredEnd(c)' /\ ~AtStored(c, From(c))'
      <4>1. AtStored(c, job.at)' = AtStored(c, From(c))'  BY <1>13, <2>2 DEF AtStored
      <4> QED  BY <1>13, <2>2, <3>2, <4>1 DEF ListLeft
    <3>3. CASE AtStored(c, From(c))'
      <4>1. PICK j \in 1 .. acked : recs[j].off = From(c)  BY <2>2, <3>3
      <4>2. UpTo(c, j - 1)' = << >>  BY <1>2, <1>13, <2>2, <4>1 DEF Opens
      <4>3. job'.at = recs'[j].off /\ From(c)' <= job'.at /\ job'.list = UpTo(c, j - 1)'
        BY <1>0, <1>2, <1>13, <2>2, <4>1, <4>2
      <4> QED  BY <2>2, <4>1, <4>3 DEF ListLeft
    <3> QED  BY <1>0, <2>3, <3>1, <3>2, <3>3
  <2>5. Owes(c)'  BY <1>13, <2>2, <2>4 DEF Owes, Data
  <2>6. Marks(<< >>, << >>, Promised(c)')  BY MarksNone
  <2> QED  BY <1>4, <1>13, <2>1, <2>5, <2>6
<1>14. CASE /\ Reply(c, <<Begun(Unknown)>>) /\ conn[c].q.kind = "filter"
            /\ job'.of = {c} /\ job'.step = "filter" /\ job'.at = From(c)
            /\ job'.left = 0 /\ job'.upto = size
  <2>1. /\ <<Begun(Unknown)>> \in Seq(OneFrame)
        /\ Marks(<<Begun(Unknown)>>, << >>, Promised(c)') /\ Stream(c)' = << >>
    BY <1>10, <1>14
  <2>2. /\ Opens(c)' /\ From(c)' = From(c) /\ conn'[c].q = conn[c].q /\ conn'[c].due = acked
        /\ AtStored(c, From(c))' = (\E j \in 1 .. acked : recs[j].off = From(c))
    BY <1>3, <1>14, <2>1
  <2>3. CASE ~AtStored(c, From(c))'
    <3>1. Promised(c)' = << >>  BY <1>14, <2>2, <2>3 DEF Opens
    <3> QED  BY <1>5, <1>14, <2>1, <3>1 DEF Data
  <2>4. CASE AtStored(c, From(c))'
    <3>1. PICK j \in 1 .. acked : recs[j].off = From(c)  BY <2>2, <2>4
    <3>2. UpTo(c, j - 1)' = << >>  BY <1>2, <1>14, <2>2, <3>1 DEF Opens
    <3>3. /\ job'.at = recs'[j].off /\ From(c)' <= job'.at
          /\ Stream(c)' = UpTo(c, j - 1)' /\ Passed(c, j - 1)'
      BY <1>0, <1>2, <1>14, <2>1, <2>2, <3>1, <3>2 DEF Opens
    <3>4. FilterLeft(c)'  BY <1>14, <2>2, <2>4, <3>1, <3>3 DEF FilterLeft
    <3>5. Owes(c)'  BY <1>14, <2>2, <3>4 DEF Owes
    <3> QED  BY <1>4, <1>14, <2>1, <3>5
  <2> QED  BY <2>3, <2>4
<1>15. \/ conn' = conn /\ job' = NoJob
       \/ /\ Reply(c, <<Error>>) /\ job' = NoJob
          /\ \/ exit # "none"
             \/ conn[c].q.kind \in {"wrong", "stop"}
             \/ conn[c].q.kind = "record" /\ RecordAt(From(c)) = 0
       \/ Reply(c, <<Page>>) /\ job' = NoJob /\ conn[c].q.kind = "stop"
       \/ /\ Reply(c, <<Begun(0), Ended>>) /\ job' = NoJob
          /\ conn[c].q.kind = "file" /\ size = From(c)
       \/ /\ Reply(c, <<Begun(size - From(c))>>)
          /\ conn[c].q.kind = "file" /\ size > From(c)
          /\ job'.of = {c} /\ job'.step = "chunks" /\ job'.at = From(c)
          /\ job'.left = size - From(c)
       \/ /\ RecordAt(From(c)) # 0 /\ Reply(c, <<Begun(recs[RecordAt(From(c))].len)>>)
          /\ conn[c].q.kind = "record"
          /\ job'.of = {c} /\ job'.step = "chunks" /\ job'.at = From(c)
          /\ job'.left = recs[RecordAt(From(c))].len
       \/ /\ Reply(c, << >>) /\ conn[c].q.kind = "list"
          /\ job'.of = {c} /\ job'.step = "list" /\ job'.at = From(c) /\ job'.left = 0
          /\ job'.upto = size /\ job'.list = << >>
       \/ /\ Reply(c, <<Begun(Unknown)>>) /\ conn[c].q.kind = "filter"
          /\ job'.of = {c} /\ job'.step = "filter" /\ job'.at = From(c)
          /\ job'.left = 0 /\ job'.upto = size
  BY HandleGives
<1> QED  BY <1>6, <1>7, <1>8, <1>9, <1>11, <1>12, <1>13, <1>14, <1>15, ZenonT(60)

\* The rest of a file has been sent when the stored part of it has.
LEMMA FileDone ==
  ASSUME Disk, ConnTyped, NEW c \in Client, conn[c].due # 0, conn[c].q.kind = "file",
         NEW b \in Nat, NEW q \in Nat, From(c) = b, b <= StoredEnd(c), StoredEnd(c) <= q,
         q <= FileEnd
  PROVE  IsPrefix(Promised(c), Between(b, q))
<1>1. PICK e \in Nat : e = StoredEnd(c)  BY Due
<1>2. Promised(c) = Between(b, e)  BY <1>1, WantedTyped
<1>3. FileEnd \in Nat /\ e <= FileEnd  BY <1>1, Due, DiskNumbers DEF FileEnd
<1>4. Between(b, e) \o Between(e, q) = Between(b, q)  BY <1>1, BetweenJoined
<1>5. Between(b, e) \in Seq(Byte) /\ Between(e, q) \in Seq(Byte)  BY <1>3, BetweenTyped
<1>6. IsPrefix(Between(b, e), Between(b, e))  BY <1>5, PrefixOfSelf
<1>7. IsPrefix(Between(b, e), Between(b, e) \o Between(e, q))  BY <1>5, <1>6, PrefixGrows
<1> QED  BY <1>2, <1>4, <1>7

\* No other record begins where the one that was asked for does.
LEMMA RecordDone ==
  ASSUME Disk, ConnTyped, NEW c \in Client, conn[c].due # 0, NEW j \in 1 .. conn[c].due,
         conn[c].q.kind = "record", recs[j].off = From(c)
  PROVE  Promised(c) = UpTo(c, j)
<1>0. conn[c].due \in Nat  BY Due
<1>1. ASSUME NEW i \in j + 1 .. conn[c].due PROVE Wanted(c, i) = << >>
  <2>1. i \in 1 .. conn[c].due /\ i # j  BY <1>0
  <2>2. recs[i].off # recs[j].off  BY <2>1, DueNext
  <2> QED  BY <2>2 DEF Wanted, From
<1>2. j \in 0 .. conn[c].due /\ conn[c].due \in j .. conn[c].due  BY <1>0
<1>3. UpTo(c, conn[c].due) = UpTo(c, j)  BY <1>1, <1>2, UpToGives
<1> QED  BY <1>3, WantedTyped

\* After record j, a filter is at the beginning of the next one, or it is done.
LEMMA FilterGoesOn ==
  ASSUME Disk, ConnTyped, NEW c \in Client, conn[c].due # 0, NEW j \in 1 .. conn[c].due,
         conn[c].q.kind # "file", From(c) <= recs[j].off
  PROVE  \/ Promised(c) = UpTo(c, j)
         \/ /\ j + 1 \in 1 .. conn[c].due /\ recs[j + 1].off = EndOf(recs[j])
            /\ From(c) <= recs[j + 1].off /\ j + 1 - 1 = j
<1>1. CASE j = conn[c].due  BY <1>1, WantedTyped
<1>2. CASE j # conn[c].due
  <2>1. j + 1 \in 1 .. conn[c].due /\ recs[j + 1].off = EndOf(recs[j])  BY <1>2, DueNext
  <2>2. recs[j].off \in Nat /\ EndOf(recs[j]) \in Nat /\ recs[j].off < EndOf(recs[j])
        /\ From(c) \in Nat
    BY Due
  <2> QED  BY <2>1, <2>2
<1> QED  BY <1>1, <1>2

\* A chunk is marked, alone or before the end of the reply.
LEMMA MarksChunk ==
  ASSUME NEW F \in Seq(OneFrame), NEW got \in Seq(Byte), NEW P, Marks(F, got, P),
         NEW bs \in Seq(Byte), bs = << >> => IsPrefix(P, got \o Carried(F))
  PROVE  /\ Marks(F \o <<Piece(bs)>>, got, P)
         /\ IsPrefix(P, (got \o Carried(F)) \o bs) => Marks(F \o <<Piece(bs), Ended>>, got, P)
         /\ <<Piece(bs)>> \in Seq(OneFrame) /\ <<Piece(bs), Ended>> \in Seq(OneFrame)
         /\ Carried(<<Piece(bs)>>) = bs /\ Carried(<<Piece(bs), Ended>>) = bs
<1> DEFINE f == Piece(bs)
           G == F \o <<f>>
<1>1. /\ f \in OneFrame /\ f.t = "chunk" /\ f.bytes = bs /\ BytesOf(f) = bs
      /\ Ended \in OneFrame /\ Ended.t = "last" /\ BytesOf(Ended) = << >>
  BY FrameShapes DEF Piece, BytesOf, Ended
<1> HIDE DEF f
<1>2. <<f>> \in Seq(OneFrame) /\ <<Ended>> \in Seq(OneFrame) /\ <<f, Ended>> \in Seq(OneFrame)
      /\ G \in Seq(OneFrame)
  BY <1>1
<1>3. Marks(G, got, P)
  <2>1. Ending(f) => bs = << >>  BY <1>1 DEF Ending
  <2>2. f.t # "page" /\ f.t # "body"  BY <1>1
  <2> QED  BY <1>1, <2>1, <2>2, MarksMore
<1>4. Carried(<<f>>) = bs  BY <1>1, CarriedOne
<1>5. Carried(<<f, Ended>>) = bs
  <2>1. Carried(<<f, Ended>>) = bs \o << >>  BY <1>1, CarriedTwo
  <2>2. bs \o << >> = bs  BY ConcatEmptySeq
  <2> QED  BY <2>1, <2>2
<1>6. got \o Carried(G) = (got \o Carried(F)) \o bs
  <2>1. Carried(G) = Carried(F) \o bs  BY <1>1, CarriedMore
  <2> DEFINE x == Carried(F)
  <2>2. x \in Seq(Byte)  BY CarriedTyped
  <2> HIDE DEF x
  <2>3. (got \o x) \o bs = got \o (x \o bs)  BY <2>2, BytesJoined
  <2> QED  BY <2>1, <2>3 DEF x
<1>7. ASSUME IsPrefix(P, (got \o Carried(F)) \o bs) PROVE Marks(F \o <<f, Ended>>, got, P)
  <2>1. IsPrefix(P, got \o Carried(G))  BY <1>6, <1>7
  <2>2. Ended.t # "page" /\ Ended.t # "body"  BY <1>1
  <2> HIDE DEF G
  <2>3. Marks(G \o <<Ended>>, got, P)  BY <1>1, <1>2, <1>3, <2>1, <2>2, MarksMore
  <2>4. G \o <<Ended>> = F \o <<f, Ended>>
    <3>1. (F \o <<f>>) \o <<Ended>> = F \o (<<f>> \o <<Ended>>)  BY <1>2, Joined
    <3>2. <<f>> \o <<Ended>> = <<f, Ended>>  BY <1>1, PairJoined
    <3> QED  BY <3>1, <3>2 DEF G
  <2> QED  BY <2>3, <2>4
<1> QED  BY <1>2, <1>3, <1>4, <1>5, <1>7 DEF f, G

\* Only a read that fails marks a reply.
LEMMA WorkKeeps ==
  ASSUME Types, NEW c \in Client, Work, job.of = {c}
  PROVE  conn'[c].torn = conn[c].torn
<1>1. \A frames : Queue(c, frames) => conn'[c].torn = conn[c].torn
  BY DEF Queue, Types, ConnTyped, ConnType
<1>2. CASE SendChunk
  <2>1. \E frames : Queue(c, frames)  BY <1>2, SendChunkIs
  <2> QED  BY <1>1, <2>1
<1>3. CASE ListNext
  <2>1. conn' = conn \/ \E frames : Queue(c, frames)  BY <1>3, ListNextIs
  <2> QED  BY <1>1, <2>1
<1>4. CASE FilterNext
  <2>1. conn' = conn \/ \E frames : Queue(c, frames)  BY <1>4, FilterNextIs
  <2> QED  BY <1>1, <2>1
<1> QED  BY <1>2, <1>3, <1>4 DEF Work

\* A turn of the loop that sends bytes.
LEMMA SentChunk ==
  ASSUME Types, Types', AllFormed, NEW c \in Client, Started(c), Sent(c), SendChunk,
         job.of = {c}, call' = call
  PROVE  Sent(c)'
<1>0. /\ Disk /\ Disk' /\ ConnTyped /\ ConnTyped' /\ CallTyped /\ UNCHANGED disk
      /\ job.at \in Nat /\ job.left \in Nat /\ size \in Nat /\ FileEnd \in Nat /\ size <= FileEnd
      /\ job.step = "chunks" /\ c \in job.of
  BY WorkLeaves, DiskNumbers DEF Types, Work, SendChunk, Working, FileEnd
<1>1. /\ conn[c].st = "handled" /\ conn[c].due # 0 /\ conn[c].q.kind \in Data
      /\ ~conn[c].torn /\ ~conn'[c].torn
  <2>1. conn[c].due # 0 /\ ~conn[c].torn  BY <1>0 DEF AllFormed, Formed, Started
  <2>2. ~conn'[c].torn  BY <2>1, WorkKeeps DEF Work
  <2> QED  BY <1>0, <2>1, <2>2 DEF AllFormed, Formed, Data
<1>2. SUFFICES ASSUME call[c].st # "over" PROVE Sent(c)'  BY DEF Sent
<1>3. /\ Marks(Frames(c), call[c].got, Promised(c))
      /\ Served(c) \/ FileLeft(c) \/ RecordLeft(c)
  BY <1>0, <1>1, <1>2 DEF Sent, Owes, FilterLeft
<1> DEFINE P   == Promised(c)
           S   == Stream(c)
           F   == Frames(c)
           got == call[c].got
           n   == Lesser(Chunk, job.left)
           bs  == BytesAt(job.at, n)
<1>4. /\ F \in Seq(OneFrame) /\ got \in Seq(Byte) /\ S \in Seq(Item) /\ P \in Seq(Item)
      /\ S = got \o Carried(F)
  BY <1>0, <1>1, <1>2, StreamTyped, WantedTyped DEF Stream
<1>5. /\ n \in Nat /\ n <= job.left /\ (job.left # 0 => n # 0) /\ bs \in Seq(Byte)
      /\ \/ /\ job.left > n /\ Queue(c, <<Piece(bs)>>)
            /\ job'.of = {c} /\ job'.step = "chunks" /\ job'.at = job.at + Len(bs)
            /\ job'.left = job.left - n /\ job'.next = job.next
         \/ /\ job.left = n /\ Queue(c, <<Piece(bs)>>) /\ conn[c].q.kind = "filter"
            /\ job'.of = {c} /\ job'.step = "filter" /\ job'.at = job.next
         \/ /\ job.left = n /\ Queue(c, <<Piece(bs), Ended>>)
            /\ conn[c].q.kind # "filter" /\ job' = NoJob
  BY <1>0, SendChunkIs
<1>6. PICK m \in Nat : /\ bs = Between(job.at, job.at + m) /\ Len(bs) = m
                       /\ (m # 0 => job.at + m <= size) /\ m <= n
                       /\ m = IF job.at >= size THEN 0 ELSE Lesser(n, size - job.at)
  BY <1>0, <1>5, BytesAtGives
<1>7. ASSUME NEW frames \in Seq(OneFrame), Queue(c, frames), Carried(frames) = bs,
             Marks(F \o frames, got, P)
      PROVE  /\ conn'[c].q = conn[c].q /\ conn'[c].due = conn[c].due /\ conn'[c].st = "handled"
             /\ Stream(c)' = S \o bs /\ Promised(c)' = P
             /\ Marks(Frames(c), call[c].got, Promised(c))'
             /\ From(c)' = From(c) /\ StoredEnd(c)' = StoredEnd(c)
             /\ \A i \in 1 .. conn[c].due : recs'[i] = recs[i] /\ Wanted(c, i)' = Wanted(c, i)
             /\ \A p \in Nat : \A q \in Nat : q <= StoredEnd(c) => Between(p, q)' = Between(p, q)
             /\ \A p : AtStored(c, p)' = AtStored(c, p)
             /\ \A k \in 0 .. conn[c].due : Passed(c, k)' = Passed(c, k)
             /\ \A k : UpTo(c, k)' = UpTo(c, k)
  <2>1. /\ conn'[c].q = conn[c].q /\ conn'[c].due = conn[c].due /\ conn'[c].st = conn[c].st
        /\ Frames(c)' = F \o frames /\ Stream(c)' = S \o Carried(frames)
    BY <1>7, Queued
  <2>2. Lasting(c)  BY <1>0, <2>1, SameDisk
  <2>3. /\ From(c)' = From(c) /\ StoredEnd(c)' = StoredEnd(c)
        /\ Promised(c)' = Promised(c) /\ Wants(c)' = Wants(c)
        /\ \A i \in 1 .. conn[c].due : recs'[i] = recs[i] /\ Wanted(c, i)' = Wanted(c, i)
        /\ \A p \in Nat : \A q \in Nat : q <= StoredEnd(c) => Between(p, q)' = Between(p, q)
        /\ \A p : AtStored(c, p)' = AtStored(c, p)
        /\ \A k \in 0 .. conn[c].due : Passed(c, k)' = Passed(c, k)
    BY <1>0, <1>1, <2>2, StaysAsked
  <2>4. \A k : UpTo(c, k)' = UpTo(c, k)
    <3> TAKE k
    <3>1. UpTo(c, k)' = Part(Wants(c)', k)  BY DEF UpTo, Part
    <3> QED  BY <2>3, <3>1 DEF UpTo
  <2>5. call'[c].got = got  OBVIOUS
  <2>6. Marks(Frames(c)', call'[c].got, Promised(c)')  BY <1>7, <2>1, <2>3, <2>5
  <2> QED  BY <1>1, <1>7, <2>1, <2>3, <2>4, <2>6
<1>8. bs \in Seq(Item)  BY <1>5, Items
\* It is enough to say what is in the reply now.
<1>9. ASSUME bs = << >> => IsPrefix(P, S),
             job.left = n => IsPrefix(P, S \o bs) \/ conn[c].q.kind = "filter"
      PROVE  \E frames \in Seq(OneFrame) :
               /\ Queue(c, frames) /\ Carried(frames) = bs /\ Marks(F \o frames, got, P)
  <2>1. bs = << >> => IsPrefix(P, got \o Carried(F))  BY <1>4, <1>9
  <2> HIDE DEF bs, n, P, F, got
  <2>2. Marks(F, got, P)  BY <1>3 DEF P, F, got
  <2>3. /\ Marks(F \o <<Piece(bs)>>, got, P)
        /\ IsPrefix(P, (got \o Carried(F)) \o bs) => Marks(F \o <<Piece(bs), Ended>>, got, P)
        /\ <<Piece(bs)>> \in Seq(OneFrame) /\ <<Piece(bs), Ended>> \in Seq(OneFrame)
        /\ Carried(<<Piece(bs)>>) = bs /\ Carried(<<Piece(bs), Ended>>) = bs
    BY <1>4, <1>5, <2>1, <2>2, MarksChunk
  <2>4. CASE Queue(c, <<Piece(bs)>>)  BY <2>3, <2>4
  <2>5. CASE /\ job.left = n /\ Queue(c, <<Piece(bs), Ended>>) /\ conn[c].q.kind # "filter"
    <3>1. IsPrefix(P, (got \o Carried(F)) \o bs)  BY <1>4, <1>9, <2>5
    <3> QED  BY <2>3, <2>5, <3>1
  <2> QED  BY <1>5, <2>4, <2>5
<1>10. ASSUME IsPrefix(P, S \o bs), bs = << >> => IsPrefix(P, S)
       PROVE  Sent(c)'
  <2>1. PICK frames \in Seq(OneFrame) :
          Queue(c, frames) /\ Carried(frames) = bs /\ Marks(F \o frames, got, P)
    BY <1>9, <1>10
  <2>2. /\ conn'[c].q = conn[c].q /\ Stream(c)' = S \o bs /\ Promised(c)' = P
        /\ Marks(Frames(c), call[c].got, Promised(c))'
    BY <1>7, <2>1
  <2>3. Served(c)'  BY <1>10, <2>2 DEF Served
  <2>4. Owes(c)'  BY <1>1, <2>2, <2>3 DEF Owes, Data
  <2> QED  BY <1>1, <2>2, <2>4 DEF Sent
<1>11. CASE Served(c)
  <2>1. IsPrefix(P, S)  BY <1>11 DEF Served
  <2>2. IsPrefix(P, S \o bs)
    <3> HIDE DEF P, S, bs
    <3> QED  BY <1>4, <1>8, <2>1, PrefixGrows
  <2> QED  BY <1>10, <2>1, <2>2
<1>12. CASE FileLeft(c)
  <2>1. PICK b \in Nat, p \in Nat :
          /\ From(c) = b /\ job.at = p /\ b <= p /\ p < StoredEnd(c)
          /\ StoredEnd(c) <= p + job.left /\ S = Between(b, p)
    BY <1>12 DEF FileLeft
  <2>2. PICK e \in Nat : e = StoredEnd(c) /\ e <= size /\ e <= FileEnd  BY <1>0, <1>1, Due
  <2>3. conn[c].q.kind = "file"  BY <1>12 DEF FileLeft
  <2> DEFINE l == job.left
  <2>4. l \in Nat /\ p < e /\ e <= p + l /\ l # 0  BY <1>0, <2>1, <2>2
  <2> HIDE DEF l, n, bs
  <2>5. /\ m # 0 /\ p + m <= size /\ p + m <= FileEnd /\ p + m \in Nat
        /\ p + m < e => m = n /\ n < l /\ e <= (p + m) + (l - n)
    <3>1. p < size /\ n # 0 /\ n \in Nat  BY <1>0, <1>5, <2>2, <2>4 DEF l
    <3>2. m = IF n <= size - p THEN n ELSE size - p  BY <1>0, <1>6, <2>1, <3>1 DEF Lesser
    <3> QED  BY <1>0, <2>2, <2>4, <3>1, <3>2
  <2>6. PICK r \in Nat : r = p + m  BY <2>5
  <2>7. S \o bs = Between(b, r)
    <3>1. bs = Between(p, r)  BY <1>6, <2>1, <2>6
    <3>2. b <= p /\ p <= r /\ r <= FileEnd  BY <2>1, <2>5, <2>6
    <3>3. Between(b, p) \o Between(p, r) = Between(b, r)  BY <1>0, <3>2, BetweenJoined
    <3> QED  BY <2>1, <3>1, <3>3
  <2>8. bs # << >>
    <3>1. Len(bs) # 0  BY <1>6, <2>5
    <3> QED  BY <3>1
  <2>9. CASE e <= r
    <3>1. IsPrefix(P, Between(b, r))  BY <1>0, <1>1, <2>1, <2>2, <2>3, <2>5, <2>6, <2>9, FileDone
    <3> QED  BY <1>10, <2>7, <2>8, <3>1
  <2>10. CASE r < e
    <3>1. m = n /\ n < l /\ e <= r + (l - n)  BY <2>5, <2>6, <2>10
    <3>2. job.left # n  BY <1>5, <2>4, <3>1 DEF l
    <3>3. /\ job'.of = {c} /\ job'.step = "chunks" /\ job'.at = r /\ job'.left = l - n
      BY <1>5, <1>6, <2>1, <2>6, <3>1, <3>2 DEF l
    <3>4. PICK frames \in Seq(OneFrame) :
            Queue(c, frames) /\ Carried(frames) = bs /\ Marks(F \o frames, got, P)
      BY <1>9, <2>8, <3>2
    <3>5. /\ conn'[c].q = conn[c].q /\ conn'[c].st = "handled"
          /\ Stream(c)' = S \o bs /\ Marks(Frames(c), call[c].got, Promised(c))'
          /\ From(c)' = From(c) /\ StoredEnd(c)' = StoredEnd(c)
          /\ \A x \in Nat : \A q \in Nat : q <= StoredEnd(c) => Between(x, q)' = Between(x, q)
      BY <1>7, <3>4
    <3>6. Between(b, r)' = Between(b, r)  BY <2>2, <2>10, <3>5
    <3>7. From(c)' = b /\ b <= r /\ r < StoredEnd(c)' /\ StoredEnd(c)' <= r + job'.left
      BY <2>1, <2>2, <2>6, <2>10, <3>1, <3>3, <3>5
    <3>8. Stream(c)' = Between(b, r)'  BY <2>7, <3>5, <3>6
    <3>9. conn'[c].q.kind = "file"  BY <2>3, <3>5
    <3>10. FileLeft(c)'  BY <3>3, <3>7, <3>8, <3>9 DEF FileLeft
    <3>11. Owes(c)'  BY <3>3, <3>9, <3>10 DEF Owes
    <3> QED  BY <1>1, <3>5, <3>11 DEF Sent
  <2> QED  BY <2>2, <2>6, <2>9, <2>10
<1>13. CASE RecordLeft(c)
  <2>0. PICK j \in 1 .. conn[c].due, b \in Nat, p \in Nat, e \in Nat : RecordFrom(c, j, b, p, e)
    BY <1>13 DEF RecordLeft
  <2>1. /\ recs[j].off = b /\ EndOf(recs[j]) = e /\ job.at = p
        /\ b <= p /\ p < e /\ p + job.left = e /\ Wanted(c, j) = Between(b, e)
        /\ conn[c].q.kind = "record" => From(c) = b
        /\ conn[c].q.kind = "filter" =>
             job.next = e /\ From(c) <= b /\ AtStored(c, From(c)) /\ Passed(c, j)
        /\ S = UpTo(c, j - 1) \o Between(b, p)
    BY <2>0 DEF RecordFrom
  <2>2. e <= StoredEnd(c) /\ e <= size /\ e <= FileEnd /\ StoredEnd(c) \in Nat
        /\ From(c) \in Nat
    BY <1>0, <1>1, <2>1, Due, SMTT(30)
  <2>3. conn[c].q.kind \in {"record", "filter"} /\ j \in 0 .. conn[c].due
    <3>1. conn[c].due \in Nat  BY <1>0, <1>1, Due
    <3> QED  BY <1>13, <3>1 DEF RecordLeft
  <2> DEFINE l == job.left
             U == UpTo(c, j - 1)
  <2>4. l \in Nat /\ p + l = e /\ l # 0  BY <1>0, <2>1
  <2> HIDE DEF l, n, bs
  <2>5. m = n /\ n # 0 /\ n <= l /\ p + n <= e /\ (l = n => p + n = e)
    <3>1. p < size /\ n # 0 /\ n \in Nat /\ n <= l  BY <1>0, <1>5, <2>1, <2>2, <2>4, SMTT(30) DEF l
    <3>2. m = IF n <= size - p THEN n ELSE size - p  BY <1>0, <1>6, <2>1, <3>1 DEF Lesser
    <3>3. n <= size - p  BY <1>0, <2>2, <2>4, <3>1
    <3> QED  BY <2>4, <3>1, <3>2, <3>3
  <2>6. PICK r \in Nat : r = p + n  BY <1>5
  <2>7. bs # << >>
    <3>1. Len(bs) # 0  BY <1>6, <2>5
    <3> QED  BY <3>1
  <2>8. S \o bs = U \o Between(b, r)
    <3>1. bs = Between(p, r)  BY <1>6, <2>1, <2>5, <2>6
    <3>2. b <= p /\ p <= r /\ r <= FileEnd
      <4>1. n \in Nat /\ FileEnd \in Nat  BY <1>0, <1>5
      <4>2. b <= p /\ p + n <= e /\ e <= FileEnd  BY <2>1, <2>2, <2>5
      <4> QED  BY <2>6, <4>1, <4>2
    <3>3. p <= FileEnd  BY <1>0, <2>1, <2>2
    <3>4. Between(b, p) \in Seq(Byte) /\ Between(p, r) \in Seq(Byte)
      BY <1>0, <3>2, <3>3, BetweenTyped
    <3>5. Between(b, p) \in Seq(Item) /\ Between(p, r) \in Seq(Item)  BY <3>4, Items
    <3>6. U \in Seq(Item)
      <4>1. j - 1 \in 0 .. conn[c].due  BY <1>0, <1>1, Due, SMTT(30)
      <4> QED  BY <1>0, <1>1, <4>1, WantedTyped
    <3> DEFINE x == Between(b, p)
               y == Between(p, r)
    <3>7. x \in Seq(Item) /\ y \in Seq(Item) /\ U \in Seq(Item)  BY <3>5, <3>6
    <3>8. x \o y = Between(b, r)  BY <1>0, <3>2, BetweenJoined
    <3>9. S \o bs = (U \o x) \o y  BY <2>1, <3>1
    <3> HIDE DEF x, y, U
    <3>10. (U \o x) \o y = U \o (x \o y)  BY <3>7, ItemsJoined
    <3> QED  BY <3>8, <3>9, <3>10
  <2>9. CASE l # n
    <3>1. /\ job'.of = {c} /\ job'.step = "chunks" /\ job'.at = r /\ job'.left = l - n
          /\ job'.next = job.next
      BY <1>5, <1>6, <2>1, <2>5, <2>6, <2>9 DEF l
    <3>2. PICK frames \in Seq(OneFrame) :
            Queue(c, frames) /\ Carried(frames) = bs /\ Marks(F \o frames, got, P)
      BY <1>9, <2>7, <2>9 DEF l
    <3>3. /\ conn'[c].q = conn[c].q /\ conn'[c].due = conn[c].due /\ conn'[c].st = "handled"
          /\ Stream(c)' = S \o bs /\ Marks(Frames(c), call[c].got, Promised(c))'
          /\ From(c)' = From(c)
          /\ \A i \in 1 .. conn[c].due : recs'[i] = recs[i] /\ Wanted(c, i)' = Wanted(c, i)
          /\ \A x \in Nat : \A q \in Nat : q <= StoredEnd(c) => Between(x, q)' = Between(x, q)
          /\ \A x : AtStored(c, x)' = AtStored(c, x)
          /\ Passed(c, j)' = Passed(c, j)
          /\ \A k : UpTo(c, k)' = UpTo(c, k)
      BY <1>7, <2>3, <3>2
    <3>4. r < e /\ r + (l - n) = e /\ b <= r
      BY <1>5, <2>1, <2>4, <2>5, <2>6, <2>9, SMTT(30)
    <3>5. Between(b, r)' = Between(b, r) /\ Between(b, e)' = Between(b, e)
      BY <2>2, <3>3, <3>4
    <3>6. AtStored(c, From(c))' = AtStored(c, From(c))
      <4>1. PICK x : x = From(c)  OBVIOUS
      <4>2. AtStored(c, From(c))' = AtStored(c, x)'  BY <3>3, <4>1 DEF AtStored
      <4> QED  BY <3>3, <4>1, <4>2
    <3>7. UpTo(c, j - 1)' = U  BY <3>3
    <3>8. Stream(c)' = UpTo(c, j - 1)' \o Between(b, r)'  BY <2>8, <3>3, <3>5, <3>7
    <3>9. Wanted(c, j)' = Between(b, e)'  BY <2>1, <3>3, <3>5
    <3>10. /\ recs'[j].off = b /\ EndOf(recs'[j]) = e /\ job'.at = r /\ r + job'.left = e
           /\ conn'[c].q.kind = "record" => From(c)' = b
           /\ conn'[c].q.kind = "filter" =>
                job'.next = e /\ From(c)' <= b /\ AtStored(c, From(c))' /\ Passed(c, j)'
      BY <2>1, <3>1, <3>3, <3>4, <3>6
    <3>11. RecordFrom(c, j, b, r, e)'  BY <3>4, <3>8, <3>9, <3>10 DEF RecordFrom
    <3>12. RecordLeft(c)'  BY <2>3, <3>1, <3>3, <3>11 DEF RecordLeft
    <3>13. Owes(c)'  BY <2>3, <3>1, <3>3, <3>12 DEF Owes
    <3> QED  BY <1>1, <3>3, <3>13 DEF Sent
  <2>10. CASE l = n
    <3>1. S \o bs = UpTo(c, j)
      <4>1. r = e  BY <2>5, <2>6, <2>10
      <4> QED  BY <1>0, <1>1, <2>1, <2>8, <4>1, UpToGives
    <3>2. UpTo(c, j) \in Seq(Item)
      <4>1. j \in 0 .. conn[c].due  BY <1>0, <1>1, Due
      <4> QED  BY <1>0, <1>1, <4>1, WantedTyped
    <3>3. ASSUME P = UpTo(c, j) PROVE Sent(c)'
      <4>1. IsPrefix(P, S \o bs)  BY <3>1, <3>2, <3>3, PrefixOfSelf
      <4> QED  BY <1>10, <2>7, <4>1
    <3>4. CASE conn[c].q.kind = "record"
      <4>1. P = UpTo(c, j)  BY <1>0, <1>1, <2>1, <3>4, RecordDone
      <4> QED  BY <3>3, <4>1
    <3>5. CASE conn[c].q.kind = "filter"
      <4>1. CASE P = UpTo(c, j)  BY <3>3, <4>1
      <4>2. CASE P # UpTo(c, j)
        <5>1. /\ j + 1 \in 1 .. conn[c].due /\ recs[j + 1].off = e /\ From(c) <= e
              /\ j + 1 - 1 = j
          BY <1>0, <1>1, <2>1, <3>5, <4>2, FilterGoesOn
        <5>2. job'.of = {c} /\ job'.step = "filter" /\ job'.at = e
          BY <1>5, <2>1, <2>10, <3>5 DEF l
        <5>3. PICK frames \in Seq(OneFrame) :
                Queue(c, frames) /\ Carried(frames) = bs /\ Marks(F \o frames, got, P)
          BY <1>9, <2>7, <3>5
        <5>4. /\ conn'[c].q = conn[c].q /\ conn'[c].due = conn[c].due /\ conn'[c].st = "handled"
              /\ Stream(c)' = S \o bs /\ Marks(Frames(c), call[c].got, Promised(c))'
              /\ From(c)' = From(c)
              /\ \A i \in 1 .. conn[c].due : recs'[i] = recs[i] /\ Wanted(c, i)' = Wanted(c, i)
              /\ \A x : AtStored(c, x)' = AtStored(c, x)
              /\ Passed(c, j)' = Passed(c, j)
              /\ \A k : UpTo(c, k)' = UpTo(c, k)
          BY <1>7, <2>3, <5>3
        <5>5. AtStored(c, From(c))'
          <6>1. PICK x : x = From(c)  OBVIOUS
          <6>2. AtStored(c, From(c))' = AtStored(c, x)'  BY <5>4, <6>1 DEF AtStored
          <6> QED  BY <2>1, <3>5, <5>4, <6>1, <6>2
        <5>6. PICK k \in 1 .. conn[c].due : k = j + 1 /\ k - 1 = j  BY <5>1
        <5>7. /\ job'.at = recs'[k].off /\ From(c)' <= job'.at
              /\ Stream(c)' = UpTo(c, k - 1)' /\ Passed(c, k - 1)'
          BY <2>1, <3>1, <3>5, <5>1, <5>2, <5>4, <5>6
        <5>8. FilterLeft(c)'  BY <3>5, <5>2, <5>4, <5>5, <5>7 DEF FilterLeft
        <5>9. Owes(c)'  BY <3>5, <5>2, <5>4, <5>8 DEF Owes
        <5> QED  BY <1>1, <5>4, <5>9 DEF Sent
      <4> QED  BY <4>1, <4>2
    <3> QED  BY <2>3, <3>4, <3>5
  <2> QED  BY <2>9, <2>10
<1> QED  BY <1>3, <1>11, <1>12, <1>13

\* What stays when the connection is left alone and the handler goes on.
LEMMA GoesOn ==
  ASSUME Types, Types', NEW c \in Client, conn[c].due # 0, conn' = conn, call' = call,
         UNCHANGED disk
  PROVE  /\ Frames(c)' = Frames(c) /\ Stream(c)' = Stream(c) /\ Promised(c)' = Promised(c)
         /\ From(c)' = From(c) /\ StoredEnd(c)' = StoredEnd(c)
         /\ Marks(Frames(c), call[c].got, Promised(c))
              => Marks(Frames(c), call[c].got, Promised(c))'
         /\ \A i \in 1 .. conn[c].due : recs'[i] = recs[i] /\ Wanted(c, i)' = Wanted(c, i)
         /\ \A p \in Nat : \A q \in Nat : q <= StoredEnd(c) => Between(p, q)' = Between(p, q)
         /\ \A p : AtStored(c, p)' = AtStored(c, p)
         /\ \A k \in 0 .. conn[c].due : Passed(c, k)' = Passed(c, k)
         /\ \A k : UpTo(c, k)' = UpTo(c, k)
<1>0. Disk /\ Disk' /\ ConnTyped  BY DEF Types
<1>1. Lasting(c)  BY SameDisk
<1>2. /\ From(c)' = From(c) /\ StoredEnd(c)' = StoredEnd(c)
      /\ Promised(c)' = Promised(c) /\ Wants(c)' = Wants(c)
      /\ \A i \in 1 .. conn[c].due : recs'[i] = recs[i] /\ Wanted(c, i)' = Wanted(c, i)
      /\ \A p \in Nat : \A q \in Nat : q <= StoredEnd(c) => Between(p, q)' = Between(p, q)
      /\ \A p : AtStored(c, p)' = AtStored(c, p)
      /\ \A k \in 0 .. conn[c].due : Passed(c, k)' = Passed(c, k)
  BY <1>0, <1>1, StaysAsked
<1>3. \A k : UpTo(c, k)' = UpTo(c, k)
  <2> TAKE k
  <2>1. UpTo(c, k)' = Part(Wants(c)', k)  BY DEF UpTo, Part
  <2> QED  BY <1>2, <2>1 DEF UpTo
<1>4. Frames(c)' = Frames(c)  BY DEF Frames
<1>5. Stream(c)' = Stream(c)  BY <1>4 DEF Stream
<1>6. ASSUME Marks(Frames(c), call[c].got, Promised(c))
      PROVE  Marks(Frames(c), call[c].got, Promised(c))'
  <2>1. Marks(Frames(c)', call'[c].got, Promised(c)')  BY <1>2, <1>4, <1>6
  <2> QED  BY <2>1
<1> QED  BY <1>2, <1>3, <1>4, <1>5, <1>6

\* The next record of a filter.
LEMMA SentFilter ==
  ASSUME Types, Types', AllFormed, NEW c \in Client, Started(c), Sent(c), FilterNext,
         job.of = {c}, call' = call
  PROVE  Sent(c)'
<1>0. /\ Disk /\ ConnTyped /\ CallTyped /\ UNCHANGED disk /\ job.at \in Nat /\ job.upto \in Nat
      /\ job.step = "filter" /\ c \in job.of /\ NoJob.of = {}
  BY WorkLeaves DEF Types, Work, FilterNext, Working, NoJob
<1>1. /\ conn[c].st = "handled" /\ conn[c].due # 0 /\ conn[c].q.kind = "filter"
      /\ StoredEnd(c) <= job.upto /\ ~conn[c].torn /\ ~conn'[c].torn
  <2>1. conn'[c].torn = conn[c].torn  BY WorkKeeps DEF Work
  <2> QED  BY <1>0, <2>1 DEF AllFormed, Formed, Started
<1>2. SUFFICES ASSUME call[c].st # "over" PROVE Sent(c)'  BY DEF Sent
<1>3. /\ Marks(Frames(c), call[c].got, Promised(c)) /\ (Served(c) \/ FilterLeft(c))
  BY <1>0, <1>1, <1>2 DEF Sent, Owes, FileLeft, RecordLeft, Data
<1> DEFINE P   == Promised(c)
           S   == Stream(c)
           F   == Frames(c)
           got == call[c].got
<1>4. /\ F \in Seq(OneFrame) /\ got \in Seq(Byte) /\ S \in Seq(Item) /\ P \in Seq(Item)
      /\ S = got \o Carried(F)
  BY <1>0, <1>1, <1>2, StreamTyped, WantedTyped DEF Stream
<1>5. \/ (job.at = job.upto \/ RecordAt(job.at) = 0) /\ Queue(c, <<Ended>>) /\ job' = NoJob
      \/ conn' = conn /\ job'.of = {c}
  BY FilterNextIs
<1>6. CASE Served(c)
  <2>0. IsPrefix(P, S)  BY <1>6 DEF Served
  <2>1. CASE Queue(c, <<Ended>>) /\ job' = NoJob
    <3>1. Ended \in OneFrame /\ Ended.t = "last" /\ BytesOf(Ended) = << >>
      BY FrameShapes DEF Ended, BytesOf
    <3>2. <<Ended>> \in Seq(OneFrame) /\ Carried(<<Ended>>) = << >>  BY <3>1, CarriedOne
    <3>3. /\ conn'[c].q = conn[c].q /\ conn'[c].due = conn[c].due
          /\ Frames(c)' = F \o <<Ended>> /\ Stream(c)' = S \o << >>
      BY <2>1, <3>2, Queued
    <3>4. Stream(c)' = S
      <4> HIDE DEF S
      <4> QED  BY <1>4, <3>3, ConcatEmptySeq
    <3>5. Promised(c)' = P
      <4>1. Lasting(c)  BY <1>0, <3>3, SameDisk
      <4> QED  BY <1>0, <1>1, <4>1, StaysAsked DEF Types
    <3>6. Marks(F \o <<Ended>>, got, P)
      <4>1. IsPrefix(P, got \o Carried(F))  BY <1>4, <2>0
      <4>2. Ended.t # "page" /\ Ended.t # "body" /\ Marks(F, got, P)  BY <1>3, <3>1
      <4> HIDE DEF F, got, P
      <4> QED  BY <1>4, <3>1, <4>1, <4>2, MarksMore
    <3>7. Marks(Frames(c)', call'[c].got, Promised(c)')  BY <3>3, <3>5, <3>6
    <3>8. Served(c)'  BY <2>0, <3>4, <3>5 DEF Served
    <3>9. c \notin job'.of /\ conn'[c].q.kind = "filter"  BY <1>0, <1>1, <2>1, <3>3
    <3>10. Owes(c)'  BY <3>8, <3>9 DEF Owes
    <3> QED  BY <1>1, <3>7, <3>10 DEF Sent
  <2>2. CASE conn' = conn /\ job'.of = {c}
    <3>1. /\ Stream(c)' = S /\ Promised(c)' = P /\ Marks(Frames(c), call[c].got, Promised(c))'
      BY <1>0, <1>1, <1>3, <2>2, GoesOn
    <3>2. Served(c)'  BY <2>0, <3>1 DEF Served
    <3>3. Owes(c)'  BY <1>1, <2>2, <3>2 DEF Owes
    <3> QED  BY <1>1, <3>1, <3>3 DEF Sent
  <2> QED  BY <1>5, <2>1, <2>2
<1>7. CASE FilterLeft(c)
  <2>1. PICK j \in 1 .. conn[c].due :
          /\ job.at = recs[j].off /\ From(c) <= job.at
          /\ S = UpTo(c, j - 1) /\ Passed(c, j - 1)
    BY <1>7 DEF FilterLeft
  <2>2. AtStored(c, From(c))  BY <1>7 DEF FilterLeft
  <2>3. PICK b \in Nat, e \in Nat :
          /\ recs[j].off = b /\ EndOf(recs[j]) = e /\ b < e /\ e <= StoredEnd(c)
          /\ StoredEnd(c) \in Nat /\ j \in 1 .. acked
    BY <1>0, <1>1, Due
  <2>19. conn[c].due \in Nat  BY <1>0, <1>1, Due
  <2>20. j \in 0 .. conn[c].due /\ j - 1 \in 0 .. conn[c].due  BY <2>19
  <2>16. CASE recs[j].empty
    <3>1. P = UpTo(c, j - 1)  BY <1>0, <1>1, <2>1, <2>16, EmptyEnds
    <3>2. IsPrefix(P, P)
      <4> HIDE DEF P
      <4> QED  BY <1>4, PrefixOfSelf
    <3>3. Served(c)  BY <2>1, <3>1, <3>2 DEF Served
    <3> QED  BY <1>6, <3>3
  <2>17. SUFFICES ASSUME ~recs[j].empty PROVE Sent(c)'  BY <2>16
  <2>4. RecordAt(job.at) = j  BY <1>0, <2>1, <2>3, <2>17, StoredGiven
  <2>18. Passed(c, j)
    <3>1. \A k \in 1 .. j : k \in 1 .. j - 1 \/ k = j  BY <2>3
    <3> QED  BY <2>1, <2>17, <3>1 DEF Passed
  <2>5. job.at # job.upto /\ j # 0  BY <1>0, <1>1, <2>1, <2>3
  <2>6. /\ conn' = conn /\ job'.of = {c}
        /\ IF recs[j].hit
             THEN /\ job'.step = "chunks" /\ job'.at = job.at
                  /\ job'.left = recs[j].len /\ job'.next = job.at + recs[j].len
             ELSE job'.step = "filter" /\ job'.at = job.at + recs[j].len /\ job'.left = job.left
    BY <2>4, <2>5, FilterNextIs
  <2>7. job.at = b /\ job.at + recs[j].len = e  BY <2>1, <2>3 DEF EndOf
  <2>8. /\ Stream(c)' = S /\ Promised(c)' = P /\ Marks(Frames(c), call[c].got, Promised(c))'
        /\ From(c)' = From(c)
        /\ \A i \in 1 .. conn[c].due : recs'[i] = recs[i] /\ Wanted(c, i)' = Wanted(c, i)
        /\ \A p \in Nat : \A q \in Nat : q <= StoredEnd(c) => Between(p, q)' = Between(p, q)
        /\ \A p : AtStored(c, p)' = AtStored(c, p)
        /\ Passed(c, j)' /\ \A k : UpTo(c, k)' = UpTo(c, k)
    BY <1>0, <1>1, <1>3, <2>3, <2>6, <2>18, <2>20, GoesOn
  <2>9. AtStored(c, From(c))'
    <3>1. PICK x : x = From(c)  OBVIOUS
    <3>2. AtStored(c, From(c))' = AtStored(c, x)'  BY <2>8, <3>1 DEF AtStored
    <3> QED  BY <2>2, <2>8, <3>1, <3>2
  <2>11. recs[j].off >= conn[c].q.from  BY <1>0, <1>1, <2>1, Due DEF From
  <2>12. UpTo(c, j - 1) \in Seq(Item) /\ UpTo(c, j) \in Seq(Item)
         /\ UpTo(c, j) = UpTo(c, j - 1) \o Wanted(c, j)
    <3>1. j - 1 \in 0 .. conn[c].due /\ j \in 0 .. conn[c].due  BY <1>0, <1>1, Due
    <3> QED  BY <1>0, <1>1, <3>1, WantedTyped, UpToGives
  <2> DEFINE U == UpTo(c, j - 1)
  <2>13. U \o << >> = U
    <3> HIDE DEF U
    <3> QED  BY <2>12, ConcatEmptySeq DEF U
  <2>14. CASE recs[j].hit
    <3>1. Wanted(c, j) = Between(b, e)
      <4>1. Reached(c, j)  BY <2>2, <2>18 DEF Reached, Passed, AtStored
      <4> QED  BY <1>1, <2>3, <2>11, <2>14, <4>1 DEF Wanted
    <3>2. Between(b, b)' = << >>
      <4>1. b <= StoredEnd(c)  BY <2>3
      <4> QED  BY <2>3, <2>8, <4>1, BetweenNone
    <3>3. Between(b, e)' = Between(b, e)  BY <2>3, <2>8
    <3>4. Wanted(c, j)' = Between(b, e)'  BY <2>8, <3>1, <3>3
    <3>5. Stream(c)' = UpTo(c, j - 1)' \o Between(b, b)'
      <4>1. UpTo(c, j - 1)' = U  BY <2>8
      <4> QED  BY <2>1, <2>8, <2>13, <3>2, <4>1
    <3>6. b + recs[j].len = e  BY <2>7
    <3>7. /\ recs'[j].off = b /\ EndOf(recs'[j]) = e /\ job'.at = b /\ b <= b /\ b < e
          /\ b + job'.left = e /\ job'.next = e /\ From(c)' <= b
          /\ conn'[c].q.kind = "filter"
      BY <1>1, <2>1, <2>3, <2>6, <2>7, <2>8, <2>14, <3>6
    <3>8. RecordFrom(c, j, b, b, e)'  BY <2>8, <2>9, <3>4, <3>5, <3>7 DEF RecordFrom
    <3>9. RecordLeft(c)'  BY <1>1, <2>6, <2>14, <3>8 DEF RecordLeft
    <3>10. Owes(c)'  BY <1>1, <2>6, <3>9 DEF Owes
    <3> QED  BY <1>1, <2>8, <3>10 DEF Sent
  <2>15. CASE ~recs[j].hit
    <3>1. Wanted(c, j) = << >>  BY <1>1, <2>15 DEF Wanted
    <3>2. S = UpTo(c, j)  BY <2>1, <2>12, <2>13, <3>1
    <3>3. CASE P = UpTo(c, j)
      <4>1. IsPrefix(P, S)  BY <2>12, <3>2, <3>3, PrefixOfSelf
      <4>2. Served(c)'  BY <2>8, <4>1 DEF Served
      <4>3. Owes(c)'  BY <1>1, <2>6, <4>2 DEF Owes
      <4> QED  BY <1>1, <2>8, <4>3 DEF Sent
    <3>4. CASE P # UpTo(c, j)
      <4>1. /\ j + 1 \in 1 .. conn[c].due /\ recs[j + 1].off = e /\ From(c) <= e
            /\ j + 1 - 1 = j
        BY <1>0, <1>1, <2>1, <2>3, <3>4, FilterGoesOn
      <4>2. PICK k \in 1 .. conn[c].due : k = j + 1 /\ k - 1 = j  BY <4>1
      <4>3. /\ job'.at = recs'[k].off /\ From(c)' <= job'.at
            /\ Stream(c)' = UpTo(c, k - 1)' /\ Passed(c, k - 1)'
        BY <2>6, <2>7, <2>8, <2>15, <3>2, <4>1, <4>2
      <4>4. FilterLeft(c)'  BY <1>1, <2>6, <2>9, <2>15, <4>3 DEF FilterLeft
      <4>5. Owes(c)'  BY <1>1, <2>6, <4>4 DEF Owes
      <4> QED  BY <1>1, <2>8, <4>5 DEF Sent
    <3> QED  BY <3>3, <3>4
  <2> QED  BY <2>14, <2>15
<1> QED  BY <1>3, <1>6, <1>7

\* The next record of a list.
LEMMA SentList ==
  ASSUME Types, Types', AllFormed, NEW c \in Client, Started(c), Sent(c), ListNext,
         job.of = {c}, call' = call
  PROVE  Sent(c)'
<1>0. /\ Disk /\ ConnTyped /\ CallTyped /\ UNCHANGED disk /\ job.at \in Nat /\ job.upto \in Nat
      /\ job.step = "list" /\ c \in job.of /\ NoJob.of = {} /\ job.list \in Seq(Nat)
      /\ job.list \in ShortList /\ Len(job.list) \in Nat
  BY WorkLeaves, ListShort DEF Types, Work, ListNext, Working, NoJob
<1>1. /\ conn[c].st = "handled" /\ conn[c].due # 0 /\ conn[c].q.kind = "list"
      /\ StoredEnd(c) <= job.upto /\ conn[c].q.kind \notin Data
      /\ ~conn[c].torn /\ ~conn'[c].torn
  <2>1. conn'[c].torn = conn[c].torn  BY WorkKeeps DEF Work
  <2> QED  BY <1>0, <2>1 DEF AllFormed, Formed, Started, Data
<1>2. SUFFICES ASSUME call[c].st # "over" PROVE Sent(c)'  BY DEF Sent
<1>3. Marks(Frames(c), call[c].got, Promised(c)) /\ ListLeft(c)
  BY <1>0, <1>1, <1>2 DEF Sent, Owes
<1>4. Frames(c) = << >>
  BY <1>0, <1>1, <1>2 DEF AllFormed, Formed, Form
<1> DEFINE P    == Promised(c)
           got  == call[c].got
           list == job.list
           h    == Begun(Len(list))
           b    == Body(list)
<1>5. got \in Seq(Byte) /\ P \in Seq(Item)  BY <1>0, <1>1, <1>2, StreamTyped, WantedTyped
<1>6. /\ h \in OneFrame /\ h.t = "head" /\ b \in OneFrame /\ b.t = "body" /\ b.ids = list
      /\ Error \in OneFrame /\ Error.t = "error"
  BY <1>0, FrameShapes DEF Begun, Body, Error
<1>7. StoredEnd(c) \in Nat /\ From(c) \in Nat
      /\ \A i \in 1 .. conn[c].due :
           /\ i \in 1 .. acked /\ recs[i].off \in Nat /\ EndOf(recs[i]) \in Nat
           /\ recs[i].off < EndOf(recs[i]) /\ EndOf(recs[i]) <= StoredEnd(c) /\ recs[i].id \in Nat
  BY <1>0, <1>1, Due
\* The reply is complete.
<1>8. ASSUME NEW frames \in Seq(OneFrame), Queue(c, frames), job' = NoJob, Marks(frames, got, P)
      PROVE  Sent(c)'
  <2>1. /\ conn'[c].q = conn[c].q /\ conn'[c].due = conn[c].due
        /\ Frames(c)' = << >> \o frames
    BY <1>4, <1>8, Queued
  <2>2. << >> \o frames = frames  OBVIOUS
  <2>3. Promised(c)' = P
    <3>1. Lasting(c)  BY <1>0, <2>1, SameDisk
    <3> QED  BY <1>0, <1>1, <3>1, StaysAsked DEF Types
  <2>4. Marks(Frames(c)', call'[c].got, Promised(c)')  BY <1>8, <2>1, <2>2, <2>3
  <2>5. Owes(c)'  BY <1>0, <1>1, <1>8, <2>1 DEF Owes
  <2> QED  BY <1>1, <2>4, <2>5 DEF Sent
<1>9. CASE job.at = job.upto /\ Queue(c, <<h, b>>) /\ job' = NoJob
  <2>1. IsPrefix(P, list)
    <3>1. ~ (job.at < StoredEnd(c))  BY <1>0, <1>1, <1>7, <1>9
    <3>2. ~ \E j \in 1 .. conn[c].due : job.at = recs[j].off  BY <1>0, <1>7, <3>1
    <3> QED  BY <1>3, <3>1, <3>2 DEF ListLeft
  <2> HIDE DEF h, b, got, P
  <2>2. Marks(<<h>>, got, P)  BY <1>5, <1>6, MarksOne DEF Ending
  <2>3. <<h>> \in Seq(OneFrame) /\ <<h, b>> \in Seq(OneFrame)  BY <1>6
  <2>4. Marks(<<h>> \o <<b>>, got, P)  BY <1>6, <2>1, <2>2, <2>3, MarksMore DEF Ending
  <2>5. <<h>> \o <<b>> = <<h, b>>  BY <1>6, PairJoined
  <2> QED  BY <1>8, <1>9, <2>3, <2>4, <2>5
<1>10. CASE Queue(c, <<Error>> \o <<h, b>>) /\ job' = NoJob
  <2> HIDE DEF h, b, got, P
  <2>1. Marks(<<Error>>, got, P)  BY <1>5, <1>6, MarksOne DEF Ending
  <2>2. /\ <<Error>> \in Seq(OneFrame) /\ <<h>> \in Seq(OneFrame) /\ <<b>> \in Seq(OneFrame)
        /\ <<h, b>> \in Seq(OneFrame)
    BY <1>6
  <2> DEFINE E == <<Error>> \o <<h>>
  <2>3. Marks(E, got, P)  BY <1>6, <2>1, <2>2, MarksMore DEF Ending
  <2>4. E \in Seq(OneFrame) /\ E # << >> /\ E[1] = Error
    <3>1. E = <<Error, h>>  BY <1>6, PairJoined
    <3> QED  BY <1>6, <3>1
  <2> HIDE DEF E
  <2>5. Marks(E \o <<b>>, got, P)  BY <1>6, <2>3, <2>4, MarksMore DEF Ending
  <2>6. E \o <<b>> = <<Error>> \o <<h, b>>
    <3>1. (<<Error>> \o <<h>>) \o <<b>> = <<Error>> \o (<<h>> \o <<b>>)  BY <2>2, Joined
    <3>2. <<h>> \o <<b>> = <<h, b>>  BY <1>6, PairJoined
    <3> QED  BY <3>1, <3>2 DEF E
  <2>7. <<Error>> \o <<h, b>> \in Seq(OneFrame)  BY <2>2
  <2> QED  BY <1>8, <1>10, <2>5, <2>6, <2>7
<1>11. ASSUME job.at # job.upto, RecordAt(job.at) # 0, conn' = conn, job'.of = {c},
              job'.at = EndOf(recs[RecordAt(job.at)]),
              job'.list = Append(list, recs[RecordAt(job.at)].id)
       PROVE  Sent(c)'
  <2>1. PICK i : i = RecordAt(job.at)  OBVIOUS
  <2>2. /\ i \in 1 .. Len(recs) /\ recs[i].off = job.at /\ recs[i].id \in Nat
    BY <1>0, <1>11, <2>1, RecordAtGives
  <2>3. /\ Promised(c)' = P /\ Marks(Frames(c), call[c].got, Promised(c))'
        /\ From(c)' = From(c) /\ StoredEnd(c)' = StoredEnd(c)
        /\ \A k \in 1 .. conn[c].due : recs'[k] = recs[k]
        /\ \A p : AtStored(c, p)' = AtStored(c, p)
        /\ \A k : UpTo(c, k)' = UpTo(c, k)
    BY <1>0, <1>1, <1>3, <1>11, GoesOn
  <2>4. job'.at = EndOf(recs[i]) /\ job'.list = list \o <<recs[i].id>>
    <3>1. Append(list, recs[i].id) = list \o <<recs[i].id>>
      <4> HIDE DEF list
      <4> QED  BY <1>0, <2>2, AppendIsConcat, ZenonT(60) DEF list
    <3> QED  BY <1>11, <2>1, <3>1
  <2>5. SUFFICES ListLeft(c)'
    <3>1. ListLeft(c)' => Owes(c)'  BY <1>1, <1>11 DEF Owes
    <3> QED  BY <1>1, <2>3, <3>1 DEF Sent
  <2>6. CASE IsPrefix(P, list)
    <3>1. list \in Seq(Item) /\ <<recs[i].id>> \in Seq(Item)
      <4>1. <<recs[i].id>> \in Seq(Nat)  BY <2>2
      <4> QED  BY <1>0, <4>1, Items
    <3> DEFINE x == <<recs[i].id>>
    <3>2. IsPrefix(P, list \o x)
      <4> HIDE DEF x, P, list
      <4> QED  BY <1>5, <2>6, <3>1, PrefixGrows DEF x
    <3> QED  BY <2>3, <2>4, <3>2 DEF ListLeft
  <2>7. CASE job.at < StoredEnd(c) /\ ~AtStored(c, job.at)
    <3>0. /\ Chained(recs) /\ Len(recs) \in Nat /\ conn[c].due \in 1 .. Len(recs)
      BY <1>0, <1>1, Due, DiskNumbers DEF Disk
    <3>1. i \notin 1 .. conn[c].due  BY <2>2, <2>7 DEF AtStored
    <3>2. i \in conn[c].due + 1 .. Len(recs)  BY <2>2, <3>0, <3>1
    <3>3. EndOf(recs[conn[c].due]) <= recs[i].off  BY <3>0, <3>2, Later
    <3>4. StoredEnd(c) <= job.at  BY <2>2, <3>3 DEF StoredEnd
    <3> QED  BY <1>0, <1>7, <2>7, <3>4
  <2>8. ASSUME NEW j \in 1 .. conn[c].due,
               job.at = recs[j].off, From(c) <= job.at, list = UpTo(c, j - 1)
        PROVE  ListLeft(c)'
    <3>1. i = j
      <4>1. i = IF recs[j].empty THEN 0 ELSE j  BY <1>0, <1>7, <2>1, <2>8, StoredGiven
      <4> QED  BY <1>11, <2>1, <4>1
    <3>2. Wanted(c, j) = <<recs[j].id>>
      <4>1. recs[j].off >= conn[c].q.from  BY <1>0, <1>7, <2>8 DEF From
      <4> QED  BY <1>1, <4>1 DEF Wanted
    <3>3. UpTo(c, j) = UpTo(c, j - 1) \o Wanted(c, j)  BY <1>0, <1>1, UpToGives
    <3>4. job'.list = UpTo(c, j) /\ job'.at = EndOf(recs[j])
      BY <2>4, <2>8, <3>1, <3>2, <3>3
    <3>5. CASE P = UpTo(c, j)
      <4>1. IsPrefix(P, job'.list)  BY <1>5, <3>4, <3>5, PrefixOfSelf
      <4> QED  BY <2>3, <4>1 DEF ListLeft
    <3>6. CASE P # UpTo(c, j)
      <4>1. /\ j + 1 \in 1 .. conn[c].due /\ recs[j + 1].off = EndOf(recs[j])
            /\ From(c) <= recs[j + 1].off /\ j + 1 - 1 = j
        BY <1>0, <1>1, <2>8, <3>6, FilterGoesOn
      <4>2. PICK k \in 1 .. conn[c].due : k = j + 1 /\ k - 1 = j  BY <4>1
      <4>3. /\ job'.at = recs'[k].off /\ From(c)' <= job'.at
            /\ job'.list = UpTo(c, k - 1)'
        BY <2>3, <3>4, <4>1, <4>2
      <4> QED  BY <1>11, <4>3 DEF ListLeft
    <3> QED  BY <3>5, <3>6
  <2> QED  BY <1>3, <2>6, <2>7, <2>8 DEF ListLeft
<1>12. \/ job.at = job.upto /\ Queue(c, <<h, b>>) /\ job' = NoJob
       \/ Queue(c, <<Error>> \o <<h, b>>) /\ job' = NoJob
       \/ /\ job.at # job.upto /\ RecordAt(job.at) # 0 /\ conn' = conn /\ job'.of = {c}
          /\ job'.at = EndOf(recs[RecordAt(job.at)])
          /\ job'.list = Append(list, recs[RecordAt(job.at)].id)
  BY ListNextIs
<1> QED  BY <1>9, <1>10, <1>11, <1>12

\* The loop writes what is queued.
LEMMA SentWrite ==
  ASSUME Types, Types', AllFormed, NEW c \in Client, Started(c), Sent(c), Write(c), call' = call
  PROVE  Sent(c)'
<1>1. /\ conn'[c].q = conn[c].q /\ conn'[c].st = conn[c].st /\ conn'[c].due = conn[c].due
      /\ job' = job /\ job.of = {} /\ UNCHANGED <<disk, exit>> /\ conn'[c].torn = conn[c].torn
      /\ ~conn[c].gone => Frames(c)' = Frames(c) /\ Stream(c)' = Stream(c)
  BY Delivered
<1>2. SUFFICES ASSUME conn[c].st = "handled", call[c].st # "over"
               PROVE  Sent(c)'
  BY <1>1 DEF Sent
<1>3. ~conn[c].gone  BY <1>2 DEF AllFormed, Formed
<1>4. Promised(c)' = Promised(c)
  <2>1. Lasting(c)  BY <1>1, SameDisk DEF disk
  <2> QED  BY <1>2, <2>1, StaysAsked DEF Started, Types
<1>8. CASE conn[c].torn
  <2>1. Halved(c)  BY <1>2, <1>8 DEF Sent
  <2>2. Halved(c)'  BY <1>1, <1>3, <1>4, <2>1 DEF Halved, Served
  <2> QED  BY <1>1, <1>8, <2>2 DEF Sent
<1>9. SUFFICES ASSUME ~conn[c].torn
               PROVE  Marks(Frames(c), call[c].got, Promised(c))' /\ Owes(c)'
  BY <1>1, <1>8 DEF Sent
<1>5. Marks(Frames(c), call[c].got, Promised(c)) /\ Owes(c)  BY <1>2, <1>9 DEF Sent
<1>6. Marks(Frames(c)', call'[c].got, Promised(c)')  BY <1>1, <1>3, <1>4, <1>5
<1>7. Owes(c)'
  <2>1. Served(c)' = Served(c)  BY <1>1, <1>3, <1>4 DEF Served
  <2>2. Has(c, "error")' = Has(c, "error")  BY <1>1, <1>3 DEF Has
  <2> QED  BY <1>1, <1>5, <2>1, <2>2 DEF Owes
<1> QED  BY <1>6, <1>7

\* A client goes on.
LEMMA SentClient ==
  ASSUME Types, Types', AllFormed, NEW c \in Client, Started(c), Sent(c), ClientStep(c)
  PROVE  Sent(c)'
<1>0. Disk /\ Disk' /\ ConnTyped /\ CallTyped  BY DEF Types
<1>1. CASE Ask(c)
  <2>1. conn'[c].st = "asked"  BY <1>1, AskGives
  <2> QED  BY <2>1 DEF Sent
<1>2. CASE (ClientReads(c) \/ Timeout(c) \/ AskRefused(c)) /\ ~ (ReadHead(c) \/ ReadChunk(c))
  <2>1. call'[c].st = "over"  BY <1>2, CallGives
  <2> QED  BY <2>1 DEF Sent
<1>3. CASE ReadHead(c) \/ ReadChunk(c)
  <2> DEFINE F   == Frames(c)
             got == call[c].got
             P   == Promised(c)
  <2>1. /\ UNCHANGED <<disk, exit, job>>
        /\ conn'[c].q = conn[c].q /\ conn'[c].st = conn[c].st /\ conn'[c].due = conn[c].due
        /\ conn[c].st = "handled" /\ call[c].st # "over"
        /\ F # << >> /\ F[1].t \in {"head", "chunk"}
        /\ Frames(c)' = Tail(F) /\ call'[c].got = got \o BytesOf(F[1])
        /\ Stream(c)' = Stream(c) /\ conn'[c].torn = conn[c].torn
    BY <1>3, Taken
  <2>9. conn[c].due # 0  BY <2>1 DEF Started
  <2>3. Lasting(c)  BY <2>1, SameDisk DEF disk
  <2>4. Promised(c)' = P  BY <1>0, <2>3, <2>9, StaysAsked
  <2>10. CASE conn[c].torn
    <3>1. Halved(c)  BY <2>1, <2>10 DEF Sent
    <3>2. Halved(c)'  BY <2>1, <2>4, <3>1 DEF Halved, Served
    <3> QED  BY <2>1, <2>10, <3>2 DEF Sent
  <2>11. SUFFICES ASSUME ~conn[c].torn PROVE Sent(c)'  BY <2>10
  <2>2. conn[c].due # 0 /\ Marks(F, got, P) /\ Owes(c)  BY <2>1, <2>9, <2>11 DEF Sent
  <2>5. F \in Seq(OneFrame) /\ got \in Seq(Byte)  BY <1>0, <2>1, StreamTyped
  <2>6. Marks(Tail(F), got \o BytesOf(F[1]), P)
    <3> HIDE DEF F, got, P
    <3> QED  BY <2>1, <2>2, <2>5, MarksTail
  <2>7. Marks(Frames(c)', call'[c].got, Promised(c)')  BY <2>1, <2>4, <2>6
  <2>8. Owes(c)'
    <3>1. CASE c \in job.of
      <4>1. /\ Served(c) => Served(c)'
            /\ FileLeft(c) => FileLeft(c)'
            /\ RecordLeft(c) => RecordLeft(c)'
            /\ FilterLeft(c) => FilterLeft(c)'
            /\ ListLeft(c) => ListLeft(c)'
        BY <1>0, <2>1, <2>2, <2>3, LeftStays
      <4> QED  BY <2>1, <2>2, <3>1, <4>1 DEF Owes
    <3>2. CASE c \notin job.of
      <4>1. Served(c)' = Served(c)  BY <2>1, <2>4 DEF Served
      <4>2. Has(c, "error") => Has(c, "error")'
        <5> SUFFICES ASSUME NEW k \in 1 .. Len(F), F[k].t = "error"
                     PROVE  Has(c, "error")'
          BY DEF Has
        <5> HIDE DEF F
        <5>1. k # 1  BY <2>1
        <5>2. Len(F) \in Nat /\ k - 1 \in 1 .. Len(F) - 1  BY <2>5, <5>1
        <5>3. Len(Tail(F)) = Len(F) - 1 /\ \A i \in 1 .. Len(F) - 1 : Tail(F)[i] = F[i + 1]
          BY <2>1, <2>5, HeadTailProperties
        <5>4. Tail(F)[k - 1] = F[k]  BY <5>2, <5>3
        <5>5. PICK i : i = k - 1  OBVIOUS
        <5>6. i \in 1 .. Len(Tail(F)) /\ Tail(F)[i].t = "error"  BY <5>2, <5>3, <5>4, <5>5
        <5> QED  BY <2>1, <5>6 DEF Has
      <4> QED  BY <2>1, <2>2, <3>2, <4>1, <4>2 DEF Owes
    <3> QED  BY <3>1, <3>2
  <2> QED  BY <2>1, <2>7, <2>8, <2>11 DEF Sent
<1> QED  BY <1>1, <1>2, <1>3 DEF ClientStep

\* A part of what was promised is its beginning.
LEMMA LeftBegins ==
  ASSUME Types, NEW c \in Client, conn[c].due # 0, FileLeft(c) \/ RecordLeft(c) \/ FilterLeft(c)
  PROVE  IsPrefix(Stream(c), Promised(c))
<1>0. Disk /\ ConnTyped /\ FileEnd \in Nat  BY DiskNumbers DEF Types, FileEnd
<1>1. conn[c].due \in Nat /\ StoredEnd(c) \in Nat /\ StoredEnd(c) <= FileEnd  BY <1>0, Due
<1>2. CASE FileLeft(c)
  <2>1. PICK b \in Nat, p \in Nat :
          From(c) = b /\ b <= p /\ p < StoredEnd(c) /\ Stream(c) = Between(b, p)
    BY <1>2 DEF FileLeft
  <2>2. PICK e \in Nat : e = StoredEnd(c) /\ p <= e /\ e <= FileEnd  BY <1>1, <2>1
  <2>3. Promised(c) = Between(b, e)
    BY <1>0, <1>2, <2>1, <2>2, WantedTyped DEF FileLeft
  <2>4. p <= FileEnd  BY <1>0, <2>1, <2>2
  <2>5. Between(b, p) \in Seq(Byte) /\ Between(p, e) \in Seq(Byte)
    BY <1>0, <2>2, <2>4, BetweenTyped
  <2>6. Between(b, p) \o Between(p, e) = Between(b, e)  BY <1>0, <2>1, <2>2, BetweenJoined
  <2>7. IsPrefix(Between(b, p), Between(b, p))  BY <2>5, PrefixOfSelf
  <2>8. IsPrefix(Between(b, p), Between(b, p) \o Between(p, e))  BY <2>5, <2>7, PrefixGrows
  <2> QED  BY <2>1, <2>3, <2>6, <2>8
<1>3. CASE RecordLeft(c)
  <2>1. PICK j \in 1 .. conn[c].due, b \in Nat, p \in Nat, e \in Nat : RecordFrom(c, j, b, p, e)
    BY <1>3 DEF RecordLeft
  <2>2. /\ EndOf(recs[j]) = e /\ b <= p /\ p < e /\ Wanted(c, j) = Between(b, e)
        /\ Stream(c) = UpTo(c, j - 1) \o Between(b, p)
    BY <2>1 DEF RecordFrom
  <2>3. e <= FileEnd /\ p <= FileEnd
    <3>1. e <= StoredEnd(c)  BY <1>0, <2>2, Due
    <3> QED  BY <1>0, <1>1, <2>2, <3>1
  <2>4. Between(b, p) \in Seq(Byte) /\ Between(p, e) \in Seq(Byte)
    BY <1>0, <2>3, BetweenTyped
  <2>5. Between(b, p) \o Between(p, e) = Between(b, e)
    <3>1. b <= p /\ p <= e /\ e <= FileEnd  BY <2>2, <2>3
    <3> QED  BY <1>0, <3>1, BetweenJoined
  <2>6. IsPrefix(Between(b, p), Between(b, p))  BY <2>4, PrefixOfSelf
  <2>7. IsPrefix(Between(b, p), Between(b, e))  BY <2>4, <2>5, <2>6, PrefixGrows
  <2>8. j - 1 \in 0 .. conn[c].due /\ j \in 0 .. conn[c].due
        /\ conn[c].due \in j .. conn[c].due
    BY <1>1
  <2>9. UpTo(c, j - 1) \in Seq(Item) /\ UpTo(c, j) \in Seq(Item) /\ Promised(c) \in Seq(Item)
    BY <1>0, <2>8, WantedTyped
  <2>10. Between(b, p) \in Seq(Item) /\ Between(b, e) \in Seq(Item)
    <3>1. Between(b, e) \in Seq(Byte)  BY <1>0, <2>3, BetweenTyped
    <3> QED  BY <2>4, <3>1, Items
  <2>11. UpTo(c, j) = UpTo(c, j - 1) \o Between(b, e)  BY <1>0, <2>2, UpToGives
  <2> DEFINE U == UpTo(c, j - 1)
             x == Between(b, p)
             y == Between(b, e)
  <2>12. IsPrefix(U \o x, U \o y)
    <3> HIDE DEF U, x, y
    <3> QED  BY <2>7, <2>9, <2>10, PrefixAfter DEF U, x, y
  <2>13. Promised(c) = UpTo(c, conn[c].due)
    BY <1>0, <1>3, WantedTyped DEF RecordLeft
  <2>14. IsPrefix(UpTo(c, j), UpTo(c, conn[c].due))  BY <1>0, <2>8, UpToGives
  <2>15. U \o x \in Seq(Item)
    <3> HIDE DEF U, x
    <3> QED  BY <2>9, <2>10 DEF U, x
  <2>16. IsPrefix(Stream(c), UpTo(c, j)) /\ Stream(c) \in Seq(Item)
    BY <2>2, <2>11, <2>12, <2>15
  <2>17. IsPrefix(UpTo(c, j), Promised(c))  BY <2>13, <2>14
  <2> QED  BY <2>9, <2>16, <2>17, PrefixChain
<1>4. CASE FilterLeft(c)
  <2>1. PICK j \in 1 .. conn[c].due : Stream(c) = UpTo(c, j - 1)  BY <1>4 DEF FilterLeft
  <2>2. j - 1 \in 0 .. conn[c].due /\ conn[c].due \in j - 1 .. conn[c].due  BY <1>1
  <2>3. Promised(c) = UpTo(c, conn[c].due)  BY <1>0, <1>4, WantedTyped DEF FilterLeft
  <2> QED  BY <1>0, <2>1, <2>2, <2>3, UpToGives
<1> QED  BY <1>2, <1>3, <1>4

\* A read fails: what was sent until then is the beginning of what was promised.
LEMMA SentFault ==
  ASSUME Types, Types', AllFormed, NEW c \in Client, Started(c), Sent(c), Fault(c), call' = call
  PROVE  Sent(c)'
<1>0. Disk /\ Disk' /\ ConnTyped  BY DEF Types
<1>1. /\ UNCHANGED disk /\ conn'[c].q = conn[c].q /\ conn'[c].torn /\ ~conn[c].torn
      /\ \/ /\ c \in job.of /\ conn[c].st = "handled" /\ conn'[c].due = conn[c].due
            /\ conn[c].q.kind # "list" => Stream(c)' = Stream(c)
         \/ Stream(c)' = << >> /\ conn'[c].due = acked
  BY FaultGives
<1>2. SUFFICES ASSUME call[c].st # "over", conn[c].q.kind \in Data
               PROVE  Served(c)' \/ IsPrefix(Stream(c), Promised(c))'
  BY <1>1 DEF Sent, Halved
<1>3. CASE c \in job.of /\ conn[c].st = "handled" /\ conn'[c].due = conn[c].due
           /\ (conn[c].q.kind # "list" => Stream(c)' = Stream(c))
  <2>1. conn[c].q.kind # "list"  BY <1>2 DEF Data
  <2>2. Served(c) \/ FileLeft(c) \/ RecordLeft(c) \/ FilterLeft(c)
    BY <1>1, <1>2, <1>3 DEF Sent, Owes
  <2>3. conn[c].due # 0  BY <1>3 DEF Started
  <2>4. Promised(c)' = Promised(c)
    <3>1. Lasting(c)  BY <1>1, <1>3, SameDisk
    <3> QED  BY <1>0, <2>3, <3>1, StaysAsked
  <2>5. IsPrefix(Promised(c), Stream(c)) \/ IsPrefix(Stream(c), Promised(c))
    BY <2>2, <2>3, LeftBegins DEF Served
  <2> QED  BY <1>3, <2>1, <2>4, <2>5 DEF Served
<1>4. CASE Stream(c)' = << >> /\ conn'[c].due = acked
  <2>1. AllOpen'  BY OpensHold, PTL
  <2>3. Disk' /\ ConnTyped' /\ acked \in Nat \ {0}  BY DiskNumbers DEF Types
  <2>4. Opens(c)'  BY <1>4, <2>1, <2>3 DEF AllOpen
  <2>5. Promised(c)' \in Seq(Item)  BY <2>4 DEF Opens
  <2>2. IsPrefix(<< >>, Promised(c)')  BY <2>5, PrefixNone
  <2> QED  BY <1>4, <2>2
<1> QED  BY <1>1, <1>3, <1>4

\* Every step keeps what is said of replies under way,
LEMMA SentStep ==
  ASSUME Types, Types', AllFormed, AllStarted, AllSent, [Next]_vars
  PROVE  AllSent'
<1>1. ASSUME NEW d \in Client, Kept(d) PROVE Sent(d)'
  BY <1>1, SentKept DEF AllStarted, AllSent, Types
<1>2. CASE \A d \in Client : Kept(d)  BY <1>1, <1>2 DEF AllSent
<1>3. ASSUME NEW c \in Client, \A d \in Client : d # c => Kept(d),
             \/ call' = call /\ (Handle(c) \/ Write(c) \/ (Work /\ job.of = {c}) \/ Fault(c))
             \/ ClientStep(c)
      PROVE  AllSent'
  <2> SUFFICES Sent(c)'  BY <1>1, <1>3 DEF AllSent
  <2>0. Started(c) /\ Sent(c)  BY DEF AllStarted, AllSent
  <2>1. CASE call' = call /\ Handle(c)
    <3>1. conn[c].st = "asked"  BY <2>1, HandleGives
    <3>2. conn[c].out = << >> /\ conn[c].wire = << >> /\ call[c].got = << >> /\ ~conn[c].torn
      BY <2>0, <3>1 DEF Started
    <3> QED  BY <2>1, <3>2, SentReply
  <2>2. CASE call' = call /\ Write(c)  BY <2>0, <2>2, SentWrite
  <2>3. CASE call' = call /\ Work /\ job.of = {c}
    BY <2>0, <2>3, SentChunk, SentList, SentFilter DEF Work
  <2>4. CASE ClientStep(c)  BY <2>0, <2>4, SentClient
  <2>5. CASE call' = call /\ Fault(c)  BY <2>0, <2>5, SentFault
  <2> QED  BY <1>3, <2>1, <2>2, <2>3, <2>4, <2>5
<1> QED  BY <1>2, <1>3, StepKinds

\* A call returns.
LEMMA SucceededClient ==
  ASSUME Types, Types', AllFormed, NEW c \in Client, Started(c), Sent(c), Succeeded(c),
         ClientStep(c)
  PROVE  Succeeded(c)'
<1>0. /\ Disk /\ Disk' /\ ConnTyped /\ CallTyped /\ call[c] \in CallType
      /\ call \in [Client -> CallType] /\ conn[c] \in ConnType /\ Formed(c)
      /\ UNCHANGED disk
  BY ClientTypes DEF Types, CallTyped, ConnTyped, AllFormed
<1> DEFINE P   == Promised(c)
           got == call[c].got
           w   == conn[c].wire
           F   == Frames(c)
<1>1. CASE Ask(c)
  <2>1. call'[c].result = "none"
    <3>1. call[c] = NoCall /\ call' = [call EXCEPT ![c].st = "waiting"]  BY <1>1 DEF Ask
    <3>2. call'[c].result = call[c].result  BY <1>0, <3>1 DEF CallType
    <3>3. call[c].result = "none"  BY <3>1 DEF NoCall
    <3> QED  BY <3>2, <3>3
  <2> QED  BY <2>1 DEF Succeeded
<1>2. CASE AskRefused(c) \/ Timeout(c) \/ ReadError(c)
  <2>1. Return(c, "failed") \/ Return(c, "crashed")
    BY <1>2 DEF AskRefused, Timeout, ReadError
  <2>2. call'[c].result \in {"failed", "crashed"}  BY <1>0, <2>1 DEF Return, CallType
  <2> QED  BY <2>2 DEF Succeeded
<1>3. CASE Dropped(c)
  <2>1. call'[c].st = "over" /\ call'[c].cut = TRUE  BY <1>0, <1>3 DEF Dropped, CallType
  <2> QED  BY <2>1 DEF Succeeded
<1>4. CASE ReadHead(c) \/ ReadChunk(c)
  <2>1. call[c].st # "over" /\ call'[c].result = call[c].result  BY <1>4, Taken
  <2> QED  BY <2>1 DEF Succeeded
\* The end of a reply.
<1>5. ASSUME ReadPage(c) \/ ReadLast(c) \/ ReadBody(c)
      PROVE  Succeeded(c)'
  <2>1. /\ Leave(c) /\ w # << >> /\ call[c].st \in {"waiting", "reading"}
        /\ \/ ReadPage(c) /\ w[1].t = "page"
           \/ ReadLast(c) /\ Ending(w[1])
           \/ ReadBody(c) /\ w[1].t = "body"
    BY <1>5 DEF ReadPage, ReadLast, ReadBody, Reading, Ending
  <2>2. conn[c].st = "handled"
    <3>1. conn[c].st \in {"none", "asked", "handled"}  BY <1>0 DEF ConnType
    <3> QED  BY <1>0, <2>1, <3>1 DEF Formed
  <2>3. /\ conn'[c].q = conn[c].q /\ conn'[c].st = "handled" /\ conn'[c].due = conn[c].due
        /\ conn'[c].torn = conn[c].torn
    BY <1>0, <2>1, <2>2, LeaveGives
  <2>11. CASE conn[c].torn
    <3>1. call'[c].st = "over"
      <4>1. CASE ReadPage(c)  BY <1>0, <4>1 DEF ReadPage, Return, CallType
      <4>2. CASE ReadLast(c)  BY <1>0, <4>2 DEF ReadLast, Return, CallType
      <4>3. CASE ReadBody(c)  BY <1>0, <4>3 DEF ReadBody, Return, CallType
      <4> QED  BY <1>5, <4>1, <4>2, <4>3
    <3> QED  BY <2>3, <2>11, <3>1 DEF Succeeded
  <2>12. SUFFICES ASSUME ~conn[c].torn PROVE Succeeded(c)'  BY <2>11
  <2>4. conn[c].due # 0 /\ Marks(F, got, P)  BY <2>1, <2>2, <2>12 DEF Started, Sent
  <2>5. Promised(c)' = P
    <3>1. Lasting(c)  BY <1>0, <2>3, SameDisk
    <3> QED  BY <1>0, <2>4, <3>1, StaysAsked
  <2>6. F \in Seq(OneFrame) /\ 1 \in 1 .. Len(F) /\ F[1] = w[1] /\ got \in Seq(Byte)
        /\ P \in Seq(Item) /\ got \in Seq(Item)
    <3>1. w \in Seq(OneFrame) /\ conn[c].out \in Seq(OneFrame) /\ F \in Seq(OneFrame)
      BY <1>0, FramesTyped
    <3>2. F = w \o conn[c].out  BY DEF Frames
    <3>3. Len(w) \in Nat /\ Len(w) # 0 /\ Len(conn[c].out) \in Nat  BY <2>1, <3>1
    <3> DEFINE o == conn[c].out
    <3>4. Len(w \o o) = Len(w) + Len(o) /\ (w \o o)[1] = w[1]
      <4> HIDE DEF w, o
      <4>1. 1 \in 1 .. Len(w)  BY <3>3
      <4> QED  BY <3>1, <3>3, <4>1
    <3>5. 1 \in 1 .. Len(F) /\ F[1] = w[1]
      <4>1. F = w \o o  BY <3>2
      <4> HIDE DEF F, w, o
      <4>2. Len(F) = Len(w) + Len(o) /\ F[1] = w[1]  BY <3>4, <4>1
      <4> QED  BY <3>3, <4>2 DEF o
    <3> QED  BY <1>0, <2>1, <2>4, <3>1, <3>5, StreamTyped, WantedTyped
  <2>7. /\ Ending(F[1]) => IsPrefix(P, got)
        /\ F[1].t = "page" => P = << >>
        /\ F[1].t = "body" => IsPrefix(P, F[1].ids)
    <3>1. /\ Ending(F[1]) => IsPrefix(P, got \o Carried(SubSeq(F, 1, 1 - 1)))
          /\ F[1].t = "page" => P = << >>
          /\ F[1].t = "body" => IsPrefix(P, F[1].ids) \/ 1 > 1
      <4> HIDE DEF F, P, got
      <4> QED  BY <2>4, <2>6 DEF Marks
    <3>2. SubSeq(F, 1, 1 - 1) = << >>
      <4> HIDE DEF F
      <4> QED  BY <2>6
    <3>3. got \o Carried(<< >>) = got
      <4> HIDE DEF got
      <4> QED  BY <2>6, CarriedNone, ConcatEmptySeq
    <3>4. ~ (1 > 1)  OBVIOUS
    <3> QED  BY <3>1, <3>2, <3>3, <3>4
  <2>8. CASE ReadPage(c) /\ w[1].t = "page"
    <3>1. Return(c, "ok")  BY <2>8 DEF ReadPage
    <3>2. call'[c].st = "over" /\ call'[c].got = got  BY <1>0, <3>1 DEF Return, CallType
    <3>3. IsPrefix(P, got)  BY <2>6, <2>7, <2>8, PrefixNone
    <3> QED  BY <2>3, <2>5, <3>2, <3>3 DEF Succeeded
  <2>9. CASE ReadLast(c) /\ Ending(w[1])
    <3>1. Return(c, Verdict(call[c].count))  BY <2>9 DEF ReadLast
    <3>2. call'[c].st = "over" /\ call'[c].got = got  BY <1>0, <3>1, SMTT(30) DEF Return, CallType
    <3> QED  BY <2>3, <2>5, <2>6, <2>7, <2>9, <3>2 DEF Succeeded
  <2>10. CASE ReadBody(c) /\ w[1].t = "body"
    <3> DEFINE ids == w[1].ids
               n   == ListText(Len(ids))
    <3>1. \/ Return(c, "failed") \/ Return(c, "crashed")
          \/ call' = [call EXCEPT ![c].st = "over", ![c].got = ids,
                                  ![c].count = n % W32, ![c].result = Verdict(n % W32)]
      BY <2>10 DEF ReadBody
    <3>2. CASE Return(c, "failed") \/ Return(c, "crashed")
      <4>1. call'[c].result \in {"failed", "crashed"}  BY <1>0, <3>2 DEF Return, CallType
      <4> QED  BY <4>1 DEF Succeeded
    <3>3. CASE call' = [call EXCEPT ![c].st = "over", ![c].got = ids,
                                    ![c].count = n % W32, ![c].result = Verdict(n % W32)]
      <4>1. call'[c].st = "over" /\ call'[c].got = ids
        <5> HIDE DEF ids, n
        <5> QED  BY <1>0, <3>3 DEF CallType
      <4>2. IsPrefix(P, ids)  BY <2>6, <2>7, <2>10
      <4> QED  BY <2>3, <2>5, <4>1, <4>2 DEF Succeeded
    <3> QED  BY <3>1, <3>2, <3>3, SMTT(30)
  <2> QED  BY <2>1, <2>8, <2>9, <2>10
<1> QED  BY <1>1, <1>2, <1>3, <1>4, <1>5 DEF ClientStep, ClientReads

\* and what is said of calls that succeeded.
LEMMA SucceededStep ==
  ASSUME Types, Types', AllFormed, AllStarted, AllSent, AllSucceeded, [Next]_vars
  PROVE  AllSucceeded'
<1>0. Disk'  BY DEF Types
<1>1. ASSUME NEW d \in Client, Kept(d) PROVE Succeeded(d)'
  <2>1. conn'[d] = conn[d] /\ call'[d] = call[d] /\ Lasting(d)  BY <1>1 DEF Kept
  <2> QED  BY <1>0, <2>1, SucceededKept DEF AllStarted, AllSucceeded
<1>2. CASE \A d \in Client : Kept(d)  BY <1>1, <1>2 DEF AllSucceeded
<1>3. ASSUME NEW c \in Client, \A d \in Client : d # c => Kept(d), UNCHANGED disk,
             \/ call' = call /\ (Handle(c) \/ Write(c) \/ (Work /\ job.of = {c}) \/ Fault(c))
             \/ ClientStep(c)
      PROVE  AllSucceeded'
  <2> SUFFICES Succeeded(c)'  BY <1>1, <1>3 DEF AllSucceeded
  <2>0. Started(c) /\ Sent(c) /\ Succeeded(c)  BY DEF AllStarted, AllSent, AllSucceeded
  <2>1. ASSUME call' = call, conn[c].st = "handled" => /\ conn'[c].q = conn[c].q
                                                       /\ conn'[c].due = conn[c].due
                                                       /\ conn'[c].st = "handled",
               conn[c].torn => conn'[c].torn
        PROVE  Succeeded(c)'
    <3>1. conn[c].st = "handled" => Lasting(c) /\ conn'[c].st = "handled"
      BY <1>3, <2>1, SameDisk
    <3> QED  BY <1>0, <2>0, <2>1, <3>1, SucceededKept
  <2>2. CASE call' = call /\ Handle(c)
    <3>1. conn[c].st = "asked"  BY <2>2, HandleGives
    <3>2. ~conn[c].torn  BY <2>0, <3>1 DEF Started
    <3> QED  BY <2>1, <2>2, <3>1, <3>2
  <2>3. CASE call' = call /\ Write(c)  BY <2>1, <2>3, Delivered
  <2>4. CASE call' = call /\ Work /\ job.of = {c}
    <3>1. \A frames : Queue(c, frames) =>
            conn'[c].q = conn[c].q /\ conn'[c].st = conn[c].st /\ conn'[c].due = conn[c].due
      BY DEF Queue, Types, ConnTyped, ConnType
    <3>2. conn' = conn \/ \E frames : Queue(c, frames)
      BY <2>4, SendChunkIs, ListNextIs, FilterNextIs DEF Work
    <3>3. conn'[c].torn = conn[c].torn  BY <2>4, WorkKeeps
    <3> QED  BY <2>1, <2>4, <3>1, <3>2, <3>3
  <2>5. CASE ClientStep(c)  BY <2>0, <2>5, SucceededClient
  <2>6. CASE call' = call /\ Fault(c)
    <3>1. /\ conn'[c].torn /\ ~conn[c].torn /\ conn'[c].q = conn[c].q /\ conn'[c].st = "handled"
          /\ conn[c].st = "handled" => conn'[c].due = conn[c].due
      BY <2>0, <2>6, FaultGives
    <3> QED  BY <2>1, <2>6, <3>1
  <2> QED  BY <1>3, <2>2, <2>3, <2>4, <2>5, <2>6
<1> QED  BY <1>2, <1>3, StepKinds

-----------------------------------------------------------------------------
(* The three properties of replies. *)

\* The inductive invariant.
Replying == Types /\ AllFormed /\ AllStarted /\ AllAnnounced /\ AllSent /\ AllSucceeded

\* It holds at the start,
LEMMA ReplyingInit == WInit => Replying
<1> SUFFICES ASSUME WInit PROVE Replying  OBVIOUS
<1>1. Types /\ AllFormed  BY TypesInit, FormedInit
<1>2. ASSUME NEW c \in Client
      PROVE  Started(c) /\ Announced(c) /\ Sent(c) /\ Succeeded(c)
  <2>1. conn[c] = NoConn /\ call[c] = NoCall /\ job.of = {}  BY DEF WInit, Init, NoJob
  <2>2. conn[c].out = << >> /\ conn[c].wire = << >> /\ conn[c].st = "none" /\ ~conn[c].gone
        /\ call[c].got = << >> /\ call[c].result = "none" /\ ~conn[c].torn
    BY <2>1 DEF NoConn, NoCall
  <2>3. Frames(c) = << >>
    <3>1. Frames(c) = << >> \o << >>  BY <2>2 DEF Frames
    <3> QED  BY <3>1
  <2> QED  BY <2>1, <2>2, <2>3 DEF Started, Announced, Headed, Sent, Succeeded
<1> QED  BY <1>1, <1>2 DEF Replying, AllStarted, AllAnnounced, AllSent, AllSucceeded

\* each step keeps it,
LEMMA ReplyingStep == Replying /\ [Next]_vars => Replying'
<1> SUFFICES ASSUME Replying, [Next]_vars PROVE Replying'  OBVIOUS
<1>1. Types /\ AllFormed /\ AllStarted /\ AllAnnounced /\ AllSent /\ AllSucceeded
  BY DEF Replying
<1>2. Types' /\ AllFormed'  BY <1>1, TypesStep, FormedStep
<1> QED  BY <1>1, <1>2, StartedStep, AnnouncedStep, SentStep, SucceededStep DEF Replying

\* So it holds, and what is announced, sent and succeeded is always accounted for: as long
\* as every read succeeds, the end of a reply comes only after all that was promised, and
\* until then what the handler still has to read is what was not sent; when a read fails,
\* what was sent is the beginning of what was promised (wserver.c:830 to 1020, 2290 to 2495).
THEOREM ReplyingHolds == Spec => []Replying
BY ReplyingInit, ReplyingStep, PTL DEF Spec

\* A reply to a request for the file, for a record or for a filter begins with all that
\* was promised and had been stored, in order, each byte once, whoever else is asking
\* and whatever the writing process does to the file between two of its parts; when a read
\* fails, with a beginning of that.  A record whose data block is empty is not promised,
\* and nothing behind it to a filter, which ends there (WSend_fullResponse, WSend_record,
\* WSend_distantFilterResponse, wserver.c:698 to 2495).
THEOREM ReplyHoldsStoredCorrect == Spec => []ReplyHoldsStored
<1>1. Replying => ReplyHoldsStored
  <2> SUFFICES ASSUME Replying, NEW c \in Client, conn[c].q.kind \in Data,
                      conn[c].st = "handled", call[c].st # "over"
               PROVE  \/ IsPrefix(Promised(c), Stream(c))
                      \/ (~Finished(c) \/ conn[c].torn) /\ IsPrefix(Stream(c), Promised(c))
                      \/ Has(c, "error") /\ (exit # "none" \/ Promised(c) = << >>)
    BY DEF ReplyHoldsStored, Data
  <2>1. Types /\ Started(c) /\ Sent(c)  BY DEF Replying, AllStarted, AllSent
  <2>5. CASE conn[c].torn
    <3>1. Halved(c)  BY <2>1, <2>5 DEF Sent
    <3> QED  BY <2>5, <3>1 DEF Halved, Served
  <2>6. CASE ~conn[c].torn
    <3>1. Owes(c) /\ conn[c].due # 0  BY <2>1, <2>6 DEF Sent, Started
    <3>2. CASE c \in job.of
      <4>1. Served(c) \/ FileLeft(c) \/ RecordLeft(c) \/ FilterLeft(c)  BY <3>1, <3>2 DEF Owes
      <4>2. ~Finished(c)  BY <3>2 DEF Finished
      <4> QED  BY <2>1, <3>1, <4>1, <4>2, LeftBegins DEF Served
    <3>3. CASE c \notin job.of  BY <3>1, <3>3 DEF Owes, Served
    <3> QED  BY <3>2, <3>3
  <2> QED  BY <2>5, <2>6
<1> QED  BY <1>1, ReplyingHolds, PTL

\* The length announced in the head of a reply is never less than what follows, and for
\* an uncompressed file, which can only grow, it is exactly that, unless a read failed
\* (wserver.c:784, 980).
THEOREM LengthHonestCorrect == Spec => []LengthHonest
<1>1. Replying => LengthHonest
  <2> SUFFICES ASSUME Replying, NEW c \in Client, Has(c, "head"), Frames(c)[1].t = "head",
                      Frames(c)[1].length # Unknown, conn[c].q.kind # "list"
               PROVE  /\ Len(Stream(c)) <= Frames(c)[1].length
                      /\ Finished(c) /\ ~conn[c].torn /\ mode = "plain" /\ conn[c].q.kind = "file"
                           => Len(Stream(c)) = Frames(c)[1].length
    BY DEF LengthHonest
  <2>1. Types /\ Announced(c)  BY DEF Replying, AllAnnounced
  <2>2. Frames(c) \in Seq(OneFrame) /\ Len(Stream(c)) \in Nat
    BY <2>1, StreamTyped DEF Types
  <2>3. Frames(c) # << >>  BY <2>2 DEF Has
  <2>4. Headed(Frames(c))  BY <2>3 DEF Headed
  <2>5. 1 \in 1 .. Len(Frames(c)) /\ Frames(c)[1] \in OneFrame
    <3> DEFINE F == Frames(c)
    <3>1. F \in Seq(OneFrame) /\ F # << >>  BY <2>2, <2>3
    <3> HIDE DEF F
    <3>2. Len(F) \in Nat /\ Len(F) # 0  BY <3>1
    <3>3. 1 \in 1 .. Len(F)  BY <3>2
    <3> QED  BY <3>1, <3>3 DEF F
  <2>6. Frames(c)[1].length \in Nat  BY <2>5, FrameFields
  <2>7. ToCome(c) \in Nat /\ (Finished(c) => ToCome(c) = 0)
    BY <2>1 DEF Types, JobTyped, JobType, ToCome, Finished
  <2>8. /\ Len(Stream(c)) + ToCome(c) <= Frames(c)[1].length
        /\ ~conn[c].torn /\ mode = "plain" /\ conn[c].q.kind = "file" =>
             Len(Stream(c)) + ToCome(c) = Frames(c)[1].length
    BY <2>1, <2>4 DEF Announced
  <2> QED  BY <2>2, <2>6, <2>7, <2>8
<1> QED  BY <1>1, ReplyingHolds, PTL

\* A call that returns success and whose connection was not closed under it has written
\* all that it was promised of what had been stored when its request was handled, unless
\* a read failed in the server, which does not tell (wclient.c:282: "@return False if
\* succeeds").
THEOREM OkIsWholeCorrect == Spec => []OkIsWhole
<1>1. Replying => OkIsWhole  BY DEF Replying, AllSucceeded, Succeeded, OkIsWhole
<1> QED  BY <1>1, ReplyingHolds, PTL

=============================================================================
