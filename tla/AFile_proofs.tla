----------------------------- MODULE AFile_proofs -----------------------------
(***************************************************************************)
(* Proofs about AFile, for every ARC file, any number of ARecords and any   *)
(* calls: lemmas that Arc2Warc_proofs uses for the converter.               *)
(***************************************************************************)
EXTENDS AFile, SequenceFacts

-----------------------------------------------------------------------------
(* A remainder. *)

LEMMA RemainderNat ==
  ASSUME NEW m \in Nat, NEW n \in Nat \ {0}
  PROVE  m % n \in 0 .. n - 1
OBVIOUS

-----------------------------------------------------------------------------
(* The file. *)

Byte == Nat \X Nat
Block == Seq(Byte)

\* What the assumption says of the file that is read, between its records.
LEMMA ArcShape ==
  ASSUME arc \in Arcs
  PROVE  /\ arc.mode \in {"plain", "gzip"}
         /\ Recs \in Seq(ArcType) /\ Len(Recs) \in Nat \ {0}
         /\ \A i \in 1 .. Len(Recs) :
              /\ Recs[i] \in ArcType /\ Start(i) \in Nat
              /\ Start(i) = Recs[i].off
         /\ Start(1) = 0 /\ Size \in Nat \ {0} /\ Start(Len(Recs) + 1) = Size
<1>1. /\ arc.mode \in {"plain", "gzip"} /\ Recs \in Seq(ArcType) /\ Len(Recs) > 0
      /\ Recs[1].off = 0 /\ Size = Recs[Len(Recs)].off + Length(arc, Recs[Len(Recs)])
  BY ArcAssumption DEF Recs, Size
<1>2. Len(Recs) \in Nat \ {0}  BY <1>1
<1>3. ASSUME NEW i \in 1 .. Len(Recs)
      PROVE  Recs[i] \in ArcType /\ Start(i) \in Nat /\ Start(i) = Recs[i].off
  <2>1. Recs[i] \in ArcType  BY <1>1
  <2>2. ~ (i > Len(Recs))  BY <1>2
  <2> QED  BY <2>1, <2>2 DEF Start, ArcType
<1>4. 1 \in 1 .. Len(Recs) /\ Len(Recs) \in 1 .. Len(Recs)  BY <1>2
<1>5. Size \in Nat \ {0}
  <2> DEFINE r == Recs[Len(Recs)]
  <2>1. r \in ArcType  BY <1>3, <1>4
  <2>2. /\ r.off \in Nat /\ r.head \in Nat \ {0} /\ r.data \in Nat /\ r.sep \in Nat
    BY <2>1 DEF ArcType
  <2>3. Size = r.off + Length(arc, r)  BY <1>1
  <2> HIDE DEF r
  <2>4. Length(arc, r) \in Nat \ {0}  BY <2>2 DEF Length
  <2> QED  BY <2>2, <2>3, <2>4
<1>6. Start(Len(Recs) + 1) = Size  BY <1>2 DEF Start
<1> QED  BY <1>1, <1>2, <1>3, <1>4, <1>5, <1>6

\* A record ends where the next one begins.
LEMMA Tiling ==
  ASSUME arc \in Arcs, NEW i \in 1 .. Len(Recs)
  PROVE  /\ Start(i + 1) = Start(i) + Length(arc, Recs[i])
         /\ Length(arc, Recs[i]) \in Nat \ {0}
<1>1. Len(Recs) \in Nat \ {0} /\ Recs[i] \in ArcType  BY ArcShape
<1>2. Length(arc, Recs[i]) \in Nat \ {0}  BY <1>1 DEF Length, ArcType
<1>3. CASE i = Len(Recs)
  <2>1. Size = Recs[Len(Recs)].off + Length(arc, Recs[Len(Recs)])
    BY ArcAssumption DEF Recs, Size
  <2> QED  BY <1>1, <1>2, <1>3, <2>1, ArcShape
<1>4. CASE i # Len(Recs)
  <2>1. i \in 1 .. Len(Recs) - 1 /\ i + 1 \in 1 .. Len(Recs)  BY <1>1, <1>4
  <2>2. Recs[i + 1].off = Recs[i].off + Length(arc, Recs[i])
    BY <2>1, ArcAssumption DEF Recs
  <2> QED  BY <1>2, <2>1, <2>2, ArcShape
<1> QED  BY <1>3, <1>4

\* And later ones begin later, the end of the file last.
LEMMA InOrder ==
  ASSUME arc \in Arcs, NEW i \in 1 .. Len(Recs), NEW j \in i + 1 .. Len(Recs) + 1
  PROVE  Start(i) < Start(j) /\ Start(i + 1) <= Start(j)
<1>1. Len(Recs) \in Nat \ {0}  BY ArcShape
<1>2. /\ Start(i) \in Nat /\ Start(i + 1) = Start(i) + Length(arc, Recs[i])
      /\ Length(arc, Recs[i]) \in Nat \ {0}
  BY Tiling, ArcShape
<1> DEFINE T == {d \in Nat : i + 1 + d <= Len(Recs) + 1 => Start(i + 1) <= Start(i + 1 + d)}
<1>3. \A d \in Nat : d \in T
  <2>1. 0 \in T  BY <1>2
  <2>2. ASSUME NEW d \in Nat, d \in T PROVE d + 1 \in T
    <3> SUFFICES ASSUME i + 1 + (d + 1) <= Len(Recs) + 1
                 PROVE  Start(i + 1) <= Start(i + 1 + (d + 1))
      OBVIOUS
    <3> DEFINE k == i + 1 + d
    <3>1. k \in 1 .. Len(Recs) /\ i + 1 + (d + 1) = k + 1 /\ k <= Len(Recs) + 1  BY <1>1
    <3>2. Start(i + 1) <= Start(k)  BY <2>2, <3>1
    <3> HIDE DEF k
    <3>3. /\ Start(k) \in Nat /\ Length(arc, Recs[k]) \in Nat
          /\ Start(k + 1) = Start(k) + Length(arc, Recs[k])
      BY <3>1, Tiling, ArcShape
    <3> QED  BY <1>2, <3>1, <3>2, <3>3, SMTT(30)
  <2> HIDE DEF T
  <2> QED  BY <2>1, <2>2, Induction
<1>4. Start(i + 1) <= Start(j)
  <2>1. j - (i + 1) \in Nat /\ i + 1 + (j - (i + 1)) = j /\ j <= Len(Recs) + 1  BY <1>1
  <2>2. j - (i + 1) \in T  BY <1>3, <2>1
  <2> QED  BY <2>1, <2>2
<1>5. Start(j) \in Nat
  <2>1. j \in 1 .. Len(Recs) \/ j = Len(Recs) + 1  BY <1>1
  <2> QED  BY <2>1, ArcShape
<1> QED  BY <1>2, <1>4, <1>5

\* Every record begins before the end, and no two at one place.
LEMMA Distinct ==
  ASSUME arc \in Arcs, NEW i \in 1 .. Len(Recs) + 1, NEW j \in 1 .. Len(Recs) + 1,
         Start(i) = Start(j)
  PROVE  i = j
<1>1. Len(Recs) \in Nat \ {0}  BY ArcShape
<1>2. \A k \in 1 .. Len(Recs) + 1 : Start(k) \in Nat
  <2> SUFFICES ASSUME NEW k \in 1 .. Len(Recs) + 1 PROVE Start(k) \in Nat  OBVIOUS
  <2>1. k \in 1 .. Len(Recs) \/ k = Len(Recs) + 1  BY <1>1
  <2> QED  BY <2>1, ArcShape
<1>3. CASE i < j
  <2>1. i \in 1 .. Len(Recs) /\ j \in i + 1 .. Len(Recs) + 1  BY <1>1, <1>3
  <2>2. Start(i) < Start(j)  BY <2>1, InOrder
  <2> QED  BY <1>2, <2>2
<1>4. CASE j < i
  <2>1. j \in 1 .. Len(Recs) /\ i \in j + 1 .. Len(Recs) + 1  BY <1>1, <1>4
  <2>2. Start(j) < Start(i)  BY <2>1, InOrder
  <2> QED  BY <1>2, <2>2
<1> QED  BY <1>1, <1>3, <1>4

\* The record found at FH.
LEMMA AtGives ==
  ASSUME NEW i, i = At(fh), i # 0
  PROVE  i \in 1 .. Len(Recs) /\ Start(i) = fh
<1> DEFINE found == {k \in 1 .. Len(Recs) : Start(k) = fh}
<1>1. found # {}  BY DEF At
<1>2. i = CHOOSE k \in found : TRUE  BY <1>1 DEF At
<1>3. i \in found  BY <1>1, <1>2
<1> QED  BY <1>3

\* Where a record begins, it is found.
LEMMA AtFinds ==
  ASSUME arc \in Arcs, NEW i \in 1 .. Len(Recs), Start(i) = fh
  PROVE  At(fh) = i
<1> DEFINE found == {k \in 1 .. Len(Recs) : Start(k) = fh}
<1>1. Len(Recs) \in Nat  BY ArcShape
<1>2. \A k \in found : k = i  BY <1>1, Distinct
<1>3. found = {i}  BY <1>2
<1>4. (CHOOSE k \in found : TRUE) = i  BY <1>3
<1> QED  BY <1>3, <1>4 DEF At

-----------------------------------------------------------------------------
(* Bytes. *)

\* Every byte of the file is in a record.
LEMMA InSome ==
  ASSUME arc \in Arcs, NEW p \in Nat, p < Size
  PROVE  \E i \in 1 .. Len(Recs) : Start(i) <= p /\ p < Start(i + 1)
<1> DEFINE T == {i \in 1 .. Len(Recs) : p < Start(i + 1)}
<1>1. Len(Recs) \in Nat \ {0} /\ Start(1) = 0 /\ Start(Len(Recs) + 1) = Size  BY ArcShape
<1>2. Len(Recs) \in T  BY <1>1
<1>3. PICK i \in T : \A k \in T : i <= k  BY <1>1, <1>2, LeastNumber, T \subseteq Nat
<1>4. i \in 1 .. Len(Recs) /\ p < Start(i + 1) /\ Start(i) \in Nat  BY <1>3, ArcShape
<1>5. Start(i) <= p
  <2>1. CASE i = 1  BY <1>1, <2>1
  <2>2. CASE i # 1
    <3>3. i - 1 \in 1 .. Len(Recs)  BY <1>1, <1>4, <2>2
    <3>4. i - 1 \notin T
      <4>1. ~ (i <= i - 1)  BY <1>4
      <4> QED  BY <1>3, <4>1
    <3>1. i - 1 \in 1 .. Len(Recs) /\ i - 1 \notin T  BY <3>3, <3>4
    <3>2. ~ (p < Start((i - 1) + 1)) /\ (i - 1) + 1 = i  BY <3>1
    <3> QED  BY <1>4, <3>2
  <2> QED  BY <2>1, <2>2
<1> QED  BY <1>4, <1>5

\* What fread gives.
LEMMA FileBytesShape ==
  ASSUME arc \in Arcs, NEW from \in Nat, NEW n \in Nat
  PROVE  /\ FileBytes(from, n) \in Block
         /\ Len(FileBytes(from, n)) = IF from >= Size THEN 0 ELSE Fewer(n, Size - from)
<1> DEFINE m == IF from >= Size THEN 0 ELSE Fewer(n, Size - from)
           e(k) == ByteAt(from + k - 1)
<1>1. Size \in Nat  BY ArcShape
<1>2. m \in Nat /\ (m > 0 => from + m <= Size)  BY <1>1 DEF Fewer
<1>3. \A p \in Nat : p < Size => RecordOf(p) \in 1 .. Len(Recs) /\ Start(RecordOf(p)) <= p
  BY InSome DEF RecordOf
<1>8. \A p \in Nat : p < Size => ByteAt(p) \in Byte
  <2> SUFFICES ASSUME NEW p \in Nat, p < Size PROVE ByteAt(p) \in Byte  OBVIOUS
  <2>1. RecordOf(p) \in 1 .. Len(Recs) /\ Start(RecordOf(p)) <= p  BY <1>3
  <2>2. RecordOf(p) \in Nat /\ Start(RecordOf(p)) \in Nat  BY <2>1, ArcShape
  <2>3. p - Start(RecordOf(p)) \in Nat  BY <2>1, <2>2
  <2> QED  BY <2>2, <2>3 DEF Byte, ByteAt
<1>4. \A k \in 1 .. m : e(k) \in Byte
  <2> SUFFICES ASSUME NEW k \in 1 .. m PROVE e(k) \in Byte  OBVIOUS
  <2>1. from + k - 1 \in Nat /\ from + k - 1 < Size  BY <1>1, <1>2
  <2> QED  BY <1>8, <2>1
<1>5. FileBytes(from, n) = [k \in 1 .. m |-> e(k)]  BY DEF FileBytes
<1> HIDE DEF e, m
<1>6. [k \in 1 .. m |-> e(k)] \in Seq(Byte)  BY <1>2, <1>4, IsASeq
<1>7. Len([k \in 1 .. m |-> e(k)]) = m  BY <1>2, <1>6
<1> QED  BY <1>5, <1>6, <1>7 DEF Block, m

\* The bytes of a record.
LEMMA BytesShape ==
  ASSUME NEW i \in Nat, NEW from \in Nat, NEW n \in Nat
  PROVE  Bytes(i, from, n) \in Block /\ Len(Bytes(i, from, n)) = n
<1>1. \A k \in 1 .. n : <<i, from + k - 1>> \in Byte
  <2> SUFFICES ASSUME NEW k \in 1 .. n PROVE <<i, from + k - 1>> \in Byte  OBVIOUS
  <2>1. from + k - 1 \in Nat  OBVIOUS
  <2> QED  BY <2>1 DEF Byte
<1>2. [k \in 1 .. n |-> <<i, from + k - 1>>] \in [1 .. n -> Byte]  BY <1>1
<1> HIDE DEF Byte
<1>3. Bytes(i, from, n) \in [1 .. n -> Byte]  BY <1>2 DEF Bytes
<1>4. Bytes(i, from, n) \in Seq(Byte)  BY <1>3
<1>5. DOMAIN Bytes(i, from, n) = 1 .. n  BY <1>3
<1> QED  BY <1>4, <1>5 DEF Block

LEMMA WholeShape ==
  ASSUME arc \in Arcs, NEW i \in 1 .. Len(Recs)
  PROVE  Whole(i) \in Block /\ Len(Whole(i)) = Recs[i].head + Recs[i].data + Recs[i].sep
<1>1. Recs[i] \in ArcType /\ i \in Nat  BY ArcShape
<1>2. Recs[i].head + Recs[i].data + Recs[i].sep \in Nat  BY <1>1 DEF ArcType
<1> QED  BY <1>1, <1>2, BytesShape DEF Whole

\* Stretches of bytes.
LEMMA Stretch ==
  ASSUME NEW s \in Block, NEW m \in Nat, NEW n \in 0 .. Len(s)
  PROVE  /\ SubSeq(s, m + 1, n) \in Block
         /\ Len(SubSeq(s, m + 1, n)) = IF m <= n THEN n - m ELSE 0
<1>1. Len(s) \in Nat /\ s \in Seq(Byte)  BY DEF Block
<1>2. m + 1 \in Int /\ n \in Int /\ \A i \in m + 1 .. n : s[i] \in Byte  BY <1>1
<1>3. /\ SubSeq(s, m + 1, n) \in Seq(Byte)
      /\ Len(SubSeq(s, m + 1, n)) = IF m + 1 <= n THEN n - (m + 1) + 1 ELSE 0
  <2> HIDE DEF Byte
  <2> QED  BY <1>2, SubSeqProperties
<1>4. (IF m + 1 <= n THEN n - (m + 1) + 1 ELSE 0) = (IF m <= n THEN n - m ELSE 0)
  BY <1>1
<1> QED  BY <1>3, <1>4 DEF Block

\* The first bytes.
LEMMA Fore ==
  ASSUME NEW s \in Block, NEW n \in 0 .. Len(s)
  PROVE  SubSeq(s, 1, n) \in Block /\ Len(SubSeq(s, 1, n)) = n
<1>1. n \in Nat  BY DEF Block
<1>2. /\ SubSeq(s, 0 + 1, n) \in Block
      /\ Len(SubSeq(s, 0 + 1, n)) = IF 0 <= n THEN n - 0 ELSE 0
  BY Stretch
<1>3. 0 + 1 = 1 /\ (IF 0 <= n THEN n - 0 ELSE 0) = n  BY <1>1
<1> QED  BY <1>2, <1>3

\* One followed by the next.
LEMMA Join ==
  ASSUME NEW s \in Block, NEW l \in 0 .. Len(s), NEW m \in l .. Len(s), NEW n \in m .. Len(s)
  PROVE  SubSeq(s, l + 1, m) \o SubSeq(s, m + 1, n) = SubSeq(s, l + 1, n)
<1>1. /\ s \in Seq(Byte) /\ Len(s) \in Nat
      /\ l + 1 \in 1 .. Len(s) + 1 /\ m \in (l + 1) - 1 .. Len(s)
  BY DEF Block
<1> HIDE DEF Byte
<1> QED  BY <1>1, ConcatAdjacentSubSeq

\* The beginning of one.
LEMMA Beginning ==
  ASSUME NEW s \in Block, NEW m \in Nat, NEW n \in 0 .. Len(s), NEW k \in Nat,
         m + k <= n
  PROVE  SubSeq(SubSeq(s, m + 1, n), 1, k) = SubSeq(s, m + 1, m + k)
<1>1. Len(s) \in Nat /\ s \in Seq(Byte)  BY DEF Block
<1>2. CASE k = 0
  <2>1. SubSeq(SubSeq(s, m + 1, n), 1, k) = << >>  BY <1>2, SubSeqEmpty
  <2>2. m + 1 \in Int /\ m + k \in Int /\ m + k < m + 1  BY <1>2
  <2>3. SubSeq(s, m + 1, m + k) = << >>  BY <2>2, SubSeqEmpty
  <2> QED  BY <2>1, <2>3
<1>3. CASE k # 0
  <2>1. /\ m + 1 \in 1 .. Len(s) /\ n \in 1 .. Len(s)
        /\ 1 \in 1 .. n - (m + 1) + 1 /\ k \in 1 .. n - (m + 1) + 1
    BY <1>1, <1>3
  <2>2. SubSeq(SubSeq(s, m + 1, n), 1, k) = SubSeq(s, (m + 1) + 1 - 1, (m + 1) + k - 1)
    <3> HIDE DEF Byte
    <3> QED  BY <1>1, <2>1, SubSeqOfSubSeq
  <2>3. (m + 1) + 1 - 1 = m + 1 /\ (m + 1) + k - 1 = m + k  BY <1>1
  <2> QED  BY <2>2, <2>3
<1> QED  BY <1>2, <1>3

\* All of one.
LEMMA All ==
  ASSUME NEW s \in Block
  PROVE  SubSeq(s, 1, Len(s)) = s /\ s \o << >> = s /\ << >> \o s = s
<1> HIDE DEF Byte
<1> QED  BY SubSeqFull, ConcatEmptySeq DEF Block

-----------------------------------------------------------------------------
(* The inductive invariant. *)

ARecordType == [of: Nat, off: Nat, size: Nat, cback: BOOLEAN, dataf: BOOLEAN]

\* Behind a handle is a record with data, and it is known where they are.
Rightful(r) ==
  /\ r.of \in 1 .. Len(Recs) /\ r.size = Declared(r.of) /\ r.size # 0
  /\ r.off = Recs[r.of].head + (IF arc.mode = "gzip" THEN 0 ELSE Start(r.of))

FTypes ==
  /\ arc \in Arcs /\ disk \in Disk /\ fh \in Nat
  /\ temp \in [holds: Block, at: Nat, failed: BOOLEAN] /\ filler \in 0 .. Len(Recs)
  /\ arec \in [Handle -> ARecordType]
  /\ given \in [by: SUBSET Handle, bytes: Block]

\* No jump goes far beyond the end of the file.
Near == fh <= Size + 2 * W32

AllRightful == \A h \in Handle : arec[h] = NoARecord \/ Rightful(arec[h])

Filled == arc.mode = "gzip" /\ filler # 0 => temp.holds = Whole(filler)

\* The data of the record r begin after this many bytes of the temporary file.
First(r) == IF arc.mode = "gzip" THEN Recs[r.of].head ELSE 0

\* What was given to a record are its first bytes, and the reading is after them.
GivingTo(h) ==
  /\ given.by = {h} /\ arec[h].of # 0
  /\ arc.mode = "plain" =>
       /\ temp.holds = FileBytes(arec[h].off, arec[h].size)
       /\ Len(temp.holds) = arec[h].size
  /\ arc.mode = "plain" \/ filler = arec[h].of =>
       /\ temp.at \in First(arec[h]) .. Len(temp.holds)
       /\ given.bytes = SubSeq(temp.holds, First(arec[h]) + 1, temp.at)

Giving == \A h \in given.by : GivingTo(h)

\* No write fails where there is room.
FailedFull == temp.failed => disk = "full"

FInv == FTypes /\ Near /\ AllRightful /\ Filled /\ FailedFull /\ Giving

\* The file does not change, nor what is derived from it.
LEMMA SameFile ==
  ASSUME arc' = arc
  PROVE  /\ Recs' = Recs /\ Size' = Size
         /\ \A i : Start(i)' = Start(i) /\ Whole(i)' = Whole(i) /\ Declared(i)' = Declared(i)
         /\ \A r : First(r)' = First(r) /\ Rightful(r)' = Rightful(r)
         /\ \A p, n : FileBytes(p, n)' = FileBytes(p, n)
<1>1. Recs' = Recs /\ Size' = Size  BY DEF Recs, Size
<1>2. ASSUME NEW i
      PROVE  Start(i)' = Start(i) /\ Whole(i)' = Whole(i) /\ Declared(i)' = Declared(i)
  BY <1>1 DEF Start, Whole, Bytes, Declared
<1>3. ASSUME NEW r PROVE First(r)' = First(r) /\ Rightful(r)' = Rightful(r)
  BY <1>1, <1>2 DEF First, Rightful
<1>4. ASSUME NEW p PROVE ByteAt(p)' = ByteAt(p)
  BY <1>1, <1>2 DEF ByteAt, RecordOf
<1>5. ASSUME NEW p, NEW n PROVE FileBytes(p, n)' = FileBytes(p, n)
  BY <1>1, <1>4 DEF FileBytes
<1> QED  BY <1>1, <1>2, <1>3, <1>5

LEMMA FileInit ==
  ASSUME FInit
  PROVE  FInv
<1>1. arc \in Arcs /\ disk \in Disk /\ fh = 0 /\ temp = NoTemp /\ filler = 0
      /\ arec = [h \in Handle |-> NoARecord] /\ given = Nobody
  BY DEF FInit
<1>2. << >> \in Block  BY DEF Block
<1>3. FTypes
  <2>1. temp \in [holds: Block, at: Nat, failed: BOOLEAN]  BY <1>1, <1>2 DEF NoTemp
  <2>2. NoARecord \in ARecordType  BY DEF NoARecord, ARecordType
  <2>3. given \in [by: SUBSET Handle, bytes: Block]  BY <1>1, <1>2 DEF Nobody
  <2>4. Len(Recs) \in Nat  BY <1>1, ArcShape
  <2>5. arec \in [Handle -> ARecordType]  BY <1>1, <2>2
  <2> QED  BY <1>1, <2>1, <2>3, <2>4, <2>5 DEF FTypes
<1>4. Near
  <2>1. Size \in Nat /\ W32 \in Nat  BY <1>1, ArcShape, ArcAssumption
  <2> QED  BY <1>1, <2>1 DEF Near
<1>5. AllRightful /\ Filled /\ FailedFull /\ Giving
  BY <1>1 DEF AllRightful, Filled, FailedFull, Giving, Nobody, NoTemp
<1> QED  BY <1>3, <1>4, <1>5 DEF FInv

\* HasMore and Seek, and a nextRecord that gives no record, only move FH.
LEMMA MoveKeeps ==
  ASSUME FInv, fh' \in Nat, fh' <= Size + 2 * W32,
         UNCHANGED <<arc, disk, temp, filler, arec, given>>
  PROVE  FInv'
<1>1. FTypes'  BY DEF FInv, FTypes, Recs
<1>2. Near'  BY DEF Near, Size
<1>3. AllRightful' /\ Filled' /\ FailedFull' /\ Giving'
  BY SameFile DEF FInv, AllRightful, Filled, FailedFull, Giving, GivingTo
<1> QED  BY <1>1, <1>2, <1>3 DEF FInv

\* A record is held that was not.
LEMMA HoldKeeps ==
  ASSUME FInv, fh' \in Nat, fh' <= Size + 2 * W32, NEW h \in Handle, NEW r \in ARecordType,
         arec[h] = NoARecord, Rightful(r), arec' = [arec EXCEPT ![h] = r],
         UNCHANGED <<arc, disk, temp, filler, given>>
  PROVE  FInv'
<1>1. FTypes'  BY DEF FInv, FTypes, Recs
<1>2. Near'  BY DEF Near, Size
<1>3. AllRightful'
  BY SameFile DEF FInv, FTypes, AllRightful
<1>4. Filled' /\ FailedFull'  BY SameFile DEF FInv, Filled, FailedFull
<1>5. Giving'
  <2> SUFFICES ASSUME NEW k \in given.by PROVE GivingTo(k)'
    BY DEF Giving
  <2>1. k # h  BY DEF FInv, Giving, GivingTo, NoARecord
  <2>2. arec'[k] = arec[k]  BY <2>1 DEF FInv, FTypes
  <2> QED
    BY <2>2, SameFile DEF FInv, Giving, GivingTo
<1> QED  BY <1>1, <1>2, <1>3, <1>4, <1>5 DEF FInv

\* What nextRecord inflates replaces what the temporary file held.
LEMMA FillKeeps ==
  ASSUME FInv, fh' \in Nat, fh' <= Size + 2 * W32, UNCHANGED <<arc, disk>>,
         temp' \in [holds: Block, at: Nat, failed: BOOLEAN], filler' \in 0 .. Len(Recs),
         Filled', FailedFull',
         given' = Nobody, arec' \in [Handle -> ARecordType], AllRightful'
  PROVE  FInv'
<1>1. << >> \in Block  BY DEF Block
<1>2. given' \in [by: SUBSET Handle, bytes: Block]  BY <1>1 DEF Nobody
<1>3. FTypes'  BY <1>2 DEF FInv, FTypes, Recs
<1>4. Near'  BY DEF Near, Size
<1>5. Giving'  BY DEF Giving, Nobody
<1> QED  BY <1>3, <1>4, <1>5 DEF FInv

\* Something is given to the record behind h, from its first byte on.
LEMMA GiveKeeps ==
  ASSUME FInv, NEW h \in Handle, arec[h].of # 0, UNCHANGED <<arc, disk, fh>>,
         NEW a \in ARecordType,
         a.of = arec[h].of, a.off = arec[h].off, a.size = arec[h].size,
         arec' = [arec EXCEPT ![h] = a],
         temp' \in [holds: Block, at: Nat, failed: BOOLEAN], filler' \in 0 .. Len(Recs),
         Filled', FailedFull',
         given' \in [by: SUBSET Handle, bytes: Block], given'.by \subseteq {h},
         h \in given'.by => GivingTo(h)'
  PROVE  FInv'
<1>1. FTypes'  BY DEF FInv, FTypes, Recs
<1>2. Near'  BY SameFile DEF FInv, Near
<1>3. AllRightful'
  <2>1. Rightful(arec[h])  BY DEF FInv, AllRightful, NoARecord
  <2>2. Rightful(a)  BY <2>1 DEF Rightful
  <2> QED  BY <2>2, SameFile DEF FInv, FTypes, AllRightful
<1>4. Giving'  BY DEF Giving
<1> QED  BY <1>1, <1>2, <1>3, <1>4 DEF FInv

-----------------------------------------------------------------------------
(* The operations. *)

LEMMA HasMoreKeeps ==
  ASSUME FInv, HasMore
  PROVE  FInv'
<1>1. fh' \in Nat /\ fh' <= Size + 2 * W32
  <2>1. Size \in Nat /\ W32 \in Nat /\ fh \in Nat /\ fh <= Size + 2 * W32
    BY ArcShape, ArcAssumption DEF FInv, FTypes, Near
  <2>2. fh' = 0 \/ fh' = fh  BY DEF HasMore
  <2> QED  BY <2>1, <2>2
<1>2. UNCHANGED <<arc, disk, temp, filler, arec, given>>  BY DEF HasMore, Same
<1> QED  BY <1>1, <1>2, MoveKeeps

LEMMA SeekKeeps ==
  ASSUME FInv, NEW i \in 1 .. Len(Recs), Seek(i)
  PROVE  FInv'
<1>1. fh' = Start(i) /\ Start(i) \in Nat /\ Start(i) < Start(Len(Recs) + 1)
      /\ Start(Len(Recs) + 1) = Size
  <2>1. arc \in Arcs  BY DEF FInv, FTypes
  <2>2. Len(Recs) + 1 \in i + 1 .. Len(Recs) + 1  BY <2>1, ArcShape
  <2> QED  BY <2>1, <2>2, ArcShape, InOrder DEF Seek
<1>2. Size \in Nat /\ W32 \in Nat  BY ArcShape, ArcAssumption DEF FInv, FTypes
<1>3. fh' \in Nat /\ fh' <= Size + 2 * W32  BY <1>1, <1>2
<1>4. UNCHANGED <<arc, disk, temp, filler, arec, given>>  BY DEF Seek, Same
<1> QED  BY <1>3, <1>4, MoveKeeps

\* The record that nextRecord gives.
LEMMA GiveHolds ==
  ASSUME FInv, NEW h \in Handle, NEW i \in 1 .. Len(Recs), NEW off \in Nat,
         off = Recs[i].head + (IF arc.mode = "gzip" THEN 0 ELSE Start(i)),
         Give(h, i, off)
  PROVE  \/ UNCHANGED arec /\ ret' = "nil"
         \/ \E r \in ARecordType :
              /\ Rightful(r) /\ r.of = i /\ arec' = [arec EXCEPT ![h] = r] /\ ret' = "record"
<1>1. CASE Declared(i) = 0  BY <1>1 DEF Give
<1>2. CASE Declared(i) # 0
  <2> DEFINE r == [NoARecord EXCEPT !.of = i, !.off = off, !.size = Declared(i),
                                    !.dataf = arc.mode = "gzip"]
  <2>1. arec' = [arec EXCEPT ![h] = r] /\ ret' = "record"  BY <1>2 DEF Give
  <2>2. Declared(i) \in Nat
    <3>1. Recs[i].len \in Nat  BY ArcShape DEF FInv, FTypes, ArcType
    <3>2. W32 \in Nat \ {0}  BY ArcAssumption
    <3>3. Recs[i].len % W32 \in 0 .. W32 - 1  BY <3>1, <3>2, RemainderNat
    <3> QED  BY <3>2, <3>3 DEF Declared
  <2>3. r.of = i /\ r.off = off /\ r.size = Declared(i)  BY DEF NoARecord
  <2>4. r \in ARecordType
    <3>1. (arc.mode = "gzip") \in BOOLEAN  OBVIOUS
    <3>2. i \in Nat  BY ArcShape DEF FInv, FTypes
    <3> QED  BY <2>2, <3>1, <3>2 DEF NoARecord, ARecordType
  <2>5. Rightful(r)  BY <1>2, <2>3 DEF Rightful
  <2> QED  BY <2>1, <2>3, <2>4, <2>5
<1> QED  BY <1>1, <1>2

LEMMA NextPlainKeeps ==
  ASSUME FInv, NEW h \in Handle, NextPlain(h)
  PROVE  FInv'
<1> DEFINE i == At(fh)
<1>1. /\ arec[h] = NoARecord /\ arc.mode = "plain" /\ i # 0
      /\ fh' = fh + Recs[i].head + Declared(i) + 1 /\ Give(h, i, fh + Recs[i].head)
      /\ UNCHANGED <<arc, disk, temp, filler, given>>
  BY DEF NextPlain, Asks, Same
<1>2. i \in 1 .. Len(Recs) /\ Start(i) = fh  BY <1>1, AtGives
<1> HIDE DEF i
<1>3. arc \in Arcs /\ fh \in Nat /\ Recs[i] \in ArcType  BY <1>2, ArcShape DEF FInv, FTypes
<1>4. W32 \in Nat \ {0} /\ Size \in Nat  BY <1>3, ArcShape, ArcAssumption
<1>5. Declared(i) \in 0 .. W32 - 1
  <2>1. Recs[i].len \in Nat  BY <1>3 DEF ArcType
  <2> QED  BY <1>4, <2>1, RemainderNat DEF Declared
<1>6. Recs[i].head \in Nat /\ fh + Recs[i].head <= Size
  <2>1. Start(i + 1) = fh + Length(arc, Recs[i])  BY <1>2, <1>3, Tiling
  <2>2. Recs[i].head \in Nat /\ Recs[i].head <= Length(arc, Recs[i])
        /\ Length(arc, Recs[i]) \in Nat
    BY <1>1, <1>3 DEF Length, ArcType
  <2>3. Len(Recs) \in Nat /\ Start(Len(Recs) + 1) = Size  BY <1>3, ArcShape
  <2>4. Start(i + 1) <= Size
    <3>1. Len(Recs) + 1 \in i + 1 .. Len(Recs) + 1  BY <1>2, <2>3
    <3> QED  BY <1>2, <1>3, <2>3, <3>1, InOrder
  <2> QED  BY <1>3, <1>4, <2>1, <2>2, <2>4
<1>7. fh' \in Nat /\ fh' <= Size + 2 * W32  BY <1>1, <1>3, <1>4, <1>5, <1>6
<1>8. fh + Recs[i].head \in Nat
      /\ fh + Recs[i].head = Recs[i].head + (IF arc.mode = "gzip" THEN 0 ELSE Start(i))
  BY <1>1, <1>2, <1>3, <1>6
<1>9. CASE UNCHANGED arec  BY <1>1, <1>7, <1>9, MoveKeeps
<1>10. CASE \E r \in ARecordType : Rightful(r) /\ arec' = [arec EXCEPT ![h] = r]
  BY <1>1, <1>7, <1>10, HoldKeeps
<1> QED  BY <1>1, <1>2, <1>8, <1>9, <1>10, GiveHolds

LEMMA NextGarbageKeeps ==
  ASSUME FInv, NEW h \in Handle, NextGarbage(h)
  PROVE  FInv'
<1>1. arc \in Arcs /\ fh \in Nat /\ fh <= Size + 2 * W32  BY DEF FInv, FTypes, Near
<1>2. Size \in Nat /\ W32 \in Nat  BY <1>1, ArcShape, ArcAssumption
<1>3. /\ \/ fh' = fh
         \/ fh < Size /\ fh' \in fh + 1 .. Size
         \/ fh < Size /\ fh' = fh + W32
      /\ UNCHANGED <<arc, disk, temp, filler, arec, given>>
  BY <1>1, <1>2 DEF NextGarbage, Asks, Same
<1>4. fh' \in Nat /\ fh' <= Size + 2 * W32  BY <1>1, <1>2, <1>3
<1> QED  BY <1>3, <1>4, MoveKeeps

\* What the temporary file is when it was emptied and bytes put in.
LEMMA FillingShape ==
  ASSUME temp \in [holds: Block, at: Nat, failed: BOOLEAN],
         NEW bytes \in Block, NEW k \in Nat
  PROVE  /\ Filling(bytes, k) \in [holds: Block, at: Nat, failed: BOOLEAN]
         /\ Filling(bytes, k).holds = bytes /\ Filling(bytes, k).at = k
         /\ Filling(bytes, k).failed = temp.failed
<1> HIDE DEF Block
<1> QED  BY DEF Filling

LEMMA NextGzipKeeps ==
  ASSUME FInv, NEW h \in Handle, NextGzip(h)
  PROVE  FInv'
<1> DEFINE i == At(fh)
<1>1. /\ arec[h] = NoARecord /\ arc.mode = "gzip" /\ i # 0
      /\ fh' = Start(i + 1) /\ filler' = i /\ given' = Nobody
      /\ \/ UNCHANGED arec /\ \E k \in (0 .. Len(Whole(i))) \cup {W32} :
                                temp' = Filling(Whole(i), k)
         \/ temp' = Filling(Whole(i), Recs[i].head) /\ Give(h, i, Recs[i].head)
      /\ UNCHANGED <<arc, disk>> /\ ~temp.failed
  BY DEF NextGzip, Asks, Same
<1>2. i \in 1 .. Len(Recs) /\ Start(i) = fh  BY <1>1, AtGives
<1> HIDE DEF i
<1>3. arc \in Arcs /\ Recs[i] \in ArcType /\ Len(Recs) \in Nat
  BY <1>2, ArcShape DEF FInv, FTypes
<1>4. Recs[i].head \in Nat  BY <1>3 DEF ArcType
<1>5. Whole(i) \in Block  BY <1>2, <1>3, WholeShape
<1>6. /\ temp' \in [holds: Block, at: Nat, failed: BOOLEAN]
      /\ temp'.holds = Whole(i) /\ ~temp'.failed
  <2>1. PICK k \in (0 .. Len(Whole(i))) \cup {W32, Recs[i].head} : temp' = Filling(Whole(i), k)
    BY <1>1
  <2>2. k \in Nat
    <3>1. Len(Whole(i)) \in Nat /\ W32 \in Nat  BY <1>5, ArcAssumption DEF Block
    <3> QED  BY <1>4, <2>1, <3>1
  <2>3. temp \in [holds: Block, at: Nat, failed: BOOLEAN]  BY DEF FInv, FTypes
  <2> QED  BY <1>1, <1>5, <2>1, <2>2, <2>3, FillingShape
<1>7. fh' \in Nat /\ fh' <= Size + 2 * W32
  <2>1. Size \in Nat /\ W32 \in Nat /\ Start(Len(Recs) + 1) = Size
    BY <1>3, ArcShape, ArcAssumption
  <2>2. Start(i + 1) <= Size
    <3>1. Len(Recs) + 1 \in i + 1 .. Len(Recs) + 1  BY <1>2, <1>3
    <3> QED  BY <1>2, <1>3, <2>1, <3>1, InOrder
  <2>3. Start(i + 1) \in Nat
    <3>1. Start(i) \in Nat /\ Length(arc, Recs[i]) \in Nat
          /\ Start(i + 1) = Start(i) + Length(arc, Recs[i])
      BY <1>2, <1>3, Tiling, ArcShape
    <3> QED  BY <3>1
  <2> QED  BY <1>1, <2>1, <2>2, <2>3
<1>8. Filled' /\ FailedFull'  BY <1>1, <1>6, SameFile DEF Filled, FailedFull
<1>9. arec' \in [Handle -> ARecordType] /\ AllRightful'
  <2>1. CASE UNCHANGED arec
    BY <1>1, <2>1, SameFile DEF FInv, FTypes, AllRightful
  <2>2. CASE \E r \in ARecordType : Rightful(r) /\ arec' = [arec EXCEPT ![h] = r]
    BY <1>1, <2>2, SameFile DEF FInv, FTypes, AllRightful
  <2>3. Recs[i].head = Recs[i].head + (IF arc.mode = "gzip" THEN 0 ELSE Start(i))
    BY <1>1, <1>4
  <2> QED  BY <1>1, <1>2, <1>4, <2>1, <2>2, <2>3, GiveHolds
<1>10. filler' \in 0 .. Len(Recs)  BY <1>1, <1>2, <1>3
<1> QED  BY <1>1, <1>6, <1>7, <1>8, <1>9, <1>10, FillKeeps

\* A nextRecord that fails empties the temporary file, and part of a record is in it.
LEMMA EmptyKeeps ==
  ASSUME FInv, fh' \in Nat, fh' <= Size, UNCHANGED <<arc, disk, arec>>,
         filler' = 0, given' = Nobody,
         temp' \in [holds: Block, at: Nat, failed: BOOLEAN], FailedFull'
  PROVE  FInv'
<1>1. arc \in Arcs /\ Len(Recs) \in Nat  BY ArcShape DEF FInv, FTypes
<1>2. fh' <= Size + 2 * W32
  <2>1. Size \in Nat /\ W32 \in Nat  BY <1>1, ArcShape, ArcAssumption
  <2> QED  BY <2>1
<1>3. filler' \in 0 .. Len(Recs) /\ Filled'  BY <1>1 DEF Filled
<1>4. arec' \in [Handle -> ARecordType] /\ AllRightful'
  BY SameFile DEF FInv, FTypes, AllRightful
<1> QED  BY <1>2, <1>3, <1>4, FillKeeps

\* The first bytes of a record, if there is one.
LEMMA BytesAt ==
  ASSUME FInv, NEW k \in Nat
  PROVE  At(fh) \in Nat /\ Bytes(At(fh), 0, k) \in Block
<1>1. At(fh) = 0 \/ At(fh) \in 1 .. Len(Recs)  BY AtGives
<1>2. Len(Recs) \in Nat  BY ArcShape DEF FInv, FTypes
<1>3. At(fh) \in Nat  BY <1>1, <1>2
<1> QED  BY <1>3, BytesShape

LEMMA NextNotInflatedKeeps ==
  ASSUME FInv, NEW h \in Handle, NextNotInflated(h)
  PROVE  FInv'
<1> DEFINE i == At(fh)
           n == IF i = 0 THEN 0 ELSE Len(Whole(i)) - 1
<1>1. /\ fh' \in (IF i = 0 THEN fh ELSE fh + 1) .. Size
      /\ \E k \in 0 .. n : temp' = Filling(Bytes(i, 0, k), k)
      /\ filler' = 0 /\ given' = Nobody /\ UNCHANGED <<arc, disk, arec>>
  BY DEF NextNotInflated, Asks, Same
<1>2. /\ arc \in Arcs /\ fh \in Nat
      /\ temp \in [holds: Block, at: Nat, failed: BOOLEAN]
  BY DEF FInv, FTypes
<1>3. fh' \in Nat /\ fh' <= Size
  <2>1. Size \in Nat  BY <1>2, ArcShape
  <2> HIDE DEF i
  <2> QED  BY <1>1, <1>2, <2>1
<1>4. PICK k \in 0 .. n : temp' = Filling(Bytes(i, 0, k), k)  BY <1>1
<1>5. k \in Nat  OBVIOUS
<1>6. Bytes(i, 0, k) \in Block  BY <1>5, BytesAt
<1> HIDE DEF i, n
<1>7. temp' \in [holds: Block, at: Nat, failed: BOOLEAN] /\ temp'.failed = temp.failed
  BY <1>2, <1>4, <1>5, <1>6, FillingShape
<1>8. FailedFull'  BY <1>1, <1>7 DEF FInv, FailedFull
<1> QED  BY <1>1, <1>3, <1>7, <1>8, EmptyKeeps

LEMMA NextNotWrittenKeeps ==
  ASSUME FInv, NEW h \in Handle, NextNotWritten(h)
  PROVE  FInv'
<1> DEFINE i == At(fh)
<1>1. /\ i # 0 /\ fh' \in fh + 1 .. Start(i + 1) - 1
      /\ \E k \in 0 .. Len(Whole(i)) :
           temp' = [Filling(Bytes(i, 0, k), Fewer(1, k)) EXCEPT !.failed = TRUE]
      /\ filler' = 0 /\ given' = Nobody /\ UNCHANGED <<arc, disk, arec>> /\ disk = "full"
  BY DEF NextNotWritten, Asks, Same
<1>2. /\ arc \in Arcs /\ fh \in Nat
      /\ temp \in [holds: Block, at: Nat, failed: BOOLEAN]
  BY DEF FInv, FTypes
<1>3. i \in 1 .. Len(Recs)  BY <1>1, AtGives
<1>4. PICK k \in 0 .. Len(Whole(i)) :
        temp' = [Filling(Bytes(i, 0, k), Fewer(1, k)) EXCEPT !.failed = TRUE]
  BY <1>1
<1>5. k \in Nat /\ Fewer(1, k) \in Nat  BY DEF Fewer
<1>6. Bytes(i, 0, k) \in Block  BY <1>5, BytesAt
<1> HIDE DEF i
<1>7. fh' \in Nat /\ fh' <= Size
  <2>1. Size \in Nat /\ Start(Len(Recs) + 1) = Size /\ Len(Recs) \in Nat  BY <1>2, ArcShape
  <2>2. Start(i + 1) <= Size
    <3>1. Len(Recs) + 1 \in i + 1 .. Len(Recs) + 1  BY <1>3, <2>1
    <3> QED  BY <1>2, <1>3, <2>1, <3>1, InOrder
  <2>3. Start(i + 1) \in Nat
    <3>1. Start(i) \in Nat /\ Length(arc, Recs[i]) \in Nat
          /\ Start(i + 1) = Start(i) + Length(arc, Recs[i])
      BY <1>2, <1>3, Tiling, ArcShape
    <3> QED  BY <3>1
  <2> QED  BY <1>1, <1>2, <2>1, <2>2, <2>3
<1>8. temp' \in [holds: Block, at: Nat, failed: BOOLEAN]
  <2>1. Filling(Bytes(i, 0, k), Fewer(1, k)) \in [holds: Block, at: Nat, failed: BOOLEAN]
    BY <1>2, <1>5, <1>6, FillingShape
  <2> QED  BY <1>4, <2>1
<1>9. FailedFull'  BY <1>1 DEF FailedFull
<1> QED  BY <1>1, <1>7, <1>8, <1>9, EmptyKeeps

\* Nothing but the result changes when a flush fails.
LEMMA FlushFailsKeeps ==
  ASSUME FInv, FlushFails
  PROVE  FInv'
<1>1. UNCHANGED <<arc, disk, fh, temp, filler, arec, given>>  BY DEF FlushFails, Same
<1>2. fh' \in Nat /\ fh' <= Size + 2 * W32  BY <1>1 DEF FInv, FTypes, Near
<1> QED  BY <1>1, <1>2, MoveKeeps

LEMMA NextRecordKeeps ==
  ASSUME FInv, NEW h \in Handle, NextRecord(h)
  PROVE  FInv'
BY NextPlainKeeps, NextGarbageKeeps, NextGzipKeeps, NextNotInflatedKeeps, NextNotWrittenKeeps,
   FlushFailsKeeps
   DEF NextRecord, NextAborts

LEMMA WholeBlocks ==
  ASSUME NEW n \in Nat, NEW m \in Nat \ {0}
  PROVE  (n \div m) * m \in 0 .. n
OBVIOUS

\* What a registration leaves in the temporary file.
LEMMA RegisteredShape ==
  ASSUME FInv, NEW h \in Handle, arec[h].of # 0, NEW r \in Registered(h)
  PROVE  /\ r.done \in BOOLEAN /\ r.temp \in [holds: Block, at: Nat, failed: BOOLEAN]
         /\ r.temp.failed => disk = "full"
         /\ arc.mode = "gzip" => r.done /\ r.temp = [temp EXCEPT !.at = arec[h].off]
         /\ arc.mode = "plain" /\ r.done =>
              /\ r.temp.holds = FileBytes(arec[h].off, arec[h].size) /\ r.temp.at = 0
              /\ Len(r.temp.holds) = arec[h].size /\ ~r.temp.failed
<1> DEFINE all   == FileBytes(arec[h].off, arec[h].size)
           n     == Len(all)
           last  == IF n = arec[h].size THEN n ELSE (n \div Flush) * Flush
<1>1. /\ arc \in Arcs /\ temp \in [holds: Block, at: Nat, failed: BOOLEAN]
      /\ arec[h] \in ARecordType /\ arc.mode \in {"plain", "gzip"}
      /\ temp.failed => disk = "full"
  BY ArcShape DEF FInv, FTypes, FailedFull
<1>2. arec[h].off \in Nat /\ arec[h].size \in Nat  BY <1>1 DEF ARecordType
<1>3. all \in Block /\ n \in Nat
  <2>1. all \in Block  BY <1>1, <1>2, FileBytesShape
  <2> QED  BY <2>1 DEF Block
<1>4. CASE arc.mode = "gzip"
  <2>1. r = [temp |-> [temp EXCEPT !.at = arec[h].off], done |-> TRUE]
    BY <1>4 DEF Registered
  <2>2. [temp EXCEPT !.at = arec[h].off] \in [holds: Block, at: Nat, failed: BOOLEAN]
    BY <1>1, <1>2
  <2>3. [temp EXCEPT !.at = arec[h].off].failed = temp.failed  BY <1>1
  <2> QED  BY <1>1, <1>4, <2>1, <2>2, <2>3
<1>5. CASE arc.mode = "plain"
  <2>1. \/ temp.failed /\ r = [temp |-> Filling(<< >>, 0), done |-> FALSE]
        \/ r = [temp |-> Filling(SubSeq(all, 1, last), last), done |-> FALSE]
        \/ /\ disk = "full"
           /\ \E k \in 0 .. last - 1 :
                r = [temp |-> [Filling(SubSeq(all, 1, k), k) EXCEPT !.failed = TRUE],
                     done |-> FALSE]
        \/ n = arec[h].size /\ ~temp.failed /\ r = [temp |-> Filling(all, 0), done |-> TRUE]
    BY <1>5 DEF Registered
  <2>2. last \in 0 .. n
    <3>1. (n \div Flush) * Flush \in 0 .. n  BY <1>3, ArcAssumption, WholeBlocks
    <3> HIDE DEF n
    <3> QED  BY <1>3, <3>1
  <2> HIDE DEF last
  <2>3. \A k \in 0 .. n : SubSeq(all, 1, k) \in Block /\ k \in Nat  BY <1>3, Fore
  <2> HIDE DEF all, n
  <2>4. CASE temp.failed /\ r = [temp |-> Filling(<< >>, 0), done |-> FALSE]
    <3>1. << >> \in Block  BY DEF Block
    <3> QED  BY <1>1, <1>5, <2>4, <3>1, FillingShape
  <2>5. CASE r = [temp |-> Filling(SubSeq(all, 1, last), last), done |-> FALSE]
    <3>1. SubSeq(all, 1, last) \in Block /\ last \in Nat  BY <2>2, <2>3
    <3>2. /\ Filling(SubSeq(all, 1, last), last) \in [holds: Block, at: Nat, failed: BOOLEAN]
          /\ Filling(SubSeq(all, 1, last), last).failed = temp.failed
      BY <1>1, <3>1, FillingShape
    <3> QED  BY <1>1, <1>5, <2>5, <3>2
  <2>6. CASE /\ disk = "full"
             /\ \E k \in 0 .. last - 1 :
                  r = [temp |-> [Filling(SubSeq(all, 1, k), k) EXCEPT !.failed = TRUE],
                       done |-> FALSE]
    <3>1. PICK k \in 0 .. last - 1 :
            r = [temp |-> [Filling(SubSeq(all, 1, k), k) EXCEPT !.failed = TRUE],
                 done |-> FALSE]
      BY <2>6
    <3>2. k \in 0 .. n  BY <1>3, <2>2, <3>1
    <3>3. SubSeq(all, 1, k) \in Block /\ k \in Nat  BY <2>3, <3>2
    <3>4. Filling(SubSeq(all, 1, k), k) \in [holds: Block, at: Nat, failed: BOOLEAN]
      BY <1>1, <3>3, FillingShape
    <3> QED  BY <1>5, <2>6, <3>1, <3>4
  <2>7. CASE n = arec[h].size /\ ~temp.failed /\ r = [temp |-> Filling(all, 0), done |-> TRUE]
    <3>1. /\ Filling(all, 0) \in [holds: Block, at: Nat, failed: BOOLEAN]
          /\ Filling(all, 0).holds = all /\ Filling(all, 0).at = 0
          /\ Filling(all, 0).failed = temp.failed
      BY <1>1, <1>3, FillingShape
    <3> QED  BY <1>5, <2>7, <3>1 DEF all, n
  <2> QED  BY <2>1, <2>4, <2>5, <2>6, <2>7
<1> QED  BY <1>1, <1>4, <1>5

\* Where the data of a compressed record begin.
LEMMA DataOffset ==
  ASSUME FInv, NEW h \in Handle, arec[h].of # 0, arc.mode = "gzip"
  PROVE  /\ arec[h].off = Recs[arec[h].of].head
         /\ filler = arec[h].of =>
              temp.holds = Whole(filler) /\ arec[h].off \in 0 .. Len(temp.holds)
<1>1. Rightful(arec[h]) /\ arc \in Arcs  BY DEF FInv, FTypes, AllRightful, NoARecord
<1>2. arec[h].of \in 1 .. Len(Recs) /\ Recs[arec[h].of] \in ArcType  BY <1>1, ArcShape DEF Rightful
<1>3. /\ Recs[arec[h].of].head \in Nat /\ Recs[arec[h].of].data \in Nat
      /\ Recs[arec[h].of].sep \in Nat
  BY <1>2 DEF ArcType
<1>4. arec[h].off = Recs[arec[h].of].head  BY <1>1, <1>3 DEF Rightful
<1>5. ASSUME filler = arec[h].of
      PROVE  temp.holds = Whole(filler) /\ arec[h].off \in 0 .. Len(temp.holds)
  <2>1. temp.holds = Whole(filler)  BY <1>5 DEF FInv, Filled
  <2>2. Len(Whole(filler)) = Recs[filler].head + Recs[filler].data + Recs[filler].sep
    BY <1>1, <1>2, <1>5, WholeShape
  <2> QED  BY <1>3, <1>4, <1>5, <2>1, <2>2, SMTT(30)
<1> QED  BY <1>4, <1>5

LEMMA RegisterKeeps ==
  ASSUME FInv, NEW h \in Handle, Register(h)
  PROVE  FInv'
<1>1. PICK r \in Registered(h) :
        /\ temp' = r.temp
        /\ filler' = CASE arc.mode = "gzip" -> filler
                       [] arc.mode = "plain" /\ r.done -> arec[h].of
                       [] OTHER -> 0
        /\ arec' = [arec EXCEPT ![h].cback = TRUE, ![h].dataf = @ \/ r.done]
        /\ given' = IF r.done THEN [by |-> {h}, bytes |-> << >>] ELSE Nobody
  BY DEF Register
<1>2. arec[h].of # 0 /\ UNCHANGED <<arc, disk, fh>>  BY DEF Register, Same
<1>3. /\ r.done \in BOOLEAN /\ r.temp \in [holds: Block, at: Nat, failed: BOOLEAN]
      /\ arc.mode = "gzip" => r.done /\ r.temp = [temp EXCEPT !.at = arec[h].off]
      /\ r.temp.failed => disk = "full"
      /\ arc.mode = "plain" /\ r.done =>
           /\ r.temp.holds = FileBytes(arec[h].off, arec[h].size) /\ r.temp.at = 0
           /\ Len(r.temp.holds) = arec[h].size
  BY <1>2, RegisteredShape
<1>4. /\ arc \in Arcs /\ temp \in [holds: Block, at: Nat, failed: BOOLEAN]
      /\ arec \in [Handle -> ARecordType]
      /\ filler \in 0 .. Len(Recs) /\ arc.mode \in {"plain", "gzip"}
  BY ArcShape DEF FInv, FTypes
<1>5. Rightful(arec[h])  BY <1>2 DEF FInv, AllRightful, NoARecord
<1> DEFINE a == [arec[h] EXCEPT !.cback = TRUE, !.dataf = @ \/ r.done]
<1>6. a \in ARecordType /\ a.of = arec[h].of /\ a.off = arec[h].off /\ a.size = arec[h].size
  <2>1. arec[h] \in ARecordType /\ (arec[h].dataf \/ r.done) \in BOOLEAN
    BY <1>3, <1>4 DEF ARecordType
  <2> QED  BY <2>1 DEF ARecordType
<1>7. arec' = [arec EXCEPT ![h] = a]  BY <1>1, <1>4
<1>8. filler' \in 0 .. Len(Recs) /\ Filled'
  <2>1. CASE arc.mode = "gzip"
    <3>1. filler' = filler  BY <1>1, <2>1
    <3>2. temp'.holds = temp.holds  BY <1>1, <1>3, <1>4, <2>1
    <3> QED  BY <1>2, <1>4, <3>1, <3>2, SameFile DEF FInv, Filled
  <2>2. CASE arc.mode = "plain"
    <3>1. filler' = arec[h].of \/ filler' = 0  BY <1>1, <1>3, <2>2
    <3>2. Len(Recs) \in Nat /\ arec[h].of \in 1 .. Len(Recs)
      BY <1>4, <1>5, ArcShape DEF Rightful
    <3> QED  BY <1>2, <2>2, <3>1, <3>2 DEF Filled
  <2> QED  BY <1>4, <2>1, <2>2
<1>9. given' \in [by: SUBSET Handle, bytes: Block] /\ given'.by \subseteq {h}
      /\ given'.bytes = << >> /\ (h \in given'.by => given'.by = {h} /\ r.done)
  <2>1. << >> \in Block  BY DEF Block
  <2> QED  BY <1>1, <1>3, <2>1 DEF Nobody
<1>10. ASSUME h \in given'.by PROVE GivingTo(h)'
  <2>1. r.done /\ given'.by = {h}  BY <1>9, <1>10
  <2>2. arec'[h] = a  BY <1>4, <1>7
  <2>3. First(arec[h])' = First(arec[h])  BY <1>2, <1>6, <2>2, SameFile DEF First
  <2>4. /\ arc'.mode = arc.mode /\ arec'[h].of = arec[h].of /\ arec'[h].off = arec[h].off
        /\ arec'[h].size = arec[h].size
    BY <1>2, <1>6, <2>2
  <2>5. CASE arc.mode = "plain"
    <3>1. /\ temp'.holds = FileBytes(arec[h].off, arec[h].size) /\ temp'.at = 0
          /\ Len(temp'.holds) = arec[h].size
      BY <1>1, <1>3, <2>1, <2>5
    <3>2. First(arec[h]) = 0  BY <2>5 DEF First
    <3>3. SubSeq(temp'.holds, 0 + 1, temp'.at) = << >>  BY <3>1, SubSeqEmpty
    <3>4. temp'.at \in 0 .. Len(temp'.holds)
      <4>1. arec[h].size \in Nat  BY <1>4 DEF ARecordType
      <4> QED  BY <3>1, <4>1
    <3> QED
      BY <1>2, <1>9, <2>1, <2>2, <2>3, <2>4, <3>1, <3>2, <3>3, <3>4, SameFile DEF GivingTo
  <2>6. CASE arc.mode = "gzip"
    <3>1. temp'.holds = temp.holds /\ temp'.at = arec[h].off /\ filler' = filler
      BY <1>1, <1>3, <1>4, <2>6
    <3>2. First(arec[h]) = arec[h].off  BY <1>2, <2>6, DataOffset DEF First
    <3>3. arec[h].off \in Nat  BY <1>4 DEF ARecordType
    <3>4. SubSeq(temp'.holds, arec[h].off + 1, arec[h].off) = << >>  BY <3>3, SubSeqEmpty
    <3>5. filler = arec[h].of => arec[h].off \in arec[h].off .. Len(temp.holds)
      BY <1>2, <2>6, <3>3, DataOffset
    <3> QED
      BY <1>2, <1>9, <2>1, <2>2, <2>3, <2>4, <2>6, <3>1, <3>2, <3>4, <3>5 DEF GivingTo
  <2> QED  BY <1>4, <2>5, <2>6
<1>11. FailedFull'  BY <1>1, <1>2, <1>3 DEF FailedFull
<1> HIDE DEF a
<1> QED  BY <1>1, <1>2, <1>3, <1>6, <1>7, <1>8, <1>9, <1>10, <1>11, GiveKeeps

\* What is left in a temporary file.
LEMMA RestShape ==
  ASSUME NEW t \in [holds: Block, at: Nat, failed: BOOLEAN]
  PROVE  /\ Rest(t) \in Block
         /\ Len(Rest(t)) = IF t.at <= Len(t.holds) THEN Len(t.holds) - t.at ELSE 0
<1>1. t.holds \in Block /\ t.at \in Nat  OBVIOUS
<1>2. Len(t.holds) \in 0 .. Len(t.holds)  BY <1>1 DEF Block
<1> QED  BY <1>1, <1>2, Stretch DEF Rest

LEMMA GetContentKeeps ==
  ASSUME FInv, NEW h \in Handle, GetContent(h)
  PROVE  FInv'
<1>1. /\ UNCHANGED <<arc, disk, fh, filler, arec>> /\ arec[h].cback
      /\ \/ UNCHANGED <<temp, given>>
         \/ /\ temp' = [temp EXCEPT !.at = @ + Fewer(Flush, Len(Rest(temp)))]
            /\ given' = Nobody
         \/ \E k \in 1 .. Len(Rest(temp)) + 1 :
              LET n == Fewer(k * Flush, Len(Rest(temp))) IN
              /\ given' = IF given.by # {h} THEN Nobody
                          ELSE [given EXCEPT !.bytes = @ \o SubSeq(Rest(temp), 1, n)]
              /\ temp' = [temp EXCEPT !.at = @ + n]
  BY ZenonT(60) DEF GetContent, Same
<1>2. /\ temp \in [holds: Block, at: Nat, failed: BOOLEAN] /\ filler \in 0 .. Len(Recs)
      /\ arec \in [Handle -> ARecordType] /\ given \in [by: SUBSET Handle, bytes: Block]
      /\ arc \in Arcs /\ fh \in Nat /\ fh <= Size + 2 * W32
  BY DEF FInv, FTypes, Near
<1>3. arec[h].of # 0
  <2>1. arec[h] # NoARecord  BY <1>1 DEF NoARecord
  <2>2. Rightful(arec[h])  BY <2>1 DEF FInv, AllRightful
  <2>3. Len(Recs) \in Nat  BY <1>2, ArcShape
  <2> QED  BY <2>2, <2>3 DEF Rightful
<1>4. CASE UNCHANGED <<temp, given>>  BY <1>1, <1>2, <1>4, MoveKeeps
<1>6. CASE /\ temp' = [temp EXCEPT !.at = @ + Fewer(Flush, Len(Rest(temp)))]
           /\ given' = Nobody
  <2>1. Fewer(Flush, Len(Rest(temp))) \in Nat
    <3>1. Len(Rest(temp)) \in Nat  BY <1>2, RestShape DEF Block
    <3> QED  BY <3>1, ArcAssumption DEF Fewer
  <2>2. /\ temp' \in [holds: Block, at: Nat, failed: BOOLEAN]
        /\ temp'.holds = temp.holds /\ temp'.failed = temp.failed
    <3> HIDE DEF Block
    <3> QED  BY <1>2, <1>6, <2>1
  <2>3. Filled' /\ FailedFull'  BY <1>1, <2>2, SameFile DEF FInv, Filled, FailedFull
  <2>4. arec' \in [Handle -> ARecordType] /\ AllRightful'
    BY <1>1, SameFile DEF FInv, FTypes, AllRightful
  <2> QED  BY <1>1, <1>2, <1>6, <2>2, <2>3, <2>4, FillKeeps
<1>5. ASSUME NEW k \in 1 .. Len(Rest(temp)) + 1, NEW n, n = Fewer(k * Flush, Len(Rest(temp))),
             given' = IF given.by # {h} THEN Nobody
                      ELSE [given EXCEPT !.bytes = @ \o SubSeq(Rest(temp), 1, n)],
             temp' = [temp EXCEPT !.at = @ + n]
      PROVE  FInv'
  <2> DEFINE s == temp.holds
             rest == Rest(temp)
             piece == SubSeq(rest, 1, n)
  <2>1. /\ s \in Block /\ temp.at \in Nat /\ Len(s) \in Nat /\ rest \in Block
        /\ Len(rest) = IF temp.at <= Len(s) THEN Len(s) - temp.at ELSE 0
    <3>1. s \in Block /\ temp.at \in Nat  BY <1>2
    <3>2. Len(s) \in Nat  BY <3>1 DEF Block
    <3>3. rest \in Block  BY <1>2, RestShape
    <3>4. Len(rest) = IF temp.at <= Len(s) THEN Len(s) - temp.at ELSE 0  BY <1>2, RestShape
    <3> QED  BY <3>1, <3>2, <3>3, <3>4
  <2>2. n \in 0 .. Len(rest)
    <3>1. Len(rest) \in Nat  BY <2>1
    <3>2. k \in Nat /\ Flush \in Nat  BY <3>1, ArcAssumption
    <3>3. k * Flush \in Nat  BY <3>2
    <3> HIDE DEF rest
    <3> QED  BY <1>5, <3>1, <3>3 DEF Fewer, rest
  <2>3. piece \in Block
    <3>1. SubSeq(rest, 0 + 1, n) \in Block  BY <2>1, <2>2, Stretch
    <3> QED  BY <3>1
  <2>4. given.bytes \o piece \in Block
    <3>1. given.bytes \in Seq(Byte) /\ piece \in Seq(Byte)  BY <1>2, <2>3 DEF Block
    <3> HIDE DEF Byte, piece
    <3> QED  BY <3>1, ConcatProperties DEF Block
  <2>5. temp' \in [holds: Block, at: Nat, failed: BOOLEAN] /\ temp'.holds = s
        /\ temp'.at = temp.at + n /\ temp'.failed = temp.failed
    <3>1. temp.at + n \in Nat
      <4>1. Len(rest) \in Nat  BY <2>1
      <4> QED  BY <2>1, <2>2, <4>1
    <3> QED  BY <1>2, <1>5, <3>1
  <2>6. Filled' /\ FailedFull'  BY <1>1, <2>5, SameFile DEF FInv, Filled, FailedFull
  <2>7. /\ given' \in [by: SUBSET Handle, bytes: Block] /\ given'.by \subseteq {h}
        /\ h \in given'.by => given.by = {h} /\ given'.by = {h}
                              /\ given'.bytes = given.bytes \o piece
    <3>1. CASE given.by # {h}
      <4>1. << >> \in Block  BY DEF Block
      <4> QED  BY <1>5, <3>1, <4>1 DEF Nobody
    <3>2. CASE given.by = {h}  BY <1>2, <1>5, <2>4, <3>2
    <3> QED  BY <3>1, <3>2
  <2>8. ASSUME h \in given'.by PROVE GivingTo(h)'
    <3>1. GivingTo(h) /\ given'.by = {h} /\ given'.bytes = given.bytes \o piece
      BY <2>7, <2>8 DEF FInv, Giving
    <3>2. /\ First(arec[h])' = First(arec[h]) /\ arec'[h] = arec[h] /\ arc' = arc
          /\ filler' = filler
      BY <1>1, SameFile DEF First
    <3>3. ASSUME arc.mode = "plain" \/ filler = arec[h].of
          PROVE  /\ temp'.at \in First(arec[h]) .. Len(s)
                 /\ given'.bytes = SubSeq(s, First(arec[h]) + 1, temp'.at)
      <4> DEFINE f == First(arec[h])
      <4>1. temp.at \in f .. Len(s) /\ given.bytes = SubSeq(s, f + 1, temp.at)
        BY <3>1, <3>3 DEF GivingTo
      <4>2. f \in Nat
        <5>1. Rightful(arec[h])  BY <1>3 DEF FInv, AllRightful, NoARecord
        <5>2. Recs[arec[h].of] \in ArcType  BY <1>2, <5>1, ArcShape DEF Rightful
        <5> QED  BY <5>2 DEF First, ArcType
      <4> HIDE DEF f
      <4>3. Len(rest) = Len(s) - temp.at /\ temp.at + n \in temp.at .. Len(s)
        BY <2>1, <2>2, <4>1, <4>2, SMTT(30)
      <4>4. n \in Nat  BY <2>1, <2>2
      <4>5. piece = SubSeq(s, temp.at + 1, temp.at + n)
        <5>1. Len(s) \in 0 .. Len(s) /\ temp.at + n <= Len(s)  BY <2>1, <4>3
        <5> QED  BY <2>1, <4>4, <5>1, Beginning DEF Rest
      <4>6. f \in 0 .. Len(s) /\ temp.at \in f .. Len(s) /\ temp.at + n \in temp.at .. Len(s)
        BY <2>1, <4>1, <4>2, <4>3, SMTT(30)
      <4>7. given.bytes \o piece = SubSeq(s, f + 1, temp.at + n)
        BY <2>1, <4>1, <4>5, <4>6, Join
      <4>8. temp.at + n \in f .. Len(s)  BY <4>1, <4>2, <4>3, <4>4
      <4> QED  BY <2>5, <3>1, <4>7, <4>8 DEF f
    <3>4. given'.by = {h} /\ arec'[h].of # 0  BY <3>1, <3>2 DEF GivingTo
    <3>5. ASSUME arc'.mode = "plain"
          PROVE  /\ temp'.holds = FileBytes(arec[h].off, arec[h].size)'
                 /\ Len(temp'.holds) = arec'[h].size
      <4>1. s = FileBytes(arec[h].off, arec[h].size) /\ Len(s) = arec[h].size
        BY <3>1, <3>2, <3>5 DEF GivingTo
      <4>2. FileBytes(arec[h].off, arec[h].size)' = FileBytes(arec[h].off, arec[h].size)
        BY <3>2, SameFile
      <4> QED  BY <2>5, <3>2, <4>1, <4>2
    <3>6. ASSUME arc'.mode = "plain" \/ filler' = arec'[h].of
          PROVE  /\ temp'.at \in First(arec[h])' .. Len(temp'.holds)
                 /\ given'.bytes = SubSeq(temp'.holds, First(arec[h])' + 1, temp'.at)
      <4>1. arc.mode = "plain" \/ filler = arec[h].of  BY <3>2, <3>6
      <4> QED  BY <2>5, <3>2, <3>3, <4>1
    <3> QED  BY ONLY <3>4, <3>5, <3>6 DEF GivingTo
  <2>9. arec[h] \in ARecordType /\ arec' = [arec EXCEPT ![h] = arec[h]]  BY <1>1, <1>2
  <2>10. filler' \in 0 .. Len(Recs) /\ UNCHANGED <<arc, disk, fh>>  BY <1>1, <1>2
  <2> QED  BY <1>3, <2>5, <2>6, <2>7, <2>8, <2>9, <2>10, GiveKeeps
<1> QED  BY <1>1, <1>4, <1>5, <1>6

LEMMA ReleaseKeeps ==
  ASSUME FInv, NEW h \in Handle, Release(h)
  PROVE  FInv'
<1>1. /\ arec' = [arec EXCEPT ![h] = NoARecord]
      /\ given' = IF given.by = {h} THEN Nobody ELSE given
      /\ UNCHANGED <<arc, disk, fh, temp, filler>>
  BY DEF Release, Same
<1>2. NoARecord \in ARecordType /\ << >> \in Block  BY DEF NoARecord, ARecordType, Block
<1>3. FTypes'  BY <1>1, <1>2 DEF FInv, FTypes, Recs, Nobody
<1>4. Near' /\ AllRightful' /\ Filled' /\ FailedFull'
  BY <1>1, SameFile DEF FInv, FTypes, Near, AllRightful, Filled, FailedFull
<1>5. Giving'
  <2> SUFFICES ASSUME NEW g \in given'.by PROVE GivingTo(g)'  BY DEF Giving
  <2>1. given' = given /\ given.by # {h}  BY <1>1 DEF Nobody
  <2>2. GivingTo(g)  BY <2>1 DEF FInv, Giving
  <2>3. g # h  BY <2>1, <2>2 DEF GivingTo
  <2>4. arec'[g] = arec[g]  BY <1>1, <2>3 DEF FInv, FTypes
  <2> QED  BY <1>1, <2>1, <2>2, <2>4, SameFile DEF GivingTo
<1> QED  BY <1>3, <1>4, <1>5 DEF FInv

-----------------------------------------------------------------------------
(* What the invariant says. *)

\* What was given to a record and what is left for it are all that belongs to it.
LEMMA GivenAndRest ==
  ASSUME FInv, NEW h \in given.by, arc.mode = "plain" \/ filler = arec[h].of
  PROVE  given.bytes \o Rest(temp)
           = SubSeq(temp.holds, First(arec[h]) + 1, Len(temp.holds))
<1> DEFINE f == First(arec[h])
           s == temp.holds
<1>1. h \in Handle /\ s \in Block /\ temp.at \in Nat  BY DEF FInv, FTypes
<1>2. Len(s) \in Nat  BY <1>1 DEF Block
<1>3. temp.at \in f .. Len(s) /\ given.bytes = SubSeq(s, f + 1, temp.at) /\ arec[h].of # 0
  BY DEF FInv, Giving, GivingTo
<1>4. f \in Nat
  <2>1. Rightful(arec[h])  BY <1>1, <1>3 DEF FInv, AllRightful, NoARecord
  <2>2. Recs[arec[h].of] \in ArcType  BY <2>1, ArcShape DEF FInv, FTypes, Rightful
  <2> QED  BY <2>2 DEF First, ArcType
<1> HIDE DEF f
<1>5. f \in 0 .. Len(s) /\ temp.at \in f .. Len(s) /\ Len(s) \in temp.at .. Len(s)
  BY <1>2, <1>3, <1>4
<1>6. SubSeq(s, f + 1, temp.at) \o SubSeq(s, temp.at + 1, Len(s)) = SubSeq(s, f + 1, Len(s))
  BY <1>1, <1>5, Join
<1> QED  BY <1>3, <1>6 DEF Rest, f

=============================================================================
