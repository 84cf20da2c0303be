---------------------------- MODULE WClient_proofs ----------------------------
(***************************************************************************)
(* Proofs about the server, its clients and the process that writes the     *)
(* file, for any number of clients, requests and records.                   *)
(***************************************************************************)
EXTENDS WClient, FiniteSetTheorems, SequenceFacts

-----------------------------------------------------------------------------
(* A remainder. *)

LEMMA Remainder ==
  ASSUME NEW m \in Nat, NEW n \in Nat \ {0}
  PROVE  m % n \in 0 .. n - 1
OBVIOUS

-----------------------------------------------------------------------------
(* The file. *)

\* Records that follow each other from the beginning of the file.
Chained(f) ==
  /\ f \in Seq(RecordType) /\ Len(f) \in Nat \ {0} /\ f[1].off = 0
  /\ \A i \in 1 .. Len(f) : f[i].len > 0
  /\ \A i \in 1 .. Len(f) - 1 : f[i + 1].off = EndOf(f[i])

\* The numbers of a record.
LEMMA RecordNumbers ==
  ASSUME NEW f, Chained(f), NEW i \in 1 .. Len(f)
  PROVE  /\ f[i] \in RecordType /\ f[i].id \in Nat
         /\ f[i].off \in Nat /\ f[i].len \in Nat \ {0}
         /\ EndOf(f[i]) \in Nat /\ f[i].off < EndOf(f[i])
<1>1. f[i] \in RecordType /\ f[i].len > 0  BY DEF Chained
<1>2. f[i].off \in Nat /\ f[i].len \in Nat \ {0} /\ f[i].id \in Nat  BY <1>1 DEF RecordType
<1> QED  BY <1>1, <1>2 DEF EndOf

\* A record begins behind the end of every earlier one.
LEMMA Later ==
  ASSUME NEW f, Chained(f), NEW i \in 1 .. Len(f), NEW j \in i + 1 .. Len(f)
  PROVE  EndOf(f[i]) <= f[j].off
<1>0. Len(f) \in Nat \ {0} /\ i \in Nat /\ EndOf(f[i]) \in Nat  BY RecordNumbers DEF Chained
<1> DEFINE T == {k \in i + 1 .. Len(f) : f[k].off < EndOf(f[i])}
<1>1. ASSUME T # {} PROVE FALSE
  <2>1. T \subseteq Nat  BY <1>0
  <2>2. PICK m \in T : \A k \in T : m <= k  BY <1>1, <2>1, LeastNumber
  <2>3. m \in i + 1 .. Len(f) /\ f[m].off < EndOf(f[i])  OBVIOUS
  <2>4. m - 1 \in 1 .. Len(f) - 1 /\ m - 1 \in 1 .. Len(f) /\ m - 1 + 1 = m
    BY <1>0, <2>3
  <2>5. f[m].off = EndOf(f[m - 1])  BY <2>4 DEF Chained
  <2>6. m # i + 1  BY <1>0, <2>3, <2>5
  <2>7. m - 1 \in i + 1 .. Len(f) /\ m - 1 \notin T  BY <1>0, <2>2, <2>3, <2>6
  <2>8. ~ (f[m - 1].off < EndOf(f[i]))  BY <2>7
  <2>9. f[m - 1].off \in Nat /\ EndOf(f[m - 1]) \in Nat /\ f[m - 1].off < EndOf(f[m - 1])
    BY <2>4, RecordNumbers
  <2> QED  BY <1>0, <2>3, <2>5, <2>8, <2>9
<1>2. j \in 1 .. Len(f)  BY <1>0
<1>3. f[j].off \in Nat  BY <1>2, RecordNumbers
<1> QED  BY <1>0, <1>1, <1>3

\* Every byte of the file is one of a record.
LEMMA InSomeRecord ==
  ASSUME NEW f, Chained(f), NEW p \in Nat, p < EndOf(f[Len(f)])
  PROVE  \E i \in 1 .. Len(f) : f[i].off <= p /\ p < EndOf(f[i])
<1>0. Len(f) \in Nat \ {0}  BY DEF Chained
<1> DEFINE T == {k \in 1 .. Len(f) : p < EndOf(f[k])}
<1>1. T \subseteq Nat /\ Len(f) \in T  BY <1>0
<1>2. PICK m \in T : \A k \in T : m <= k  BY <1>1, LeastNumber
<1>3. m \in 1 .. Len(f) /\ p < EndOf(f[m])  OBVIOUS
<1>4. f[m].off <= p
  <2>1. CASE m = 1  BY <2>1 DEF Chained
  <2>2. CASE m # 1
    <3>1. m - 1 \in 1 .. Len(f) - 1 /\ m - 1 \in 1 .. Len(f) /\ m - 1 + 1 = m
      BY <1>0, <1>3, <2>2
    <3>2. m - 1 \notin T  BY <1>2, <1>3
    <3>3. ~ (p < EndOf(f[m - 1]))  BY <3>1, <3>2
    <3>4. f[m].off = EndOf(f[m - 1])  BY <3>1 DEF Chained
    <3>5. EndOf(f[m - 1]) \in Nat  BY <3>1, RecordNumbers
    <3> QED  BY <3>3, <3>4, <3>5
  <2> QED  BY <2>1, <2>2
<1> QED  BY <1>3, <1>4

LEMMA ChainedAppend ==
  ASSUME NEW f, Chained(f), NEW r \in RecordType, r.len > 0, r.off = EndOf(f[Len(f)])
  PROVE  Chained(Append(f, r))
<1> DEFINE g == Append(f, r)
<1>1. /\ f \in Seq(RecordType) /\ Len(f) \in Nat \ {0} /\ g \in Seq(RecordType)
      /\ Len(g) = Len(f) + 1 /\ g[Len(f) + 1] = r
      /\ \A i \in 1 .. Len(f) : g[i] = f[i]
  BY DEF Chained
<1> HIDE DEF g
<1>2. g[1].off = 0  BY <1>1 DEF Chained
<1>3. ASSUME NEW i \in 1 .. Len(g) PROVE g[i].len > 0
  <2>1. i \in 1 .. Len(f) \/ i = Len(f) + 1  BY <1>1
  <2> QED  BY <1>1, <2>1 DEF Chained
<1>4. ASSUME NEW i \in 1 .. Len(g) - 1 PROVE g[i + 1].off = EndOf(g[i])
  <2>1. i \in 1 .. Len(f)  BY <1>1
  <2>2. CASE i = Len(f)  BY <1>1, <2>2
  <2>3. CASE i # Len(f)
    <3>1. i \in 1 .. Len(f) - 1 /\ i + 1 \in 1 .. Len(f)  BY <1>1, <2>1, <2>3
    <3>2. f[i + 1].off = EndOf(f[i])  BY <3>1 DEF Chained
    <3> QED  BY <1>1, <2>1, <3>1, <3>2
  <2> QED  BY <2>2, <2>3
<1>5. Len(g) \in Nat \ {0}  BY <1>1
<1>6. Chained(g)  BY <1>1, <1>2, <1>3, <1>4, <1>5 DEF Chained
<1> QED  BY <1>6 DEF g

LEMMA ChainedPart ==
  ASSUME NEW f, Chained(f), NEW n \in 1 .. Len(f)
  PROVE  /\ Chained(SubSeq(f, 1, n)) /\ Len(SubSeq(f, 1, n)) = n
         /\ \A i \in 1 .. n : SubSeq(f, 1, n)[i] = f[i]
<1> DEFINE g == SubSeq(f, 1, n)
<1>0. f \in Seq(RecordType) /\ Len(f) \in Nat \ {0} /\ n \in Nat \ {0}  BY DEF Chained
<1>1. /\ g \in Seq(RecordType) /\ Len(g) = n
      /\ \A i \in 1 .. n : g[i] = f[i]
  BY <1>0
<1> HIDE DEF g
<1>2. \A i \in 1 .. n : i \in 1 .. Len(f)  BY <1>0
<1>3. g[1].off = 0  BY <1>0, <1>1 DEF Chained
<1>4. ASSUME NEW i \in 1 .. Len(g) PROVE g[i].len > 0  BY <1>1, <1>2 DEF Chained
<1>5. ASSUME NEW i \in 1 .. Len(g) - 1 PROVE g[i + 1].off = EndOf(g[i])
  <2>1. i \in 1 .. Len(f) - 1 /\ i \in 1 .. n /\ i + 1 \in 1 .. n  BY <1>0, <1>1
  <2>2. f[i + 1].off = EndOf(f[i])  BY <2>1 DEF Chained
  <2> QED  BY <1>1, <2>1, <2>2
<1>6. Chained(g)  BY <1>0, <1>1, <1>3, <1>4, <1>5 DEF Chained
<1> QED  BY <1>1, <1>6 DEF g

\* The file: complete records that follow each other, and perhaps one under way.
Disk ==
  /\ mode \in Mode /\ Chained(recs)
  /\ acked \in 1 .. Len(recs) /\ Len(recs) <= acked + 1
  /\ born \in Len(recs) .. MaxBorn
  /\ size \in AckedEnd .. EndOf(recs[Len(recs)])

LEMMA DiskInit == Init => Disk
<1> SUFFICES ASSUME Init PROVE Disk  OBVIOUS
<1>1. /\ mode \in Mode /\ recs \in FirstFile
      /\ acked = Len(recs) /\ size = EndOf(recs[acked]) /\ born = acked
  BY DEF Init
<1>2. /\ recs \in Seq(RecordType) /\ Len(recs) \in 1 .. MaxBorn
      /\ \A i \in 1 .. Len(recs) :
           /\ recs[i].len \in HeaderLen + 1 .. I31 - 1
           /\ recs[i].off = IF i = 1 THEN 0 ELSE recs[i - 1].off + recs[i - 1].len
      /\ HeaderLen \in Nat /\ MaxBorn \in Nat /\ I31 \in Nat
  BY <1>1, ServerAssumption
<1>3. Len(recs) \in Nat \ {0}  BY <1>2
<1>4. Chained(recs)
  <2>1. recs[1].off = 0  BY <1>2, <1>3
  <2>2. ASSUME NEW i \in 1 .. Len(recs) PROVE recs[i].len > 0
    <3>1. recs[i].len \in HeaderLen + 1 .. I31 - 1  BY <1>2
    <3> QED  BY <1>2, <3>1
  <2>3. ASSUME NEW i \in 1 .. Len(recs) - 1 PROVE recs[i + 1].off = EndOf(recs[i])
    <3>1. i + 1 \in 1 .. Len(recs) /\ i + 1 # 1 /\ i + 1 - 1 = i  BY <1>3
    <3> QED  BY <1>2, <3>1 DEF EndOf
  <2> QED  BY <1>2, <1>3, <2>1, <2>2, <2>3 DEF Chained
<1>5. acked \in 1 .. Len(recs) /\ acked # 0  BY <1>1, <1>3
<1>6. EndOf(recs[acked]) \in Nat  BY <1>4, <1>5, RecordNumbers
<1>7. size \in AckedEnd .. EndOf(recs[Len(recs)])  BY <1>1, <1>5, <1>6 DEF AckedEnd
<1> QED  BY <1>1, <1>2, <1>3, <1>4, <1>5, <1>7 DEF Disk

LEMMA DiskNumbers ==
  ASSUME Disk
  PROVE  /\ acked \in Nat \ {0} /\ Len(recs) \in Nat \ {0} /\ size \in Nat \ {0}
         /\ AckedEnd = EndOf(recs[acked]) /\ AckedEnd \in Nat \ {0}
         /\ EndOf(recs[Len(recs)]) \in Nat /\ AckedEnd <= size
         /\ size <= EndOf(recs[Len(recs)])
         /\ born \in Nat /\ MaxBorn \in Nat /\ born <= MaxBorn /\ Len(recs) <= born
<1>1. Chained(recs) /\ acked \in 1 .. Len(recs) /\ Len(recs) \in Nat \ {0}
  BY DEF Disk, Chained
<1>2. acked \in Nat \ {0} /\ Len(recs) \in 1 .. Len(recs)  BY <1>1
<1>3. /\ EndOf(recs[Len(recs)]) \in Nat /\ EndOf(recs[acked]) \in Nat
      /\ recs[acked].off \in Nat /\ recs[acked].off < EndOf(recs[acked])
  BY <1>1, <1>2, RecordNumbers
<1>4. AckedEnd = EndOf(recs[acked])  BY <1>2 DEF AckedEnd
<1>5. size \in AckedEnd .. EndOf(recs[Len(recs)])  BY DEF Disk
<1>6. born \in Len(recs) .. MaxBorn /\ MaxBorn \in Nat  BY ServerAssumption DEF Disk
<1> QED  BY <1>1, <1>2, <1>3, <1>4, <1>5, <1>6

\* What the writing process does to the file.
LEMMA BeginStep ==
  ASSUME Disk, Begin
  PROVE  Disk' /\ acked' = acked
<1>0. PICK r \in Coming : \E k \in 1 .. r.len :
        /\ recs' = Append(recs, [id |-> born + 1, off |-> size, len |-> r.len, hit |-> r.hit,
                                empty |-> r.empty])
        /\ size' = size + k
  BY DEF Begin
<1>1. PICK k \in 1 .. r.len :
        /\ recs' = Append(recs, [id |-> born + 1, off |-> size, len |-> r.len, hit |-> r.hit,
                                empty |-> r.empty])
        /\ size' = size + k
  BY <1>0
<1>2. /\ acked = Len(recs) /\ born < MaxBorn /\ born' = born + 1 /\ acked' = acked
      /\ mode' = mode
  BY DEF Begin, Written
<1>3. r.len \in Nat \ {0} /\ r.hit \in BOOLEAN /\ r.empty \in BOOLEAN
  BY ServerAssumption
<1> DEFINE new == [id |-> born + 1, off |-> size, len |-> r.len, hit |-> r.hit,
                   empty |-> r.empty]
<1>4. born \in Nat /\ size \in Nat /\ size = EndOf(recs[Len(recs)])
  BY <1>2, DiskNumbers
<1>5. new \in RecordType /\ new.len > 0 /\ new.off = EndOf(recs[Len(recs)])
  BY <1>3, <1>4 DEF RecordType
<1>6. Chained(recs)  BY DEF Disk
<1>7. EndOf(new) = size + r.len  BY DEF EndOf
<1>8. recs' = Append(recs, new)  BY <1>1
<1> HIDE DEF new
<1>9. Chained(recs')  BY <1>5, <1>6, <1>8, ChainedAppend
<1>10. /\ Len(recs') = Len(recs) + 1 /\ recs'[Len(recs')] = new
       /\ recs'[Len(recs)] = recs[Len(recs)]
  BY <1>6, <1>8, DiskNumbers DEF Chained
<1>11. acked' \in 1 .. Len(recs') /\ Len(recs') <= acked' + 1 /\ acked' # 0
  BY <1>2, <1>10, DiskNumbers
<1>12. born' \in Len(recs') .. MaxBorn  BY <1>2, <1>10, DiskNumbers
<1>13. size' \in size .. EndOf(new)  BY <1>1, <1>3, <1>4, <1>7
<1>14. AckedEnd' = EndOf(recs[Len(recs)])
  <2>1. AckedEnd' = EndOf(recs'[acked'])  BY <1>11 DEF AckedEnd
  <2> QED  BY <1>2, <1>10, <2>1
<1>15. size' \in AckedEnd' .. EndOf(recs'[Len(recs')])  BY <1>4, <1>10, <1>13, <1>14
<1> QED  BY <1>2, <1>9, <1>11, <1>12, <1>15 DEF Disk

LEMMA WriterStep ==
  ASSUME Disk, Writer
  PROVE  /\ Disk' /\ acked' \in Nat /\ acked <= acked'
         /\ UNCHANGED <<phase, exit, round, job, conn>>
<1>0. UNCHANGED <<phase, exit, round, job, conn>>
  BY DEF Writer, Begin, Grow, Stored, Withdraw, Written
<1>1. CASE Begin  BY <1>0, <1>1, BeginStep, DiskNumbers
<1>2. CASE Grow
  <2>1. /\ recs' = recs /\ acked' = acked /\ born' = born /\ mode' = mode
        /\ size' \in size + 1 .. EndOf(recs[Len(recs)])
    BY <1>2 DEF Grow, Written
  <2>2. AckedEnd' = AckedEnd  BY <2>1 DEF AckedEnd
  <2>3. size' \in AckedEnd .. EndOf(recs[Len(recs)])  BY <2>1, DiskNumbers
  <2> QED  BY <1>0, <2>1, <2>2, <2>3, DiskNumbers DEF Disk
<1>3. CASE Stored
  <2>1. /\ recs' = recs /\ acked' = Len(recs) /\ born' = born /\ mode' = mode
        /\ size' = size /\ size = EndOf(recs[Len(recs)]) /\ acked < Len(recs)
    BY <1>3 DEF Stored, Written
  <2>2. AckedEnd' = EndOf(recs[Len(recs)])  BY <2>1, DiskNumbers DEF AckedEnd
  <2> QED  BY <1>0, <2>1, <2>2, DiskNumbers DEF Disk
<1>4. CASE Withdraw
  <2>1. /\ recs' = SubSeq(recs, 1, acked) /\ size' = AckedEnd /\ acked < Len(recs)
        /\ acked' = acked /\ born' = born /\ mode' = mode
    BY <1>4 DEF Withdraw, Written
  <2>2. Chained(recs) /\ acked \in 1 .. Len(recs)  BY DEF Disk
  <2>3. Chained(recs') /\ Len(recs') = acked /\ recs'[acked] = recs[acked]
    BY <2>1, <2>2, ChainedPart, DiskNumbers
  <2>4. AckedEnd' = EndOf(recs[acked])  BY <2>1, <2>3, DiskNumbers DEF AckedEnd
  <2> QED  BY <1>0, <2>1, <2>3, <2>4, DiskNumbers DEF Disk
<1> QED  BY <1>1, <1>2, <1>3, <1>4 DEF Writer

\* Only the writing process touches the file.
LEMMA DiskStep == Disk /\ [Next]_vars => Disk'
<1> SUFFICES ASSUME Disk, [Next]_vars PROVE Disk'  OBVIOUS
<1>1. CASE Writer  BY <1>1, WriterStep
<1>2. CASE UNCHANGED disk  BY <1>2, SMTT(30) DEF disk, Disk, AckedEnd
<1>3. (Server \/ DiskFault \/ Die \/ (\E c \in Client : ClientStep(c)) \/ UNCHANGED vars)
        => UNCHANGED disk
  BY ZenonT(60) DEF Server, Die, FilterBeyond, DiskFault, ReadFails, RecordUnread, Handle,
     Write, Work, NewRound, Close, HandleLate, HandleWrong,
     HandleFile, HandleRecord, HandleList, HandleFilter, HandleStop, Handling, SendChunk,
     ListNext, FilterNext, Working, ClientStep, Ask, AskRefused, ClientReads, ReadHead,
     ReadError, ReadPage, ReadChunk, ReadLast, ReadBody, Dropped, Timeout, Reading,
     Elsewhere, vars, svars
<1> QED  BY <1>1, <1>2, <1>3 DEF Next

-----------------------------------------------------------------------------
(* The types. *)

Byte == Nat \X Nat
ShortList == {s \in Seq(Nat) : Len(s) <= MaxBorn}

OneFrame ==
  [t: {"head"}, length: Nat \cup {Unknown}] \cup [t: {"chunk"}, bytes: Seq(Byte)]
    \cup [t: {"body"}, ids: ShortList] \cup [t: {"last", "error", "page"}]

ConnType ==
  [q: [kind: Kind \cup {"none"}, from: Nat, local: BOOLEAN], st: {"none", "asked", "handled"},
   out: Seq(OneFrame), wire: Seq(OneFrame), due: Nat, torn: BOOLEAN, gone: BOOLEAN]

CallType ==
  [st: {"idle", "waiting", "reading", "over"}, got: Seq(Byte) \cup Seq(Nat),
   count: 0 .. W32 - 1, result: {"none", "ok", "failed", "crashed"}, cut: BOOLEAN]

ConnTyped ==
  /\ conn \in [Client -> ConnType]
  /\ \A c \in Client : conn[c].q \in Question[c] \cup {NoQuestion} /\ conn[c].due <= acked

CallTyped ==
  /\ call \in [Client -> CallType]
  /\ \A c \in Client : call[c].st # "over" => call[c].got \in Seq(Byte)

\* The list of a job has at most one record for each that was ever begun: those before
\* its position and those that were withdrawn.
JobTyped ==
  /\ job \in JobType
  /\ job = NoJob \/ (job.step # "idle" /\ \E c \in Client : job.of = {c})
  /\ job.step = "list" =>
       \E j \in 0 .. Len(recs) :
         /\ Len(job.list) + Len(recs) <= j + born
         /\ j = 0 \/ recs[j].off < job.at

PhaseTyped ==
  /\ phase \in {"serving", "closed", "died", "stuck"} /\ exit \in {"none", "asked", "last"}
  /\ round \subseteq Client

Types == Disk /\ ConnTyped /\ CallTyped /\ JobTyped /\ PhaseTyped

\* What is sent is typed.
LEMMA FrameShapes ==
  /\ Error \in OneFrame /\ Ended \in OneFrame /\ Page \in OneFrame
  /\ \A n \in Nat : Begun(n) \in OneFrame
  /\ Begun(Unknown) \in OneFrame
  /\ \A bs \in Seq(Byte) : Piece(bs) \in OneFrame
  /\ \A ids \in ShortList : Body(ids) \in OneFrame
BY DEF OneFrame, Error, Ended, Page, Begun, Piece, Body

\* And what is received.
LEMMA FrameFields ==
  ASSUME NEW f \in OneFrame
  PROVE  /\ f.t = "chunk" => f.bytes \in Seq(Byte)
         /\ f.t = "body" => f.ids \in ShortList
         /\ f.t = "head" => f.length \in Nat \cup {Unknown}
         /\ f \in FrameType
BY DEF OneFrame, FrameType, Byte, ShortList

LEMMA BytesTyped ==
  ASSUME Disk, NEW p \in Nat, NEW n \in Nat
  PROVE  BytesAt(p, n) \in Seq(Byte)
<1>0. size \in Nat /\ size <= EndOf(recs[Len(recs)]) /\ EndOf(recs[Len(recs)]) \in Nat
      /\ Chained(recs)
  BY DiskNumbers DEF Disk
<1> DEFINE m == IF p >= size THEN 0 ELSE Lesser(n, size - p)
<1>1. m \in Nat /\ \A k \in 1 .. m : p + k - 1 < size  BY <1>0 DEF Lesser
<1>2. BytesAt(p, n) = [k \in 1 .. m |-> ByteAt(p + k - 1)]  BY DEF BytesAt
<1> HIDE DEF m
<1>3. ASSUME NEW k \in 1 .. m PROVE ByteAt(p + k - 1) \in Byte
  <2> DEFINE q == p + k - 1
             found == {i \in 1 .. Len(recs) : recs[i].off <= q /\ q < EndOf(recs[i])}
  <2>1. q \in Nat /\ q < EndOf(recs[Len(recs)])  BY <1>0, <1>1
  <2> HIDE DEF q
  <2>2. \E i \in 1 .. Len(recs) : recs[i].off <= q /\ q < EndOf(recs[i])
    BY <1>0, <2>1, InSomeRecord
  <2>3. PICK i \in 1 .. Len(recs) :
           /\ recs[i].off <= q /\ q < EndOf(recs[i])
           /\ ByteAt(q) = <<recs[i].id, q - recs[i].off>>
    BY <2>2 DEF ByteAt
  <2>4. recs[i].id \in Nat /\ recs[i].off \in Nat  BY <1>0, RecordNumbers
  <2>5. q - recs[i].off \in Nat  BY <2>1, <2>3, <2>4
  <2>6. ByteAt(q) \in Byte  BY <2>3, <2>4, <2>5 DEF Byte
  <2> QED  BY <2>6 DEF q
<1> QED  BY <1>1, <1>2, <1>3

\* What a handler does to the connections.
LEMMA ReplyGives ==
  ASSUME conn \in [Client -> ConnType], acked \in Nat, NEW c \in Client,
         NEW frames \in Seq(OneFrame), Reply(c, frames)
  PROVE  /\ conn' \in [Client -> ConnType]
         /\ \A d \in Client : d # c => conn'[d] = conn[d]
         /\ conn'[c].q = conn[c].q /\ conn'[c].st = "handled"
         /\ conn'[c].out = conn[c].out \o frames /\ conn'[c].wire = conn[c].wire
         /\ conn'[c].due = acked /\ conn'[c].gone = conn[c].gone
         /\ conn'[c].torn = conn[c].torn
<1>1. conn[c] \in ConnType  OBVIOUS
<1>2. conn[c].out \o frames \in Seq(OneFrame)  BY <1>1 DEF ConnType
<1>3. [conn[c] EXCEPT !.st = "handled", !.out = @ \o frames, !.due = acked] \in ConnType
  BY <1>1, <1>2 DEF ConnType
<1> QED  BY <1>1, <1>3 DEF Reply, ConnType

LEMMA QueueGives ==
  ASSUME conn \in [Client -> ConnType], NEW c \in Client,
         NEW frames \in Seq(OneFrame), Queue(c, frames)
  PROVE  /\ conn' \in [Client -> ConnType]
         /\ \A d \in Client : d # c => conn'[d] = conn[d]
         /\ conn'[c].q = conn[c].q /\ conn'[c].st = conn[c].st
         /\ conn'[c].out = conn[c].out \o frames /\ conn'[c].wire = conn[c].wire
         /\ conn'[c].due = conn[c].due /\ conn'[c].gone = conn[c].gone
         /\ conn'[c].torn = conn[c].torn
<1>1. conn[c] \in ConnType  OBVIOUS
<1>2. conn[c].out \o frames \in Seq(OneFrame)  BY <1>1 DEF ConnType
<1>3. [conn[c] EXCEPT !.out = @ \o frames] \in ConnType
  BY <1>1, <1>2 DEF ConnType
<1> QED  BY <1>1, <1>3 DEF Queue, ConnType

LEMMA ConnReplied ==
  ASSUME ConnTyped, acked \in Nat, acked' = acked, NEW c \in Client,
         NEW frames \in Seq(OneFrame), Reply(c, frames)
  PROVE  ConnTyped'
<1>1. /\ conn' \in [Client -> ConnType]
      /\ \A d \in Client : d # c => conn'[d] = conn[d]
      /\ conn'[c].q = conn[c].q /\ conn'[c].due = acked
  BY ReplyGives DEF ConnTyped
<1> QED  BY <1>1 DEF ConnTyped

LEMMA ConnQueued ==
  ASSUME ConnTyped, acked' = acked, NEW c \in Client,
         NEW frames \in Seq(OneFrame), Queue(c, frames)
  PROVE  ConnTyped'
<1>1. /\ conn' \in [Client -> ConnType]
      /\ \A d \in Client : d # c => conn'[d] = conn[d]
      /\ conn'[c].q = conn[c].q /\ conn'[c].due = conn[c].due
  BY QueueGives DEF ConnTyped
<1> QED  BY <1>1 DEF ConnTyped

\* A handler that begins its work, and one that has none left.
LEMMA JobBegun ==
  ASSUME NEW c \in Client, Disk, recs' = recs, born' = born,
         job' \in JobType, job'.of = {c}, job'.step # "idle", job'.list = << >>
  PROVE  JobTyped'
<1>1. Len(job'.list) + Len(recs) <= 0 + born  BY DiskNumbers
<1>2. 0 \in 0 .. Len(recs)  BY DiskNumbers
<1> QED  BY <1>1, <1>2 DEF JobTyped

LEMMA JobEnded ==
  ASSUME job' = NoJob
  PROVE  JobTyped'
<1>1. NoJob \in JobType /\ NoJob.step = "idle"  BY DEF NoJob, JobType
<1> QED  BY <1>1 DEF JobTyped

\* What every handler starts from and leaves alone.
LEMMA Handled ==
  ASSUME Types, NEW c \in Client, Handle(c)
  PROVE  /\ phase = "serving" /\ job = NoJob /\ c \in round /\ conn[c].st = "asked"
         /\ round' = round \ {c} /\ UNCHANGED disk /\ From(c) \in Nat
<1>1. conn[c] \in ConnType  BY DEF Types, ConnTyped
<1>2. From(c) \in Nat  BY <1>1 DEF From, ConnType
<1> QED
  BY <1>2 DEF Handle, HandleLate, HandleWrong, HandleFile, HandleRecord, HandleList,
     HandleFilter, HandleStop, Handling

LEMMA RecordAtGives ==
  ASSUME NEW p \in Nat, Disk, NEW i, i = RecordAt(p), i # 0
  PROVE  /\ i \in 1 .. Len(recs) /\ recs[i].off = p /\ ~recs[i].empty
         /\ recs[i].len \in Nat \ {0} /\ recs[i].id \in Nat
         /\ EndOf(recs[i]) \in Nat /\ EndOf(recs[i]) = p + recs[i].len
<1> DEFINE given(k) == /\ ~recs[k].empty
                       /\ \/ EndOf(recs[k]) <= size
                          \/ mode = "plain" /\ recs[k].off + HeaderLen <= size
           found == {k \in 1 .. Len(recs) : recs[k].off = p /\ given(k)}
<1>1. RecordAt(p) = IF found = {} THEN 0 ELSE CHOOSE k \in found : TRUE  BY DEF RecordAt
<1>2. i \in found
  <2> HIDE DEF found
  <2> QED  BY <1>1
<1>3. i \in 1 .. Len(recs) /\ recs[i].off = p /\ ~recs[i].empty  BY <1>2
<1> HIDE DEF found
<1> QED  BY <1>3, RecordNumbers DEF Disk, EndOf

LEMMA HandleTypes ==
  ASSUME Types, NEW c \in Client, Handle(c)
  PROVE  ConnTyped' /\ JobTyped' /\ PhaseTyped'
<1>0. /\ phase = "serving" /\ job = NoJob /\ c \in round /\ round' = round \ {c}
      /\ mode' = mode /\ recs' = recs /\ acked' = acked /\ size' = size /\ born' = born
      /\ From(c) \in Nat
  BY Handled DEF disk
<1>00. Disk /\ ConnTyped /\ acked \in Nat /\ size \in Nat  BY DiskNumbers DEF Types
<1>1. PhaseTyped'
  <2>1. phase' \in {"serving", "stuck"} /\ exit' \in {"none", "asked", "last"}
    BY <1>0 DEF Types, PhaseTyped, Handle, HandleLate, HandleWrong, HandleFile, HandleRecord,
       HandleList, HandleFilter, HandleStop, Handling
  <2> QED  BY <1>0, <2>1 DEF Types, PhaseTyped
<1>2. CASE HandleLate(c) \/ HandleWrong(c) \/ HandleStop(c)
  <2>1. job' = NoJob /\ (Reply(c, <<Error>>) \/ Reply(c, <<Page>>))
    BY <1>0, <1>2 DEF HandleLate, HandleWrong, HandleStop
  <2>2. <<Error>> \in Seq(OneFrame) /\ <<Page>> \in Seq(OneFrame)  BY FrameShapes
  <2> QED  BY <1>0, <1>00, <1>1, <2>1, <2>2, ConnReplied, JobEnded
<1>3. CASE HandleFile(c)
  <2> DEFINE n == size - From(c)
  <2>1. \/ job' = NoJob /\ conn' = conn
        \/ job' = NoJob /\ Reply(c, <<Begun(0), Ended>>)
        \/ /\ n > 0 /\ Reply(c, <<Begun(n)>>)
           /\ job' = [NoJob EXCEPT !.of = {c}, !.step = "chunks", !.at = From(c), !.left = n]
    BY <1>0, <1>3 DEF HandleFile
  <2>2. n \in Int  BY <1>0, <1>00
  <2>3. CASE job' = NoJob /\ conn' = conn
    BY <1>0, <1>00, <1>1, <2>3, JobEnded DEF ConnTyped
  <2>4. CASE job' = NoJob /\ Reply(c, <<Begun(0), Ended>>)
    <3>1. <<Begun(0), Ended>> \in Seq(OneFrame)  BY FrameShapes
    <3> QED  BY <1>0, <1>00, <1>1, <2>4, <3>1, ConnReplied, JobEnded
  <2>5. CASE /\ n > 0 /\ Reply(c, <<Begun(n)>>)
             /\ job' = [NoJob EXCEPT !.of = {c}, !.step = "chunks", !.at = From(c), !.left = n]
    <3>1. n \in Nat  BY <2>2, <2>5
    <3> HIDE DEF n
    <3>2. <<Begun(n)>> \in Seq(OneFrame)  BY <3>1, FrameShapes
    <3>3. job' = [of |-> {c}, step |-> "chunks", at |-> From(c), left |-> n, next |-> 0,
                  upto |-> 0, list |-> << >>]
      BY <2>5 DEF NoJob
    <3>4. JobTyped'  BY <1>0, <1>00, <3>1, <3>3, JobBegun DEF JobType
    <3> QED  BY <1>0, <1>00, <1>1, <2>5, <3>2, <3>4, ConnReplied
  <2> QED  BY <2>1, <2>3, <2>4, <2>5
<1>4. CASE HandleRecord(c)
  <2> DEFINE i == RecordAt(From(c))
  <2>1. \/ job' = NoJob /\ Reply(c, <<Error>>)
        \/ /\ i # 0 /\ Reply(c, <<Begun(recs[i].len)>>)
           /\ job' = [NoJob EXCEPT !.of = {c}, !.step = "chunks", !.at = From(c),
                                   !.left = recs[i].len]
    BY <1>0, <1>4 DEF HandleRecord
  <2>2. CASE job' = NoJob /\ Reply(c, <<Error>>)
    <3>1. <<Error>> \in Seq(OneFrame)  BY FrameShapes
    <3> QED  BY <1>0, <1>00, <1>1, <2>2, <3>1, ConnReplied, JobEnded
  <2>3. CASE /\ i # 0 /\ Reply(c, <<Begun(recs[i].len)>>)
             /\ job' = [NoJob EXCEPT !.of = {c}, !.step = "chunks", !.at = From(c),
                                     !.left = recs[i].len]
    <3>1. recs[i].len \in Nat  BY <1>0, <1>00, <2>3, RecordAtGives
    <3>2. <<Begun(recs[i].len)>> \in Seq(OneFrame)  BY <3>1, FrameShapes
    <3>3. job' = [of |-> {c}, step |-> "chunks", at |-> From(c), left |-> recs[i].len,
                  next |-> 0, upto |-> 0, list |-> << >>]
      BY <2>3 DEF NoJob
    <3> HIDE DEF i
    <3>4. JobTyped'  BY <1>0, <1>00, <3>1, <3>3, JobBegun DEF JobType
    <3> QED  BY <1>0, <1>00, <1>1, <2>3, <3>2, <3>4, ConnReplied
  <2> QED  BY <2>1, <2>2, <2>3
<1>5. CASE HandleList(c)
  <2>1. /\ Reply(c, << >>)
        /\ job' = [NoJob EXCEPT !.of = {c}, !.step = "list", !.at = From(c), !.upto = size]
    BY <1>5 DEF HandleList
  <2>3. job' = [of |-> {c}, step |-> "list", at |-> From(c), left |-> 0, next |-> 0,
                upto |-> size, list |-> << >>]
    BY <2>1 DEF NoJob
  <2>2. << >> \in Seq(OneFrame)  OBVIOUS
  <2>4. JobTyped'  BY <1>0, <1>00, <2>3, JobBegun DEF JobType
  <2> QED  BY <1>0, <1>00, <1>1, <2>1, <2>2, <2>4, ConnReplied
<1>6. CASE HandleFilter(c)
  <2>1. /\ Reply(c, <<Begun(Unknown)>>)
        /\ job' = [NoJob EXCEPT !.of = {c}, !.step = "filter", !.at = From(c), !.upto = size]
    BY <1>6 DEF HandleFilter
  <2>3. job' = [of |-> {c}, step |-> "filter", at |-> From(c), left |-> 0, next |-> 0,
                upto |-> size, list |-> << >>]
    BY <2>1 DEF NoJob
  <2>2. <<Begun(Unknown)>> \in Seq(OneFrame)  BY FrameShapes
  <2>4. JobTyped'  BY <1>0, <1>00, <2>3, JobBegun DEF JobType
  <2> QED  BY <1>0, <1>00, <1>1, <2>1, <2>2, <2>4, ConnReplied
<1> QED  BY <1>2, <1>3, <1>4, <1>5, <1>6 DEF Handle

\* What a turn of a handler's loop does.
LEMMA WorkLeaves ==
  ASSUME Types, Work
  PROVE  /\ phase = "serving" /\ phase' = phase /\ exit' = exit /\ round' = round
         /\ UNCHANGED disk /\ job # NoJob
         /\ \E c \in Client : job.of = {c}
         /\ job.at \in Nat /\ job.left \in Nat /\ job.next \in Nat /\ job.upto \in Nat
         /\ job.list \in Seq(Nat)
<1>1. /\ UNCHANGED <<disk, phase, exit, round>> /\ phase = "serving"
      /\ job.step \in {"chunks", "list", "filter"}
  BY DEF Work, SendChunk, ListNext, FilterNext, Working
<1>2. job # NoJob  BY <1>1 DEF NoJob
<1>3. job \in JobType /\ \E c \in Client : job.of = {c}  BY <1>2 DEF Types, JobTyped
<1> QED  BY <1>1, <1>2, <1>3 DEF JobType

LEMMA SendChunkGives ==
  ASSUME Types, SendChunk, NEW c \in Client, job.of = {c}
  PROVE  /\ job.step = "chunks"
         /\ \E bs \in Seq(Byte) :
              \/ /\ Queue(c, <<Piece(bs)>>) /\ job' \in JobType /\ job'.of = {c}
                 /\ \/ job'.step = "chunks"
                    \/ job'.step = "filter" /\ conn[c].q.kind = "filter"
              \/ Queue(c, <<Piece(bs), Ended>>) /\ job' = NoJob
<1>0. /\ job.at \in Nat /\ job.left \in Nat /\ job.next \in Nat /\ job \in JobType /\ Disk
      /\ job.upto \in Nat /\ job.list \in Seq(Nat) /\ Chunk \in Nat
      /\ job.step = "chunks"
  BY WorkLeaves, ServerAssumption DEF Types, JobTyped, Work, SendChunk, Working
<1> DEFINE n    == Lesser(Chunk, job.left)
           bs   == BytesAt(job.at, n)
           more == [job EXCEPT !.at = @ + Len(bs), !.left = @ - n]
<1>1. n \in Nat /\ job.left - n \in Nat  BY <1>0 DEF Lesser
<1>2. bs \in Seq(Byte)  BY <1>0, <1>1, BytesTyped
<1>3. Len(bs) \in Nat  BY <1>2
<1>4. \/ Queue(c, <<Piece(bs)>>) /\ job' = more
      \/ /\ Queue(c, <<Piece(bs)>>) /\ conn[c].q.kind = "filter"
         /\ job' = [more EXCEPT !.step = "filter", !.at = job.next]
      \/ Queue(c, <<Piece(bs), Ended>>) /\ job' = NoJob
  BY DEF SendChunk
<1>5. job.at + Len(bs) \in Nat  BY <1>0, <1>3
<1> DEFINE at == job.at + Len(bs)
           left == job.left - n
<1>6. more = [job EXCEPT !.at = at, !.left = left]  OBVIOUS
<1>7. at \in Nat /\ left \in Nat  BY <1>1, <1>5
<1> HIDE DEF bs, n, at, left, more
<1>8. more \in JobType /\ more.of = {c} /\ more.step = "chunks"
  BY <1>0, <1>6, <1>7 DEF JobType
<1>9. ASSUME NEW m, m = [more EXCEPT !.step = "filter", !.at = job.next]
      PROVE  m \in JobType /\ m.of = {c} /\ m.step = "filter"
  BY <1>0, <1>8, <1>9 DEF JobType
<1> QED  BY <1>0, <1>2, <1>4, <1>8, <1>9

LEMMA ListNextGives ==
  ASSUME Types, ListNext, NEW c \in Client, job.of = {c}
  PROVE  /\ job.step = "list"
         /\ \/ /\ conn' = conn /\ JobTyped' /\ job'.of = {c} /\ job'.step = "list"
            \/ /\ job' = NoJob
               /\ \E n \in Nat, l \in ShortList :
                    \/ Queue(c, <<Begun(n), Body(l)>>)
                    \/ Queue(c, <<Error>> \o <<Begun(n), Body(l)>>)
<1>0. /\ job.at \in Nat /\ job \in JobType /\ Disk /\ Chained(recs) /\ job # NoJob
      /\ job.left \in Nat /\ job.next \in Nat /\ job.upto \in Nat /\ job.list \in Seq(Nat)
      /\ job.step = "list" /\ UNCHANGED disk
  BY WorkLeaves DEF Types, JobTyped, Work, ListNext, Working, Disk
<1>1. PICK j \in 0 .. Len(recs) :
        /\ Len(job.list) + Len(recs) <= j + born
        /\ j = 0 \/ recs[j].off < job.at
  BY <1>0 DEF Types, JobTyped
<1>2. Len(job.list) \in Nat /\ job.list \in ShortList
  <2>1. Len(job.list) \in Nat  BY <1>0
  <2>2. /\ Len(recs) \in Nat /\ born \in Nat /\ MaxBorn \in Nat /\ born <= MaxBorn
        /\ j \in Nat /\ j <= Len(recs)
    BY <1>0, DiskNumbers
  <2>3. Len(job.list) <= MaxBorn  BY <1>1, <2>1, <2>2
  <2> QED  BY <1>0, <2>1, <2>3 DEF ShortList
<1> DEFINE i == RecordAt(job.at)
           reply == <<Begun(Len(job.list)), Body(job.list)>>
<1>3. \/ (Queue(c, reply) \/ Queue(c, <<Error>> \o reply)) /\ job' = NoJob
      \/ /\ i # 0 /\ conn' = conn
         /\ job' = [job EXCEPT !.at = EndOf(recs[i]), !.list = Append(@, recs[i].id)]
  BY DEF ListNext
<1>5. CASE (Queue(c, reply) \/ Queue(c, <<Error>> \o reply)) /\ job' = NoJob
  BY <1>0, <1>2, <1>5
<1>6. CASE /\ i # 0 /\ conn' = conn
           /\ job' = [job EXCEPT !.at = EndOf(recs[i]), !.list = Append(@, recs[i].id)]
  <2>1. /\ i \in 1 .. Len(recs) /\ recs[i].off = job.at /\ recs[i].id \in Nat
        /\ EndOf(recs[i]) \in Nat /\ recs[i].off < EndOf(recs[i])
    BY <1>0, <1>6, RecordAtGives, RecordNumbers
  <2> DEFINE at == EndOf(recs[i])
             list == Append(job.list, recs[i].id)
  <2>0. at \in Nat /\ list \in Seq(Nat) /\ job' = [job EXCEPT !.at = at, !.list = list]
    BY <1>0, <1>6, <2>1
  <2> HIDE DEF at, list
  <2>02. job' \in JobType /\ job'.of = {c} /\ job'.step = "list" /\ job'.at = at
        /\ job'.list = list
    BY <1>0, <2>0 DEF JobType
  <2> USE DEF at, list
  <2> HIDE DEF i
  <2>2. job' \in JobType /\ job'.of = {c} /\ job'.step = "list" /\ job'.at = EndOf(recs[i])
        /\ job'.list = Append(job.list, recs[i].id)
    BY <2>02
  <2>3. Len(job'.list) = Len(job.list) + 1  BY <1>0, <2>1, <2>2
  <2>4. j < i
    <3>1. i \in Nat /\ j \in Nat /\ Len(recs) \in Nat  BY <2>1, DiskNumbers
    <3>2. CASE j = 0  BY <2>1, <3>2
    <3>3. CASE j # 0 /\ j = i  BY <1>0, <1>1, <2>1, <3>3
    <3>4. CASE j # 0 /\ i < j
      <4>1. j \in i + 1 .. Len(recs) /\ j \in 1 .. Len(recs)  BY <2>1, <3>1, <3>4
      <4>2. EndOf(recs[i]) <= recs[j].off /\ recs[j].off \in Nat
        BY <1>0, <2>1, <4>1, Later, RecordNumbers
      <4> QED  BY <1>0, <1>1, <2>1, <3>4, <4>2
    <3> QED  BY <3>1, <3>2, <3>3, <3>4
  <2>5. Len(job'.list) + Len(recs) <= i + born
    <3>1. Len(recs) \in Nat /\ born \in Nat /\ Len(job.list) \in Nat
      BY <1>0, <1>2, DiskNumbers
    <3>4. j \in Nat /\ i \in Nat  BY <2>1, <3>1
    <3>2. Len(job.list) + Len(recs) <= j + born  BY <1>1
    <3>3. Len(job.list) + 1 + Len(recs) <= i + born  BY <2>4, <3>1, <3>2, <3>4
    <3> QED  BY <2>3, <3>3
  <2>6. i \in 0 .. Len(recs) /\ recs[i].off < job'.at  BY <2>1, <2>2, DiskNumbers
  <2>7. recs' = recs /\ born' = born  BY <1>0 DEF disk
  <2>8. JobTyped'  BY <2>2, <2>5, <2>6, <2>7 DEF JobTyped
  <2> QED  BY <1>0, <1>6, <2>2, <2>8
<1> QED  BY <1>3, <1>5, <1>6

LEMMA FilterNextGives ==
  ASSUME Types, FilterNext, NEW c \in Client, job.of = {c}
  PROVE  /\ job.step = "filter"
         /\ \/ Queue(c, <<Ended>>) /\ job' = NoJob
            \/ /\ conn' = conn /\ job' \in JobType /\ job'.of = {c}
               /\ job'.step \in {"chunks", "filter"}
<1>0. /\ job.at \in Nat /\ job \in JobType /\ Disk /\ job.step = "filter"
      /\ job.left \in Nat /\ job.next \in Nat /\ job.upto \in Nat /\ job.list \in Seq(Nat)
  BY WorkLeaves DEF Types, JobTyped, Work, FilterNext, Working
<1> DEFINE i == RecordAt(job.at)
           after == job.at + recs[i].len
<1>1. \/ Queue(c, <<Ended>>) /\ job' = NoJob
      \/ /\ i # 0 /\ conn' = conn
         /\ \/ job' = [job EXCEPT !.step = "chunks", !.left = recs[i].len, !.next = after]
            \/ job' = [job EXCEPT !.at = after]
  BY DEF FilterNext
<1>2. CASE /\ i # 0 /\ conn' = conn
           /\ \/ job' = [job EXCEPT !.step = "chunks", !.left = recs[i].len, !.next = after]
              \/ job' = [job EXCEPT !.at = after]
  <2>1. recs[i].len \in Nat  BY <1>0, <1>2, RecordAtGives
  <2>2. after \in Nat  BY <1>0, <2>1
  <2> HIDE DEF i, after
  <2>3. job' \in JobType /\ job'.of = {c} /\ job'.step \in {"chunks", "filter"}
    BY <1>0, <1>2, <2>1, <2>2 DEF JobType
  <2> QED  BY <1>0, <1>2, <2>3
<1> QED  BY <1>0, <1>1, <1>2

LEMMA WorkTypes ==
  ASSUME Types, Work
  PROVE  ConnTyped' /\ JobTyped' /\ PhaseTyped'
<1>0. PICK c \in Client : job.of = {c}  BY WorkLeaves
<1>1. /\ recs' = recs /\ acked' = acked /\ born' = born /\ Disk /\ ConnTyped
  BY WorkLeaves DEF disk, Types
<1>2. PhaseTyped'  BY WorkLeaves DEF Types, PhaseTyped
<1>3. ASSUME job' \in JobType, job'.of = {c}, job'.step \in {"chunks", "filter"}
      PROVE  JobTyped'
  BY <1>3 DEF JobTyped
<1>4. CASE SendChunk
  <2>1. PICK bs \in Seq(Byte) :
          \/ /\ Queue(c, <<Piece(bs)>>) /\ job' \in JobType /\ job'.of = {c}
             /\ job'.step \in {"chunks", "filter"}
          \/ Queue(c, <<Piece(bs), Ended>>) /\ job' = NoJob
    BY <1>0, <1>4, SendChunkGives
  <2>2. Piece(bs) \in OneFrame /\ Ended \in OneFrame  BY FrameShapes
  <2>3. <<Piece(bs)>> \in Seq(OneFrame) /\ <<Piece(bs), Ended>> \in Seq(OneFrame)  BY <2>2
  <2>4. ConnTyped'  BY <1>1, <2>1, <2>3, ConnQueued
  <2>5. JobTyped'  BY <1>3, <2>1, JobEnded
  <2> QED  BY <1>2, <2>4, <2>5
<1>5. CASE ListNext
  <2>1. CASE conn' = conn /\ JobTyped'  BY <1>1, <1>2, <2>1 DEF ConnTyped
  <2>2. CASE /\ job' = NoJob
             /\ \E n \in Nat, l \in ShortList :
                  \/ Queue(c, <<Begun(n), Body(l)>>)
                  \/ Queue(c, <<Error>> \o <<Begun(n), Body(l)>>)
    <3>1. PICK n \in Nat, l \in ShortList :
            \/ Queue(c, <<Begun(n), Body(l)>>)
            \/ Queue(c, <<Error>> \o <<Begun(n), Body(l)>>)
      BY <2>2
    <3>2. Error \in OneFrame /\ Begun(n) \in OneFrame /\ Body(l) \in OneFrame  BY FrameShapes
    <3>3. <<Error>> \in Seq(OneFrame) /\ <<Begun(n), Body(l)>> \in Seq(OneFrame)  BY <3>2
    <3>4. <<Error>> \o <<Begun(n), Body(l)>> \in Seq(OneFrame)  BY <3>3
    <3>5. ConnTyped'  BY <1>1, <3>1, <3>3, <3>4, ConnQueued
    <3> QED  BY <1>2, <2>2, <3>5, JobEnded
  <2> QED  BY <1>0, <1>5, <2>1, <2>2, ListNextGives
<1>6. CASE FilterNext
  <2>1. <<Ended>> \in Seq(OneFrame)  BY FrameShapes
  <2>2. CASE Queue(c, <<Ended>>) /\ job' = NoJob
    BY <1>1, <1>2, <2>1, <2>2, ConnQueued, JobEnded
  <2>3. CASE /\ conn' = conn /\ job' \in JobType /\ job'.of = {c}
             /\ job'.step \in {"chunks", "filter"}
    BY <1>1, <1>2, <1>3, <2>3 DEF ConnTyped
  <2> QED  BY <1>0, <1>6, <2>2, <2>3, FilterNextGives
<1> QED  BY <1>4, <1>5, <1>6 DEF Work

\* A part of what is queued is written, or what is queued is lost.
LEMMA WriteGives ==
  ASSUME Types, NEW c \in Client, Write(c)
  PROVE  /\ phase = "serving" /\ job = NoJob /\ c \in round
         /\ round' = round \ {c} /\ UNCHANGED <<disk, phase, exit, job>>
         /\ conn' \in [Client -> ConnType]
         /\ \A d \in Client : d # c => conn'[d] = conn[d]
         /\ conn'[c].q = conn[c].q /\ conn'[c].st = conn[c].st
         /\ conn'[c].due = conn[c].due /\ conn'[c].gone = conn[c].gone
         /\ conn'[c].torn = conn[c].torn
         /\ \/ /\ ~conn[c].gone
               /\ \E k \in 1 .. Len(conn[c].out) :
                    /\ conn'[c].wire = conn[c].wire \o SubSeq(conn[c].out, 1, k)
                    /\ conn'[c].out = SubSeq(conn[c].out, k + 1, Len(conn[c].out))
            \/ conn[c].gone /\ conn'[c].out = << >> /\ conn'[c].wire = conn[c].wire
<1>0. conn \in [Client -> ConnType] /\ conn[c] \in ConnType  BY DEF Types, ConnTyped
<1>1. /\ phase = "serving" /\ job = NoJob /\ c \in round
      /\ round' = round \ {c} /\ UNCHANGED <<disk, phase, exit, job>>
  BY DEF Write, Idle
<1>2. CASE ~conn[c].gone
  <2>1. PICK k \in 1 .. Len(conn[c].out) :
          conn' = [conn EXCEPT ![c].wire = @ \o SubSeq(conn[c].out, 1, k),
                               ![c].out = SubSeq(@, k + 1, Len(@))]
    BY <1>2 DEF Write
  <2> DEFINE o == conn[c].out
             w == conn[c].wire \o SubSeq(o, 1, k)
             r == SubSeq(o, k + 1, Len(o))
  <2>2. w \in Seq(OneFrame) /\ r \in Seq(OneFrame)
    <3>1. o \in Seq(OneFrame) /\ conn[c].wire \in Seq(OneFrame)  BY <1>0 DEF ConnType
    <3>2. SubSeq(o, 1, k) \in Seq(OneFrame)  BY <3>1
    <3>3. r \in Seq(OneFrame)  BY <3>1
    <3> HIDE DEF o
    <3> QED  BY <3>1, <3>2, <3>3
  <2>3. conn' = [conn EXCEPT ![c] = [conn[c] EXCEPT !.wire = w, !.out = r]]
    BY <1>0, <2>1
  <2> HIDE DEF w, r
  <2>4. [conn[c] EXCEPT !.wire = w, !.out = r] \in ConnType  BY <1>0, <2>2 DEF ConnType
  <2>5. conn'[c] = [conn[c] EXCEPT !.wire = w, !.out = r]  BY <1>0, <2>3
  <2>6. /\ conn'[c].wire = w /\ conn'[c].out = r /\ conn'[c].q = conn[c].q
        /\ conn'[c].st = conn[c].st /\ conn'[c].due = conn[c].due
        /\ conn'[c].gone = conn[c].gone /\ conn'[c].torn = conn[c].torn
    BY <1>0, <2>5 DEF ConnType
  <2>7. conn' \in [Client -> ConnType] /\ \A d \in Client : d # c => conn'[d] = conn[d]
    BY <1>0, <2>3, <2>4
  <2> QED  BY <1>1, <1>2, <2>6, <2>7 DEF w, r
<1>3. CASE conn[c].gone
  <2>1. conn' = [conn EXCEPT ![c].out = << >>]  BY <1>3 DEF Write
  <2> DEFINE none == << >>
  <2>4. none \in Seq(OneFrame)  OBVIOUS
  <2> HIDE DEF none
  <2>2. [conn[c] EXCEPT !.out = none] \in ConnType  BY <1>0, <2>4 DEF ConnType
  <2>3. /\ conn'[c] = [conn[c] EXCEPT !.out = none]
        /\ conn' \in [Client -> ConnType] /\ \A d \in Client : d # c => conn'[d] = conn[d]
    BY <1>0, <2>1, <2>2 DEF none
  <2>5. /\ conn'[c].wire = conn[c].wire /\ conn'[c].out = none /\ conn'[c].q = conn[c].q
        /\ conn'[c].st = conn[c].st /\ conn'[c].due = conn[c].due
        /\ conn'[c].gone = conn[c].gone /\ conn'[c].torn = conn[c].torn
    BY <1>0, <2>3 DEF ConnType
  <2> QED  BY <1>1, <1>3, <2>3, <2>5 DEF none
<1> QED  BY <1>2, <1>3

\* The rest of the process.
LEMMA ServerTypes ==
  ASSUME Types, Server
  PROVE  ConnTyped' /\ JobTyped' /\ PhaseTyped'
<1>1. ASSUME NEW c \in Client, Handle(c) PROVE ConnTyped' /\ JobTyped' /\ PhaseTyped'
  BY <1>1, HandleTypes
<1>2. ASSUME NEW c \in Client, Write(c) PROVE ConnTyped' /\ JobTyped' /\ PhaseTyped'
  <2>1. /\ round' = round \ {c} /\ acked' = acked /\ recs' = recs /\ born' = born
        /\ phase' = phase /\ exit' = exit /\ job' = job
        /\ conn' \in [Client -> ConnType]
        /\ \A d \in Client : d # c => conn'[d] = conn[d]
        /\ conn'[c].q = conn[c].q /\ conn'[c].due = conn[c].due
    BY <1>2, WriteGives DEF disk
  <2>2. ConnTyped'  BY <2>1 DEF Types, ConnTyped
  <2> QED  BY <2>1, <2>2 DEF Types, JobTyped, PhaseTyped
<1>3. CASE Work  BY <1>3, WorkTypes
<1>4. CASE NewRound
  <2>1. /\ round' \subseteq Client /\ exit' \in {exit, "last"}
        /\ UNCHANGED <<disk, phase, job, conn>>
    BY <1>4 DEF NewRound
  <2> QED  BY <2>1 DEF Types, ConnTyped, JobTyped, PhaseTyped, disk
<1>5. CASE Close
  BY <1>5 DEF Close, Types, ConnTyped, JobTyped, PhaseTyped, disk
<1>6. CASE FilterBeyond
  BY <1>6 DEF FilterBeyond, Types, ConnTyped, JobTyped, PhaseTyped, disk
<1> QED  BY <1>1, <1>2, <1>3, <1>4, <1>5, <1>6 DEF Server

\* What a connection is after frames were queued on it.
HasQueued(c, frames) ==
  /\ conn' \in [Client -> ConnType]
  /\ \A d \in Client : d # c => conn'[d] = conn[d]
  /\ conn'[c].q = conn[c].q /\ conn'[c].st = conn[c].st /\ conn'[c].due = conn[c].due
  /\ conn'[c].out = conn[c].out \o frames /\ conn'[c].wire = conn[c].wire
  /\ conn'[c].gone = conn[c].gone

\* And after its request was handled.
HasReplied(c, frames) ==
  /\ conn' \in [Client -> ConnType]
  /\ \A d \in Client : d # c => conn'[d] = conn[d]
  /\ conn'[c].q = conn[c].q /\ conn'[c].st = "handled" /\ conn'[c].due = acked
  /\ conn'[c].out = conn[c].out \o frames /\ conn'[c].wire = conn[c].wire
  /\ conn'[c].gone = conn[c].gone

\* What the handler sends that cannot read the file.
TornReply ==
  IF job.step = "list" THEN <<Error>> \o <<Begun(Len(job.list)), Body(job.list)>>
  ELSE <<Ended>>

\* A read fails in the handler's loop.
LEMMA ReadFailsGives ==
  ASSUME Types, ReadFails
  PROVE  /\ UNCHANGED <<disk, phase, exit, round>> /\ job' = NoJob /\ phase = "serving"
         /\ TornReply \in Seq(OneFrame)
         /\ job.step = "list" => job.list \in ShortList
         /\ \E c \in Client : /\ job.of = {c} /\ HasQueued(c, TornReply) /\ conn'[c].torn
<1>0. /\ UNCHANGED <<disk, phase, exit, round>> /\ job' = NoJob /\ phase = "serving"
      /\ job.step \in {"chunks", "filter", "list"}
  BY DEF ReadFails, Working
<1>1. job # NoJob  BY <1>0 DEF NoJob
<1>2. job \in JobType /\ \E c \in Client : job.of = {c}  BY <1>1 DEF Types, JobTyped
<1>3. PICK c \in Client : job.of = {c}  BY <1>2
<1>4. job.list \in Seq(Nat) /\ Len(job.list) \in Nat  BY <1>2 DEF JobType
<1>5. job.step = "list" => job.list \in ShortList
  <2> SUFFICES ASSUME job.step = "list" PROVE job.list \in ShortList  OBVIOUS
  <2>1. PICK j \in 0 .. Len(recs) : Len(job.list) + Len(recs) <= j + born
    BY DEF Types, JobTyped
  <2>2. Len(recs) \in Nat /\ born \in Nat /\ MaxBorn \in Nat /\ born <= MaxBorn
    BY DiskNumbers DEF Types
  <2>3. Len(job.list) <= MaxBorn  BY <1>4, <2>1, <2>2
  <2> QED  BY <1>4, <2>3 DEF ShortList
<1>6. TornReply \in Seq(OneFrame)
  <2>1. CASE job.step = "list"
    <3>1. <<Error>> \in Seq(OneFrame)  BY FrameShapes
    <3>2. <<Begun(Len(job.list)), Body(job.list)>> \in Seq(OneFrame)
      BY <1>4, <1>5, <2>1, FrameShapes
    <3> QED  BY <2>1, <3>1, <3>2 DEF TornReply
  <2>2. CASE job.step # "list"  BY <2>2, FrameShapes DEF TornReply
  <2> QED  BY <2>1, <2>2
<1>7. conn' = [conn EXCEPT ![c].torn = TRUE, ![c].out = @ \o TornReply]
  BY <1>3 DEF ReadFails, TornReply
<1>8. conn \in [Client -> ConnType] /\ conn[c] \in ConnType  BY DEF Types, ConnTyped
<1>9. conn[c].out \o TornReply \in Seq(OneFrame)  BY <1>6, <1>8 DEF ConnType
<1>10. [conn[c] EXCEPT !.torn = TRUE, !.out = @ \o TornReply] \in ConnType
  BY <1>8, <1>9 DEF ConnType
<1> HIDE DEF TornReply
<1>11. HasQueued(c, TornReply) /\ conn'[c].torn
  BY <1>7, <1>8, <1>10 DEF HasQueued, ConnType
<1> QED  BY <1>0, <1>3, <1>5, <1>6, <1>11

\* A read fails where WSend_record looks at the record.
LEMMA RecordUnreadGives ==
  ASSUME Types, NEW c \in Client, RecordUnread(c)
  PROVE  /\ phase = "serving" /\ job = NoJob /\ c \in round /\ conn[c].st = "asked"
         /\ UNCHANGED <<disk, phase, exit, job>> /\ round' = round \ {c}
         /\ conn[c].q.kind = "record" /\ <<Error>> \in Seq(OneFrame)
         /\ HasReplied(c, <<Error>>) /\ conn'[c].torn
<1>0. /\ phase = "serving" /\ job = NoJob /\ c \in round /\ conn[c].st = "asked"
      /\ UNCHANGED <<disk, phase, exit, job>> /\ round' = round \ {c}
      /\ conn[c].q.kind = "record"
  BY DEF RecordUnread, Handling
<1>1. conn' = [conn EXCEPT ![c].st = "handled", ![c].out = @ \o <<Error>>, ![c].due = acked,
                           ![c].torn = TRUE]
  BY DEF RecordUnread
<1>2. conn \in [Client -> ConnType] /\ conn[c] \in ConnType /\ acked \in Nat
  BY DiskNumbers DEF Types, ConnTyped
<1>3. <<Error>> \in Seq(OneFrame)  BY FrameShapes
<1> DEFINE e == <<Error>>
<1>4. e \in Seq(OneFrame)  BY <1>3
<1> HIDE DEF e
<1>5. conn[c].out \o e \in Seq(OneFrame)  BY <1>2, <1>4 DEF ConnType
<1>6. [conn[c] EXCEPT !.st = "handled", !.out = @ \o e, !.due = acked, !.torn = TRUE]
        \in ConnType
  BY <1>2, <1>5 DEF ConnType
<1>7. conn' = [conn EXCEPT ![c].st = "handled", ![c].out = @ \o e, ![c].due = acked,
                           ![c].torn = TRUE]
  BY <1>1 DEF e
<1>8. HasReplied(c, e) /\ conn'[c].torn  BY <1>2, <1>6, <1>7 DEF HasReplied, ConnType
<1> QED  BY <1>0, <1>3, <1>8 DEF e

\* A failure of the disk keeps the types.
LEMMA FaultTypes ==
  ASSUME Types, DiskFault
  PROVE  ConnTyped' /\ JobTyped' /\ PhaseTyped'
<1>1. CASE ReadFails
  <2>1. ConnTyped'  BY <1>1, ReadFailsGives DEF Types, ConnTyped, HasQueued, disk
  <2> QED  BY <1>1, <2>1, ReadFailsGives, JobEnded DEF Types, PhaseTyped
<1>2. ASSUME NEW c \in Client, RecordUnread(c) PROVE ConnTyped' /\ JobTyped' /\ PhaseTyped'
  <2>1. ConnTyped'
    BY <1>2, RecordUnreadGives, DiskNumbers DEF Types, ConnTyped, HasReplied, disk
  <2> QED  BY <1>2, <2>1, RecordUnreadGives, JobEnded DEF Types, PhaseTyped
<1> QED  BY <1>1, <1>2 DEF DiskFault

\* What a client does to its connection and its call.
LEMMA AskGives ==
  ASSUME Types, NEW c \in Client, Ask(c)
  PROVE  /\ conn' \in [Client -> ConnType] /\ call' \in [Client -> CallType]
         /\ \A d \in Client : d # c => conn'[d] = conn[d] /\ call'[d] = call[d]
         /\ conn'[c].q \in Question[c] /\ conn'[c].st = "asked"
         /\ conn'[c].out = conn[c].out /\ conn'[c].wire = conn[c].wire
         /\ conn'[c].due = conn[c].due /\ conn'[c].gone = conn[c].gone
         /\ conn'[c].torn = conn[c].torn
         /\ call[c] = NoCall /\ call'[c].st = "waiting" /\ call'[c].got = call[c].got
<1>0. /\ conn \in [Client -> ConnType] /\ call \in [Client -> CallType]
      /\ conn[c] \in ConnType /\ call[c] \in CallType
  BY DEF Types, ConnTyped, CallTyped
<1>1. PICK q \in Question[c] : conn' = [conn EXCEPT ![c].q = q, ![c].st = "asked"]
  BY DEF Ask
<1>2. q \in [kind: Kind \cup {"none"}, from: Nat, local: BOOLEAN]  BY ServerAssumption
<1>3. [conn[c] EXCEPT !.q = q, !.st = "asked"] \in ConnType
  BY <1>0, <1>2 DEF ConnType
<1>4. /\ conn'[c] = [conn[c] EXCEPT !.q = q, !.st = "asked"]
      /\ conn' \in [Client -> ConnType] /\ \A d \in Client : d # c => conn'[d] = conn[d]
  BY <1>0, <1>1, <1>3
<1>5. call' = [call EXCEPT ![c].st = "waiting"] /\ call[c] = NoCall  BY DEF Ask
<1>6. [call[c] EXCEPT !.st = "waiting"] \in CallType  BY <1>0 DEF CallType
<1>7. /\ call'[c] = [call[c] EXCEPT !.st = "waiting"]
      /\ call' \in [Client -> CallType] /\ \A d \in Client : d # c => call'[d] = call[d]
  BY <1>0, <1>5, <1>6
<1> QED  BY <1>0, <1>4, <1>5, <1>7 DEF ConnType, CallType

LEMMA ConsumeGives ==
  ASSUME ConnTyped, NEW c \in Client, Consume(c), conn[c].wire # << >>
  PROVE  /\ conn' \in [Client -> ConnType]
         /\ \A d \in Client : d # c => conn'[d] = conn[d]
         /\ conn'[c].q = conn[c].q /\ conn'[c].st = conn[c].st
         /\ conn'[c].out = conn[c].out /\ conn'[c].wire = Tail(conn[c].wire)
         /\ conn'[c].due = conn[c].due /\ conn'[c].gone = conn[c].gone
         /\ conn'[c].torn = conn[c].torn
<1>0. conn \in [Client -> ConnType] /\ conn[c] \in ConnType  BY DEF ConnTyped
<1> DEFINE w == Tail(conn[c].wire)
<1>1. w \in Seq(OneFrame)
  <2>1. conn[c].wire \in Seq(OneFrame)  BY <1>0 DEF ConnType
  <2> QED  BY <2>1
<1>2. conn' = [conn EXCEPT ![c] = [conn[c] EXCEPT !.wire = w]]  BY <1>0 DEF Consume
<1> HIDE DEF w
<1>3. [conn[c] EXCEPT !.wire = w] \in ConnType  BY <1>0, <1>1 DEF ConnType
<1>4. /\ conn'[c] = [conn[c] EXCEPT !.wire = w]
      /\ conn' \in [Client -> ConnType] /\ \A d \in Client : d # c => conn'[d] = conn[d]
  BY <1>0, <1>2, <1>3
<1>5. /\ conn'[c].q = conn[c].q /\ conn'[c].st = conn[c].st
      /\ conn'[c].out = conn[c].out /\ conn'[c].wire = w
      /\ conn'[c].due = conn[c].due /\ conn'[c].gone = conn[c].gone
      /\ conn'[c].torn = conn[c].torn
  BY <1>0, <1>4 DEF ConnType
<1> QED  BY <1>4, <1>5 DEF w

LEMMA LeaveGives ==
  ASSUME ConnTyped, NEW c \in Client, Leave(c)
  PROVE  /\ conn' \in [Client -> ConnType]
         /\ \A d \in Client : d # c => conn'[d] = conn[d]
         /\ conn'[c].q = conn[c].q /\ conn'[c].st = conn[c].st
         /\ conn'[c].out = conn[c].out /\ conn'[c].wire = << >>
         /\ conn'[c].due = conn[c].due /\ conn'[c].gone = TRUE
         /\ conn'[c].torn = conn[c].torn
<1>0. conn \in [Client -> ConnType] /\ conn[c] \in ConnType  BY DEF ConnTyped
<1> DEFINE none == << >>
<1>1. none \in Seq(OneFrame)  OBVIOUS
<1>2. conn' = [conn EXCEPT ![c] = [conn[c] EXCEPT !.wire = none, !.gone = TRUE]]
  BY <1>0 DEF Leave
<1> HIDE DEF none
<1>3. [conn[c] EXCEPT !.wire = none, !.gone = TRUE] \in ConnType
  BY <1>0, <1>1 DEF ConnType
<1>4. /\ conn'[c] = [conn[c] EXCEPT !.wire = none, !.gone = TRUE]
      /\ conn' \in [Client -> ConnType] /\ \A d \in Client : d # c => conn'[d] = conn[d]
  BY <1>0, <1>2, <1>3
<1>5. /\ conn'[c].q = conn[c].q /\ conn'[c].st = conn[c].st
      /\ conn'[c].out = conn[c].out /\ conn'[c].wire = none
      /\ conn'[c].due = conn[c].due /\ conn'[c].gone = TRUE
      /\ conn'[c].torn = conn[c].torn
  BY <1>0, <1>4 DEF ConnType
<1> QED  BY <1>4, <1>5 DEF none

\* The call of a client that takes its reply: it goes on, or is over.
LEMMA CallGives ==
  ASSUME Types, NEW c \in Client, ClientReads(c) \/ Timeout(c) \/ AskRefused(c)
  PROVE  /\ CallTyped' /\ \A d \in Client : d # c => call'[d] = call[d]
         /\ call'[c].st = IF ReadHead(c) \/ ReadChunk(c) THEN "reading" ELSE "over"
<1>0. call \in [Client -> CallType] /\ call[c] \in CallType
  BY DEF Types, CallTyped
<1>1. /\ conn[c].wire \in Seq(OneFrame)
      /\ conn[c].wire # << >> => conn[c].wire[1] \in OneFrame
  <2>1. conn[c].wire \in Seq(OneFrame)  BY DEF Types, ConnTyped, ConnType
  <2> QED  BY <2>1
<1>2. ASSUME NEW r \in CallType, call' = [call EXCEPT ![c] = r], r.st = "over"
      PROVE  /\ CallTyped' /\ \A d \in Client : d # c => call'[d] = call[d]
             /\ call'[c].st = "over"
  <2>1. /\ call' \in [Client -> CallType] /\ call'[c] = r
        /\ \A d \in Client : d # c => call'[d] = call[d]
    BY <1>0, <1>2
  <2> QED  BY <1>2, <2>1 DEF Types, CallTyped
<1>3. W32 \in Nat \ {0}  BY ClientAssumption
<1>4. CASE ReadHead(c)
  <2>1. call' = [call EXCEPT ![c] = [call[c] EXCEPT !.st = "reading"]] /\ call[c].st = "waiting"
    BY <1>0, <1>4 DEF ReadHead, Reading
  <2>2. call[c].got \in Seq(Byte)  BY <2>1 DEF Types, CallTyped
  <2>3. [call[c] EXCEPT !.st = "reading"] \in CallType  BY <1>0 DEF CallType
  <2>4. /\ call' \in [Client -> CallType] /\ call'[c] = [call[c] EXCEPT !.st = "reading"]
        /\ \A d \in Client : d # c => call'[d] = call[d]
    BY <1>0, <2>1, <2>3
  <2>5. call'[c].st = "reading" /\ call'[c].got = call[c].got  BY <1>0, <2>4 DEF CallType
  <2> QED  BY <1>4, <2>2, <2>4, <2>5 DEF Types, CallTyped
<1>5. CASE ReadChunk(c)
  <2> DEFINE bs == conn[c].wire[1].bytes
             got == call[c].got \o bs
             count == (call[c].count + Len(bs)) % W32
             r == [call[c] EXCEPT !.got = got, !.count = count]
  <2>1. bs \in Seq(Byte)
    <3>1. conn[c].wire[1] \in OneFrame /\ conn[c].wire[1].t = "chunk"
      BY <1>1, <1>5, SMTT(30) DEF ReadChunk, Reading
    <3> QED  BY <3>1, FrameFields
  <2>2. call' = [call EXCEPT ![c] = r] /\ call[c].st = "reading"
    BY <1>0, <1>5 DEF ReadChunk, Reading
  <2>3. got \in Seq(Byte)
    <3>1. call[c].got \in Seq(Byte)  BY <2>2 DEF Types, CallTyped
    <3> HIDE DEF bs
    <3> QED  BY <2>1, <3>1
  <2>4. count \in 0 .. W32 - 1
    <3>1. Len(bs) \in Nat  BY <2>1, SMTT(30)
    <3>2. call[c].count \in Nat  BY <1>0, <1>3 DEF CallType
    <3>3. call[c].count + Len(bs) \in Nat  BY <3>1, <3>2, SMTT(30)
    <3> QED  BY <1>3, <3>3, Remainder
  <2> HIDE DEF got, count, bs
  <2>5. r \in CallType /\ r.st = "reading" /\ r.got = got  BY <1>0, <2>2, <2>3, <2>4 DEF CallType
  <2> HIDE DEF r
  <2>6. /\ call' \in [Client -> CallType] /\ call'[c] = r
        /\ \A d \in Client : d # c => call'[d] = call[d]
    BY <1>0, <2>2, <2>5
  <2> QED  BY <1>5, <2>3, <2>5, <2>6 DEF Types, CallTyped
<1>6. ASSUME NEW result \in {"ok", "failed", "crashed"}, Return(c, result)
      PROVE  /\ CallTyped' /\ \A d \in Client : d # c => call'[d] = call[d]
             /\ call'[c].st = "over"
  <2>1. [call[c] EXCEPT !.st = "over", !.result = result] \in CallType
        /\ [call[c] EXCEPT !.st = "over", !.result = result].st = "over"
    BY <1>0 DEF CallType
  <2>2. call' = [call EXCEPT ![c] = [call[c] EXCEPT !.st = "over", !.result = result]]
    BY <1>0, <1>6 DEF Return
  <2> QED  BY <1>2, <2>1, <2>2
<1>7. CASE ReadError(c) \/ ReadPage(c) \/ ReadLast(c) \/ Timeout(c) \/ AskRefused(c)
  <2>1. \E result \in {"ok", "failed", "crashed"} : Return(c, result)
    BY <1>7 DEF ReadError, ReadPage, ReadLast, Timeout, AskRefused, Verdict
  <2>2. ~ReadHead(c) /\ ~ReadChunk(c)
    <3>1. CASE ReadError(c) \/ ReadPage(c)
      BY <3>1 DEF ReadError, ReadPage, ReadHead, ReadChunk, Reading
    <3>2. CASE ReadLast(c)  BY <3>2 DEF ReadLast, ReadHead, ReadChunk, Reading
    <3>3. CASE Timeout(c)  BY <3>3 DEF Timeout, ReadHead, ReadChunk, Reading
    <3>4. CASE AskRefused(c)
      <4>1. call[c].st = "idle"  BY <3>4 DEF AskRefused, NoCall
      <4> QED  BY <4>1 DEF ReadHead, ReadChunk, Reading
    <3> QED  BY <1>7, <3>1, <3>2, <3>3, <3>4, SMTT(30)
  <2> QED  BY <1>6, <2>1, <2>2
<1>8. CASE ReadBody(c)
  <2>0. ~ReadHead(c) /\ ~ReadChunk(c)  BY <1>8 DEF ReadBody, ReadHead, ReadChunk, Reading
  <2> DEFINE ids == conn[c].wire[1].ids
             n == ListText(Len(ids))
             count == n % W32
             r == [call[c] EXCEPT !.st = "over", !.got = ids, !.count = count,
                                  !.result = Verdict(count)]
  <2>1. ids \in ShortList
    <3>1. conn[c].wire[1] \in OneFrame /\ conn[c].wire[1].t = "body"
      BY <1>1, <1>8 DEF ReadBody, Reading
    <3> QED  BY <3>1, FrameFields, SMTT(30)
  <2>2. n \in Nat
    <3>1. Len(ids) \in 0 .. MaxBorn  BY <2>1, SMTT(30) DEF ShortList
    <3> QED  BY <3>1, ClientAssumption
  <2>3. count \in 0 .. W32 - 1  BY <1>3, <2>2, Remainder
  <2>4. \/ \E result \in {"failed", "crashed"} : Return(c, result)
        \/ call' = [call EXCEPT ![c] = r]
    BY <1>0, <1>8 DEF ReadBody
  <2>5. CASE call' = [call EXCEPT ![c] = r]
    <3>1. Verdict(count) \in {"ok", "failed"}  BY DEF Verdict
    <3>2. ids \in Seq(Nat)  BY <2>1 DEF ShortList
    <3> HIDE DEF count, ids
    <3>3. r \in CallType /\ r.st = "over"  BY <1>0, <2>3, <3>1, <3>2 DEF CallType
    <3> QED  BY <1>2, <2>0, <2>5, <3>3
  <2> QED  BY <1>6, <2>0, <2>4, <2>5
<1>9. CASE Dropped(c)
  <2>0. ~ReadHead(c) /\ ~ReadChunk(c)  BY <1>9 DEF Dropped, ReadHead, ReadChunk, Reading
  <2> DEFINE result == IF call[c].st = "waiting" \/ conn[c].q.kind = "list"
                         THEN "crashed" ELSE Verdict(call[c].count)
             r == [call[c] EXCEPT !.st = "over", !.cut = TRUE, !.result = result]
  <2>1. result \in {"ok", "failed", "crashed"}  BY DEF Verdict
  <2>2. call' = [call EXCEPT ![c] = r]  BY <1>0, <1>9 DEF Dropped
  <2> HIDE DEF result
  <2>3. r \in CallType /\ r.st = "over"  BY <1>0, <2>1 DEF CallType
  <2> QED  BY <1>2, <2>0, <2>2, <2>3
<1> QED  BY <1>4, <1>5, <1>7, <1>8, <1>9 DEF ClientReads

LEMMA ReadsGives ==
  ASSUME Types, NEW c \in Client, ClientReads(c) \/ Timeout(c) \/ AskRefused(c)
  PROVE  /\ UNCHANGED <<disk, phase, exit, round, job>>
         /\ \/ (ReadHead(c) \/ ReadChunk(c)) /\ Consume(c) /\ conn[c].wire # << >>
            \/ ~AskRefused(c) /\ call'[c].st = "over" /\ Leave(c)
            \/ AskRefused(c) /\ call'[c].st = "over" /\ conn' = conn
<1>0. UNCHANGED <<disk, phase, exit, round, job>>
  BY ZenonT(60) DEF ClientReads, ReadHead, ReadError, ReadPage, ReadChunk, ReadLast, ReadBody,
         Dropped, Timeout, AskRefused, Reading, Elsewhere
<1>1. CASE ReadHead(c) \/ ReadChunk(c)
  BY <1>0, <1>1 DEF ReadHead, ReadChunk, Reading
<1>2. CASE /\ ~ReadHead(c) /\ ~ReadChunk(c) /\ ~AskRefused(c)
           /\ ClientReads(c) \/ Timeout(c)
  <2>1. Leave(c)
    BY <1>2 DEF ClientReads, ReadError, ReadPage, ReadLast, ReadBody, Dropped, Timeout
  <2>2. call'[c].st = "over"  BY <1>2, CallGives
  <2> QED  BY <1>0, <1>2, <2>1, <2>2, SMTT(30)
<1>3. CASE AskRefused(c)
  <2>1. conn' = conn  BY <1>3 DEF AskRefused
  <2>2. ~ReadHead(c) /\ ~ReadChunk(c)
    <3>1. call[c].st = "idle"  BY <1>3 DEF AskRefused, NoCall
    <3> QED  BY <3>1 DEF ReadHead, ReadChunk, Reading
  <2>3. call'[c].st = "over"  BY <1>3, <2>2, CallGives
  <2> QED  BY <1>0, <1>3, <2>1, <2>3
<1> QED  BY <1>1, <1>2, <1>3, SMTT(30)

LEMMA ClientTypes ==
  ASSUME Types, NEW c \in Client, ClientStep(c)
  PROVE  /\ ConnTyped' /\ CallTyped' /\ JobTyped' /\ PhaseTyped'
         /\ UNCHANGED <<disk, phase, exit, round, job>>
<1>0. ConnTyped /\ CallTyped /\ JobTyped /\ PhaseTyped  BY DEF Types
<1>1. ASSUME UNCHANGED <<disk, phase, exit, round, job>>
      PROVE  JobTyped' /\ PhaseTyped' /\ acked' = acked
  BY <1>0, <1>1 DEF JobTyped, PhaseTyped, disk
<1>2. CASE Ask(c)
  <2>1. UNCHANGED <<disk, phase, exit, round, job>>  BY <1>2 DEF Ask, Elsewhere
  <2>2. ConnTyped'  BY <1>0, <1>1, <1>2, <2>1, AskGives DEF ConnTyped
  <2>3. CallTyped'
    <3>1. call[c].got \in Seq(Byte)
      <4>1. call[c].st = "idle"  BY <1>2 DEF Ask, NoCall
      <4> QED  BY <1>0, <4>1 DEF CallTyped
    <3> QED  BY <1>0, <1>2, <3>1, AskGives DEF CallTyped
  <2> QED  BY <1>1, <2>1, <2>2, <2>3
<1>3. CASE ClientReads(c) \/ Timeout(c) \/ AskRefused(c)
  <2>1. UNCHANGED <<disk, phase, exit, round, job>>  BY <1>3, ReadsGives
  <2>2. CallTyped'  BY <1>3, CallGives
  <2>3. acked' = acked  BY <1>1, <2>1
  <2>4. CASE Consume(c) /\ conn[c].wire # << >>
    BY <1>0, <1>1, <2>1, <2>2, <2>3, <2>4, ConsumeGives DEF ConnTyped
  <2>5. CASE Leave(c)
    BY <1>0, <1>1, <2>1, <2>2, <2>3, <2>5, LeaveGives DEF ConnTyped
  <2>6. CASE conn' = conn
    BY <1>0, <1>1, <2>1, <2>2, <2>3, <2>6 DEF ConnTyped
  <2> QED  BY <1>3, <2>4, <2>5, <2>6, ReadsGives
<1> QED  BY <1>2, <1>3 DEF ClientStep

\* A process that appends, or cuts, may stand beside a handler at any step of it.
LEMMA WriterTypes ==
  ASSUME Types, Writer
  PROVE  ConnTyped' /\ JobTyped' /\ PhaseTyped'
<1>0. Disk /\ ConnTyped /\ JobTyped /\ PhaseTyped /\ acked' \in Nat /\ acked <= acked'
      /\ acked \in Nat /\ UNCHANGED <<phase, exit, round, job, conn>> /\ Chained(recs)
  BY WriterStep, DiskNumbers DEF Types, Disk
<1>1. ConnTyped'
  <2>1. \A c \in Client : conn[c].due \in Nat  BY <1>0 DEF ConnTyped, ConnType
  <2> QED  BY <1>0, <2>1 DEF ConnTyped
<1>2. PhaseTyped'  BY <1>0 DEF PhaseTyped
<1>3. JobTyped'
  <2> SUFFICES ASSUME job.step = "list"
               PROVE  \E k \in 0 .. Len(recs') :
                        /\ Len(job.list) + Len(recs') <= k + born'
                        /\ k = 0 \/ recs'[k].off < job.at
    BY <1>0 DEF JobTyped
  <2>1. PICK j \in 0 .. Len(recs) :
          /\ Len(job.list) + Len(recs) <= j + born
          /\ j = 0 \/ recs[j].off < job.at
    BY <1>0 DEF JobTyped
  <2>2. /\ Len(job.list) \in Nat /\ job.at \in Nat /\ Len(recs) \in Nat /\ born \in Nat
        /\ j \in Nat /\ j <= Len(recs)
    <3>1. job.list \in Seq(Nat) /\ job.at \in Nat  BY <1>0 DEF JobTyped, JobType
    <3>2. Len(recs) \in Nat /\ born \in Nat  BY <1>0, DiskNumbers
    <3> QED  BY <2>1, <3>1, <3>2
  <2>3. CASE Begin
    <3>1. PICK r : recs' = Append(recs, r)  BY <2>3 DEF Begin
    <3>2. /\ Len(recs') = Len(recs) + 1 /\ born' = born + 1
          /\ \A k \in 1 .. Len(recs) : recs'[k] = recs[k]
      BY <1>0, <2>3, <3>1 DEF Begin, Chained
    <3>3. j \in 0 .. Len(recs') /\ Len(job.list) + Len(recs') <= j + born'
      <4>1. /\ Len(recs') \in Nat /\ Len(recs') = Len(recs) + 1 /\ born' = born + 1
            /\ Len(job.list) + Len(recs) <= j + born
        BY <2>1, <2>2, <3>2
      <4>2. j \in 0 .. Len(recs')  BY <2>2, <4>1
      <4>3. \A a, l, k, b \in Nat : a + l <= k + b => a + (l + 1) <= k + (b + 1)  OBVIOUS
      <4>4. Len(job.list) + (Len(recs) + 1) <= j + (born + 1)  BY <2>2, <4>1, <4>3
      <4>5. Len(job.list) + Len(recs') <= j + born'  BY <4>1, <4>4
      <4> QED  BY <4>2, <4>5
    <3>4. j = 0 \/ recs'[j].off < job.at  BY <2>1, <2>2, <3>2
    <3> QED  BY <3>3, <3>4
  <2>4. CASE Grow \/ Stored
    BY <2>1, <2>4 DEF Grow, Stored, Written
  <2>5. CASE Withdraw
    <3>1. /\ recs' = SubSeq(recs, 1, acked) /\ acked < Len(recs) /\ born' = born
          /\ acked \in 1 .. Len(recs) /\ Len(recs) <= acked + 1
      BY <1>0, <2>5 DEF Withdraw, Written, Disk
    <3>2. /\ Len(recs') = acked /\ \A k \in 1 .. acked : recs'[k] = recs[k]
          /\ acked + 1 = Len(recs)
      BY <1>0, <2>2, <3>1, ChainedPart
    <3>3. CASE j <= acked
      <4>1. j \in 0 .. Len(recs') /\ Len(job.list) + Len(recs') <= j + born'
        <5>1. Len(recs') \in Nat /\ Len(recs') <= Len(recs) /\ j <= Len(recs')
          BY <1>0, <2>2, <3>2, <3>3
        <5>2. born' = born /\ Len(job.list) + Len(recs) <= j + born  BY <2>1, <3>1
        <5>3. j \in 0 .. Len(recs')  BY <2>2, <5>1
        <5>4. Len(job.list) + Len(recs') <= j + born  BY <2>2, <5>1, <5>2
        <5> QED  BY <5>2, <5>3, <5>4
      <4>2. j = 0 \/ recs'[j].off < job.at  BY <1>0, <2>1, <2>2, <3>2, <3>3
      <4> QED  BY <4>1, <4>2
    <3>4. CASE j = Len(recs)
      <4>1. acked \in 0 .. Len(recs') /\ Len(job.list) + Len(recs') <= acked + born'
        BY <1>0, <2>1, <2>2, <3>1, <3>2, <3>4
      <4>2. recs[acked].off < recs[j].off
        <5>1. j \in acked + 1 .. Len(recs) /\ j \in 1 .. Len(recs)
          BY <1>0, <2>2, <3>1, <3>2, <3>4
        <5>2. EndOf(recs[acked]) <= recs[j].off /\ recs[acked].off < EndOf(recs[acked])
              /\ recs[acked].off \in Nat /\ EndOf(recs[acked]) \in Nat
              /\ recs[j].off \in Nat
          BY <1>0, <3>1, <5>1, Later, RecordNumbers
        <5> QED  BY <5>2
      <4>3. recs[acked].off \in Nat /\ recs[j].off \in Nat /\ recs[j].off < job.at
        <5>1. j \in 1 .. Len(recs) /\ j # 0  BY <2>2, <3>1, <3>4
        <5> QED  BY <1>0, <2>1, <3>1, <5>1, RecordNumbers
      <4>4. recs'[acked] = recs[acked]  BY <1>0, <3>1, <3>2
      <4> QED  BY <2>2, <4>1, <4>2, <4>3, <4>4, SMTT(30)
    <3> QED  BY <1>0, <2>2, <3>2, <3>3, <3>4
  <2> QED  BY <2>3, <2>4, <2>5 DEF Writer
<1> QED  BY <1>1, <1>2, <1>3

LEMMA TypesInit == WInit => Types
<1> SUFFICES ASSUME WInit PROVE Types  OBVIOUS
<1>1. Disk  BY DiskInit DEF WInit
<1>2. /\ phase = "serving" /\ exit = "none" /\ round = {} /\ job = NoJob
      /\ conn = [c \in Client |-> NoConn] /\ call = [c \in Client |-> NoCall]
  BY DEF WInit, Init
<1>3. NoConn \in ConnType /\ NoConn.q = NoQuestion /\ NoConn.due = 0
  BY DEF NoConn, NoQuestion, ConnType
<1>4. ConnTyped  BY <1>1, <1>2, <1>3, DiskNumbers DEF ConnTyped
<1>5. NoCall \in CallType /\ NoCall.got \in Seq(Byte)
  <2>1. 0 \in 0 .. W32 - 1  BY ClientAssumption
  <2> QED  BY <2>1 DEF NoCall, CallType
<1>6. CallTyped  BY <1>2, <1>5 DEF CallTyped
<1>7. NoJob \in JobType /\ NoJob.step = "idle"  BY DEF NoJob, JobType
<1>8. JobTyped  BY <1>2, <1>7 DEF JobTyped
<1> QED  BY <1>1, <1>2, <1>4, <1>6, <1>8 DEF Types, PhaseTyped

LEMMA TypesStep == Types /\ [Next]_vars => Types'
<1> SUFFICES ASSUME Types, [Next]_vars PROVE Types'  OBVIOUS
<1>0. Disk'  BY DiskStep DEF Types
<1>1. ASSUME call' = call PROVE CallTyped'  BY <1>1 DEF Types, CallTyped
<1>2. CASE Writer /\ call' = call  BY <1>0, <1>1, <1>2, WriterTypes DEF Types
<1>3. CASE Server /\ call' = call  BY <1>0, <1>1, <1>3, ServerTypes DEF Types
<1>4. CASE Die /\ call' = call
  BY <1>0, <1>1, <1>4 DEF Die, Types, ConnTyped, JobTyped, PhaseTyped, disk
<1>5. ASSUME NEW c \in Client, ClientStep(c) PROVE Types'
  BY <1>0, <1>5, ClientTypes DEF Types
<1>6. CASE UNCHANGED vars
  BY <1>0, <1>1, <1>6 DEF vars, svars, Types, ConnTyped, JobTyped, PhaseTyped, disk
<1>7. CASE DiskFault /\ call' = call  BY <1>0, <1>1, <1>7, FaultTypes DEF Types
<1> QED  BY <1>2, <1>3, <1>4, <1>5, <1>6, <1>7 DEF Next

LEMMA TypesHold == Spec => []Types
BY TypesInit, TypesStep, PTL DEF Spec

\* The type invariant of the server, its clients and the writing process, whatever
\* the number of clients and records, and wherever each of them is interrupted.
THEOREM TypeCorrect == Spec => []TypeOK
<1>1. Types => TypeOK
  <2> SUFFICES ASSUME Types PROVE TypeOK  OBVIOUS
  <2>1. Disk /\ ConnTyped /\ CallTyped /\ JobTyped /\ PhaseTyped  BY DEF Types
  <2>2. recs \in Seq(RecordType)  BY <2>1 DEF Disk, Chained
  <2>3. (job.step = "idle") = (job.of = {}) /\ Cardinality(job.of) <= 1
    <3>1. CASE job = NoJob
      BY <3>1, FS_EmptySet DEF NoJob
    <3>2. CASE job.step # "idle" /\ \E c \in Client : job.of = {c}
      <4>1. PICK c \in Client : job.of = {c}  BY <3>2
      <4>2. Cardinality({c}) = 1  BY FS_Singleton
      <4> QED  BY <3>2, <4>1, <4>2
    <3> QED  BY <2>1, <3>1, <3>2 DEF JobTyped
  <2>4. ASSUME NEW c \in Client
        PROVE  /\ conn[c].q \in Question[c] \cup {NoQuestion}
               /\ conn[c].st \in {"none", "asked", "handled"}
               /\ conn[c].out \in Seq(FrameType) /\ conn[c].wire \in Seq(FrameType)
               /\ conn[c].due \in 0 .. acked /\ conn[c].gone \in BOOLEAN
               /\ conn[c].torn \in BOOLEAN
    <3>1. conn[c] \in ConnType  BY <2>1 DEF ConnTyped
    <3>2. conn[c].out \in Seq(OneFrame) /\ conn[c].wire \in Seq(OneFrame)
      BY <3>1 DEF ConnType
    <3>3. ASSUME NEW s \in Seq(OneFrame) PROVE s \in Seq(FrameType)
      <4>1. \A f \in OneFrame : f \in FrameType  BY FrameFields
      <4> QED  BY <3>3, <4>1
    <3>4. conn[c].due \in Nat /\ conn[c].due <= acked /\ acked \in Nat
      BY <2>1, <3>1, DiskNumbers DEF ConnTyped, ConnType
    <3> QED  BY <2>1, <3>1, <3>2, <3>3, <3>4 DEF ConnTyped, ConnType
  <2>5. ASSUME NEW c \in Client
        PROVE  /\ call[c].st \in {"idle", "waiting", "reading", "over"}
               /\ call[c].count \in 0 .. W32 - 1 /\ call[c].cut \in BOOLEAN
               /\ call[c].result \in {"none", "ok", "failed", "crashed"}
    BY <2>1 DEF CallTyped, CallType
  <2> QED
    BY <2>1, <2>2, <2>3, <2>4, <2>5 DEF TypeOK, Disk, JobTyped, PhaseTyped
<1> QED  BY <1>1, TypesHold, PTL

-----------------------------------------------------------------------------
(* The replies. *)

Ends == {"last", "body", "error", "page"}
Starts(F, s) == s = "reading" \/ (Len(F) > 0 /\ F[1].t = "head")

\* What a client that is waiting for its reply, or reading it, has before it: an
\* end comes last, except that an error may come before a list; a head comes first;
\* as long as the handler is busy there is no end, and without one there is.
Form(F, s, kind, busy) ==
  /\ F \in Seq(OneFrame) /\ s \in {"waiting", "reading"}
  /\ \A k \in 1 .. Len(F) :
       /\ F[k].t \in Ends /\ k < Len(F)
            => kind = "list" /\ F[k].t = "error" /\ k = 1 /\ s = "waiting"
       /\ F[k].t = "head"
            => \/ k = 1 /\ s = "waiting"
               \/ k = 2 /\ kind = "list" /\ F[1].t = "error"
       /\ kind = "stop" => F[k].t \in {"error", "page"}
       /\ kind # "list" /\ Starts(F, s) => F[k].t \notin {"error", "page"}
       /\ busy => F[k].t \notin Ends
  /\ ~busy => Len(F) > 0 /\ F[Len(F)].t \in Ends
  /\ busy => IF kind = "list" THEN F = << >> /\ s = "waiting" ELSE Starts(F, s)

\* The client takes the head, or a chunk.
LEMMA FormTail ==
  ASSUME NEW F, NEW s, NEW kind, NEW busy \in BOOLEAN, Form(F, s, kind, busy), F # << >>,
         \/ s = "waiting" /\ F[1].t = "head"
         \/ s = "reading" /\ F[1].t = "chunk"
  PROVE  kind # "stop" /\ Form(Tail(F), "reading", kind, busy)
<1> DEFINE G == Tail(F)
<1>1. /\ F \in Seq(OneFrame) /\ Len(F) \in Nat \ {0} /\ G \in Seq(OneFrame)
      /\ Len(G) = Len(F) - 1 /\ \A k \in 1 .. Len(G) : G[k] = F[k + 1]
  BY DEF Form
<1>2. 1 \in 1 .. Len(F)  BY <1>1
<1>3. kind # "stop"  BY <1>2 DEF Form
<1>4. Starts(F, s)  BY <1>1 DEF Starts
<1> HIDE DEF G
<1>5. ASSUME NEW k \in 1 .. Len(G)
      PROVE  /\ G[k].t \in Ends => k = Len(G)
             /\ G[k].t # "head"
             /\ kind # "list" => G[k].t \notin {"error", "page"}
             /\ busy => G[k].t \notin Ends
  <2>1. k + 1 \in 1 .. Len(F) /\ k + 1 # 1 /\ G[k] = F[k + 1]
        /\ (k = Len(G) <=> ~(k + 1 < Len(F)))
    BY <1>1
  <2>2. F[1].t # "error"  OBVIOUS
  <2> QED  BY <1>4, <2>1, <2>2 DEF Form
<1>6. busy => kind # "list"  BY DEF Form
<1>7. ~busy => Len(G) > 0 /\ G[Len(G)].t \in Ends
  <2> SUFFICES ASSUME ~busy PROVE Len(G) > 0 /\ G[Len(G)].t \in Ends  OBVIOUS
  <2>1. F[Len(F)].t \in Ends  BY DEF Form
  <2>2. Len(F) # 1  BY <2>1 DEF Ends
  <2>3. Len(G) \in 1 .. Len(G) /\ Len(G) > 0 /\ Len(G) + 1 = Len(F)  BY <1>1, <2>2
  <2>4. G[Len(G)] = F[Len(F)]  BY <1>1, <2>3
  <2> QED  BY <2>1, <2>3, <2>4
<1>8. Starts(G, "reading")  BY DEF Starts
<1>9. Form(G, "reading", kind, busy)  BY <1>1, <1>3, <1>5, <1>6, <1>7, <1>8 DEF Form
<1> QED  BY <1>3, <1>9 DEF G

\* A busy handler sends more, or ends.
LEMMA FormMore ==
  ASSUME NEW F, NEW s, NEW kind, Form(F, s, kind, TRUE), kind # "list", kind # "stop",
         NEW f \in OneFrame, f.t = "chunk"
  PROVE  Form(F \o <<f>>, s, kind, TRUE)
<1> DEFINE G == F \o <<f>>
<1>1. /\ F \in Seq(OneFrame) /\ Len(F) \in Nat /\ G \in Seq(OneFrame)
      /\ Len(G) = Len(F) + 1 /\ G[Len(F) + 1] = f /\ \A k \in 1 .. Len(F) : G[k] = F[k]
  BY DEF Form
<1> HIDE DEF G
<1>2. Starts(F, s)  BY DEF Form
<1>3. Starts(G, s)  BY <1>1, <1>2 DEF Starts
<1>4. ASSUME NEW k \in 1 .. Len(G)
      PROVE  /\ G[k].t \notin Ends
             /\ G[k].t = "head" => k = 1 /\ s = "waiting"
  <2>1. CASE k \in 1 .. Len(F)  BY <1>1, <2>1 DEF Form
  <2>2. CASE k = Len(F) + 1  BY <1>1, <2>2 DEF Ends
  <2> QED  BY <1>1, <2>1, <2>2
<1>5. Form(G, s, kind, TRUE)  BY <1>1, <1>3, <1>4 DEF Form, Ends
<1> QED  BY <1>5 DEF G

LEMMA FormEnded ==
  ASSUME NEW F, NEW s, NEW kind, Form(F, s, kind, TRUE), kind # "list", kind # "stop",
         NEW f \in OneFrame, f.t = "last"
  PROVE  Form(F \o <<f>>, s, kind, FALSE)
<1> DEFINE G == F \o <<f>>
<1>1. /\ F \in Seq(OneFrame) /\ Len(F) \in Nat /\ G \in Seq(OneFrame)
      /\ Len(G) = Len(F) + 1 /\ G[Len(F) + 1] = f /\ \A k \in 1 .. Len(F) : G[k] = F[k]
  BY DEF Form
<1> HIDE DEF G
<1>2. ASSUME NEW k \in 1 .. Len(G)
      PROVE  /\ G[k].t \in Ends => k = Len(G)
             /\ G[k].t \notin {"error", "page"}
             /\ G[k].t = "head" => k = 1 /\ s = "waiting"
  <2>1. CASE k \in 1 .. Len(F)  BY <1>1, <2>1 DEF Form, Ends
  <2>2. CASE k = Len(F) + 1  BY <1>1, <2>2 DEF Ends
  <2> QED  BY <1>1, <2>1, <2>2
<1>3. Len(G) > 0 /\ G[Len(G)].t \in Ends  BY <1>1 DEF Ends
<1>4. Form(G, s, kind, FALSE)  BY <1>1, <1>2, <1>3 DEF Form
<1> QED  BY <1>4 DEF G

LEMMA FormLastChunk ==
  ASSUME NEW F, NEW s, NEW kind, Form(F, s, kind, TRUE), kind # "list", kind # "stop",
         NEW f \in OneFrame, f.t = "chunk", NEW g \in OneFrame, g.t = "last"
  PROVE  Form(F \o <<f, g>>, s, kind, FALSE)
<1> DEFINE G == F \o <<f, g>>
<1>1. /\ F \in Seq(OneFrame) /\ Len(F) \in Nat /\ G \in Seq(OneFrame)
      /\ Len(G) = Len(F) + 2 /\ G[Len(F) + 1] = f /\ G[Len(F) + 2] = g
      /\ \A k \in 1 .. Len(F) : G[k] = F[k]
  <2>1. F \in Seq(OneFrame) /\ Len(F) \in Nat  BY DEF Form
  <2>2. <<f, g>> \in Seq(OneFrame) /\ Len(<<f, g>>) = 2 /\ <<f, g>>[1] = f
        /\ <<f, g>>[2] = g
    OBVIOUS
  <2> QED  BY <2>1, <2>2
<1> HIDE DEF G
<1>2. ASSUME NEW k \in 1 .. Len(G)
      PROVE  /\ G[k].t \in Ends => k = Len(G)
             /\ G[k].t \notin {"error", "page"}
             /\ G[k].t = "head" => k = 1 /\ s = "waiting"
  <2>1. CASE k \in 1 .. Len(F)  BY <1>1, <2>1 DEF Form, Ends
  <2>2. CASE k = Len(F) + 1  BY <1>1, <2>2 DEF Ends
  <2>3. CASE k = Len(F) + 2  BY <1>1, <2>3 DEF Ends
  <2> QED  BY <1>1, <2>1, <2>2, <2>3
<1>3. Len(G) > 0 /\ G[Len(G)].t \in Ends  BY <1>1 DEF Ends
<1>4. Form(G, s, kind, FALSE)  BY <1>1, <1>2, <1>3 DEF Form
<1> QED  BY <1>4 DEF G

\* The reply of each client.
Formed(c) ==
  /\ call[c].st = "idle" => conn[c].st = "none"
  /\ conn[c].gone => call[c].st = "over"
  /\ conn[c].st = "none" => conn[c].out = << >> /\ conn[c].wire = << >>
  /\ c \in job.of => /\ conn[c].st = "handled"
                     /\ conn[c].q.kind \in {"file", "record", "list", "filter"}
                     /\ (job.step = "list") = (conn[c].q.kind = "list")
  /\ call[c].st # "over" =>
       /\ conn[c].st = "asked" =>
            call[c].st = "waiting" /\ conn[c].out = << >> /\ conn[c].wire = << >>
       /\ conn[c].st = "handled" =>
            Form(Frames(c), call[c].st, conn[c].q.kind, c \in job.of)

AllFormed == \A c \in Client : Formed(c)

\* A client whose connection, call and handler are left alone.
LEMMA FormedKept ==
  ASSUME NEW c \in Client, Formed(c), conn'[c] = conn[c], call'[c] = call[c],
         c \notin job.of, c \notin job'.of
  PROVE  Formed(c)'
<1>1. Frames(c)' = Frames(c)  BY DEF Frames
<1>2. (c \in job.of) = FALSE /\ (c \in job'.of) = FALSE  OBVIOUS
<1>3. call[c].st # "over" /\ conn[c].st = "handled" =>
        Form(Frames(c)', call[c].st, conn[c].q.kind, (c \in job'.of))
  BY <1>1, <1>2 DEF Formed
<1> QED  BY <1>3 DEF Formed

LEMMA Joined ==
  ASSUME NEW s \in Seq(OneFrame), NEW t \in Seq(OneFrame), NEW u \in Seq(OneFrame)
  PROVE  (s \o t) \o u = s \o (t \o u)
BY ConcatAssociative, SMTT(30)

LEMMA FramesTyped ==
  ASSUME ConnTyped, NEW c \in Client
  PROVE  /\ conn[c].out \in Seq(OneFrame) /\ conn[c].wire \in Seq(OneFrame)
         /\ Frames(c) \in Seq(OneFrame)
<1>1. conn[c] \in ConnType  BY DEF ConnTyped
<1>2. conn[c].out \in Seq(OneFrame) /\ conn[c].wire \in Seq(OneFrame)  BY <1>1 DEF ConnType
<1> QED  BY <1>2 DEF Frames

\* The first frames of a reply.
LEMMA FirstForm ==
  ASSUME NEW kind
  PROVE  /\ Form(<<Error>>, "waiting", kind, FALSE)
         /\ Form(<<Page>>, "waiting", kind, FALSE)
         /\ kind # "stop" => Form(<<Begun(0), Ended>>, "waiting", kind, FALSE)
         /\ \A n \in Nat : kind \notin {"stop", "list"} =>
              Form(<<Begun(n)>>, "waiting", kind, TRUE)
         /\ kind \notin {"stop", "list"} => Form(<<Begun(Unknown)>>, "waiting", kind, TRUE)
         /\ kind = "list" => Form(<< >>, "waiting", kind, TRUE)
         /\ \A n \in Nat, l \in ShortList : kind = "list" =>
              /\ Form(<<Begun(n), Body(l)>>, "waiting", kind, FALSE)
              /\ Form(<<Error>> \o <<Begun(n), Body(l)>>, "waiting", kind, FALSE)
<1>1. ASSUME NEW f \in OneFrame, f.t \in {"error", "page"}
      PROVE  Form(<<f>>, "waiting", kind, FALSE)
  <2>1. /\ <<f>> \in Seq(OneFrame) /\ Len(<<f>>) = 1 /\ <<f>>[1] = f
    OBVIOUS
  <2> QED  BY <1>1, <2>1 DEF Form, Starts, Ends
<1>2. ASSUME NEW f \in OneFrame, f.t = "head", kind \notin {"stop", "list"}
      PROVE  Form(<<f>>, "waiting", kind, TRUE)
  <2>1. /\ <<f>> \in Seq(OneFrame) /\ Len(<<f>>) = 1 /\ <<f>>[1] = f
    OBVIOUS
  <2> QED  BY <1>2, <2>1 DEF Form, Starts, Ends
<1>3. ASSUME NEW f \in OneFrame, NEW g \in OneFrame, f.t = "head", g.t \in {"last", "body"},
             kind # "stop"
      PROVE  Form(<<f, g>>, "waiting", kind, FALSE)
  <2>1. /\ <<f, g>> \in Seq(OneFrame) /\ Len(<<f, g>>) = 2 /\ <<f, g>>[1] = f
        /\ <<f, g>>[2] = g
    OBVIOUS
  <2> QED  BY <1>3, <2>1 DEF Form, Starts, Ends
<1>4. ASSUME NEW e \in OneFrame, NEW f \in OneFrame, NEW g \in OneFrame,
             e.t = "error", f.t = "head", g.t = "body", kind = "list"
      PROVE  Form(<<e>> \o <<f, g>>, "waiting", kind, FALSE)
  <2> DEFINE G == <<e>> \o <<f, g>>
  <2>1. <<e>> \in Seq(OneFrame) /\ <<f, g>> \in Seq(OneFrame) /\ Len(<<e>>) = 1
        /\ Len(<<f, g>>) = 2 /\ <<e>>[1] = e /\ <<f, g>>[1] = f /\ <<f, g>>[2] = g
    OBVIOUS
  <2>2. /\ G \in Seq(OneFrame) /\ Len(G) = 3 /\ G[1] = e /\ G[2] = f /\ G[3] = g
    BY <2>1
  <2> HIDE DEF G
  <2>3. Form(G, "waiting", kind, FALSE)  BY <1>4, <2>2 DEF Form, Starts, Ends
  <2> QED  BY <2>3 DEF G
<1>5. kind = "list" => Form(<< >>, "waiting", kind, TRUE)
  BY DEF Form
<1>6. /\ Error \in OneFrame /\ Error.t = "error" /\ Page \in OneFrame /\ Page.t = "page"
      /\ Ended \in OneFrame /\ Ended.t = "last"
      /\ \A n \in Nat : Begun(n) \in OneFrame /\ Begun(n).t = "head"
      /\ Begun(Unknown) \in OneFrame /\ Begun(Unknown).t = "head"
      /\ \A l \in ShortList : Body(l) \in OneFrame /\ Body(l).t = "body"
  BY FrameShapes DEF Error, Page, Ended, Begun, Body
<1>7. Form(<<Error>>, "waiting", kind, FALSE) /\ Form(<<Page>>, "waiting", kind, FALSE)
  BY <1>1, <1>6
<1>8. kind # "stop" => Form(<<Begun(0), Ended>>, "waiting", kind, FALSE)
  BY <1>3, <1>6
<1>9. /\ \A n \in Nat : kind \notin {"stop", "list"} =>
           Form(<<Begun(n)>>, "waiting", kind, TRUE)
      /\ kind \notin {"stop", "list"} => Form(<<Begun(Unknown)>>, "waiting", kind, TRUE)
  BY <1>2, <1>6
<1>10. \A n \in Nat, l \in ShortList : kind = "list" =>
              /\ Form(<<Begun(n), Body(l)>>, "waiting", kind, FALSE)
              /\ Form(<<Error>> \o <<Begun(n), Body(l)>>, "waiting", kind, FALSE)
  BY <1>3, <1>4, <1>6
<1> QED  BY <1>5, <1>7, <1>8, <1>9, <1>10

\* A handler starts a reply.
LEMMA FormedReply ==
  ASSUME Types, AllFormed, NEW c \in Client, conn[c].st = "asked",
         call' = call, NEW frames \in Seq(OneFrame), HasReplied(c, frames),
         Form(frames, "waiting", conn[c].q.kind, c \in job'.of),
         job.of = {}, job'.of \subseteq {c},
         c \in job'.of =>
           /\ conn[c].q.kind \in {"file", "record", "list", "filter"}
           /\ (job'.step = "list") = (conn[c].q.kind = "list")
  PROVE  AllFormed'
<1>1. /\ \A d \in Client : d # c => conn'[d] = conn[d]
      /\ conn'[c].q = conn[c].q /\ conn'[c].st = "handled"
      /\ conn'[c].out = conn[c].out \o frames /\ conn'[c].wire = conn[c].wire
      /\ conn'[c].gone = conn[c].gone
  BY DEF HasReplied
<1>2. ASSUME NEW d \in Client, d # c PROVE Formed(d)'
  BY <1>1, <1>2, FormedKept DEF AllFormed
<1>3. Formed(c)'
  <2>0. Formed(c)  BY DEF AllFormed
  <2>1. ASSUME call[c].st # "over"
        PROVE  call[c].st = "waiting" /\ Frames(c)' = frames
    <3>1. call[c].st = "waiting" /\ conn[c].out = << >> /\ conn[c].wire = << >>
      BY <2>0, <2>1 DEF Formed
    <3>2. Frames(c)' = << >> \o (<< >> \o frames)  BY <1>1, <3>1 DEF Frames
    <3> QED  BY <3>1, <3>2
  <2>2. call[c].st # "over" =>
          Form(Frames(c)', call'[c].st, conn'[c].q.kind, c \in job'.of)
    BY <1>1, <2>1
  <2>3. call'[c].st # "idle"  BY <2>0 DEF Formed
  <2> QED  BY <1>1, <2>0, <2>2, <2>3 DEF Formed
<1> QED  BY <1>2, <1>3 DEF AllFormed

\* A reply of a handler adds to what c alone is to be sent,
LEMMA ReplyHas ==
  ASSUME Types, NEW c \in Client, NEW frames \in Seq(OneFrame), Reply(c, frames)
  PROVE  HasReplied(c, frames)
BY ReplyGives, DiskNumbers DEF Types, ConnTyped, HasReplied

LEMMA FormedHandle ==
  ASSUME Types, AllFormed, NEW c \in Client, Handle(c), call' = call
  PROVE  AllFormed'
<1>0. conn[c].st = "asked" /\ job = NoJob /\ job.of = {} /\ From(c) \in Nat /\ Disk
      /\ size \in Nat
  BY Handled, DiskNumbers DEF NoJob, Types
<1>1. ASSUME NEW frames \in Seq(OneFrame), Reply(c, frames), job' = NoJob,
             Form(frames, "waiting", conn[c].q.kind, FALSE)
      PROVE  AllFormed'
  <2>1. job'.of = {} /\ (c \in job'.of) = FALSE  BY <1>1 DEF NoJob
  <2>2. Form(frames, "waiting", conn[c].q.kind, c \in job'.of)  BY <1>1, <2>1
  <2> QED  BY <1>0, <1>1, <2>1, <2>2, FormedReply, ReplyHas
<1>2. ASSUME NEW frames \in Seq(OneFrame), Reply(c, frames), job'.of = {c},
             Form(frames, "waiting", conn[c].q.kind, TRUE),
             conn[c].q.kind \in {"file", "record", "list", "filter"},
             (job'.step = "list") = (conn[c].q.kind = "list")
      PROVE  AllFormed'
  <2>1. (c \in job'.of) = TRUE /\ job'.of \subseteq {c}  BY <1>2
  <2>2. Form(frames, "waiting", conn[c].q.kind, c \in job'.of)  BY <1>2, <2>1
  <2> QED  BY <1>0, <1>2, <2>1, <2>2, FormedReply, ReplyHas
<1>3. /\ <<Error>> \in Seq(OneFrame) /\ <<Page>> \in Seq(OneFrame)
      /\ <<Begun(0), Ended>> \in Seq(OneFrame) /\ <<Begun(Unknown)>> \in Seq(OneFrame)
      /\ \A n \in Nat : <<Begun(n)>> \in Seq(OneFrame)
  BY FrameShapes
<1>4. CASE HandleLate(c) \/ HandleWrong(c) \/ HandleStop(c)
  <2>1. job' = NoJob /\ (Reply(c, <<Error>>) \/ Reply(c, <<Page>>))
    BY <1>0, <1>4 DEF HandleLate, HandleWrong, HandleStop
  <2> QED  BY <1>1, <1>3, <2>1, FirstForm
<1>5. CASE HandleFile(c)
  <2> DEFINE n == size - From(c)
  <2>0. conn[c].q.kind = "file"  BY <1>5 DEF HandleFile, Handling
  <2>1. \/ job' = NoJob /\ conn' = conn
        \/ job' = NoJob /\ Reply(c, <<Begun(0), Ended>>)
        \/ /\ n > 0 /\ Reply(c, <<Begun(n)>>)
           /\ job' = [NoJob EXCEPT !.of = {c}, !.step = "chunks", !.at = From(c), !.left = n]
    BY <1>0, <1>5 DEF HandleFile
  <2>2. CASE job' = NoJob /\ conn' = conn
    <3>1. ASSUME NEW d \in Client PROVE Formed(d)'
      BY <1>0, <2>2, FormedKept DEF AllFormed
    <3> QED  BY <3>1 DEF AllFormed
  <2>3. CASE job' = NoJob /\ Reply(c, <<Begun(0), Ended>>)
    BY <1>1, <1>3, <2>0, <2>3, FirstForm
  <2>4. CASE /\ n > 0 /\ Reply(c, <<Begun(n)>>)
             /\ job' = [NoJob EXCEPT !.of = {c}, !.step = "chunks", !.at = From(c), !.left = n]
    <3>1. n \in Nat  BY <1>0, <2>4
    <3> HIDE DEF n
    <3>2. job'.of = {c} /\ job'.step = "chunks"  BY <2>4 DEF NoJob
    <3>3. Form(<<Begun(n)>>, "waiting", conn[c].q.kind, TRUE)  BY <2>0, <3>1, FirstForm
    <3> QED  BY <1>2, <1>3, <2>0, <2>4, <3>1, <3>2, <3>3
  <2> QED  BY <2>1, <2>2, <2>3, <2>4
<1>6. CASE HandleRecord(c)
  <2> DEFINE i == RecordAt(From(c))
  <2>0. conn[c].q.kind = "record"  BY <1>6 DEF HandleRecord, Handling
  <2>1. \/ job' = NoJob /\ Reply(c, <<Error>>)
        \/ /\ i # 0 /\ Reply(c, <<Begun(recs[i].len)>>)
           /\ job' = [NoJob EXCEPT !.of = {c}, !.step = "chunks", !.at = From(c),
                                   !.left = recs[i].len]
    BY <1>0, <1>6 DEF HandleRecord
  <2>2. CASE job' = NoJob /\ Reply(c, <<Error>>)
    BY <1>1, <1>3, <2>2, FirstForm
  <2>3. CASE /\ i # 0 /\ Reply(c, <<Begun(recs[i].len)>>)
             /\ job' = [NoJob EXCEPT !.of = {c}, !.step = "chunks", !.at = From(c),
                                     !.left = recs[i].len]
    <3>1. recs[i].len \in Nat  BY <1>0, <2>3, RecordAtGives
    <3> HIDE DEF i
    <3>2. job'.of = {c} /\ job'.step = "chunks"  BY <2>3 DEF NoJob
    <3>3. Form(<<Begun(recs[i].len)>>, "waiting", conn[c].q.kind, TRUE)
      BY <2>0, <3>1, FirstForm
    <3> QED  BY <1>2, <1>3, <2>0, <2>3, <3>1, <3>2, <3>3
  <2> QED  BY <2>1, <2>2, <2>3
<1>7. CASE HandleList(c)
  <2>1. /\ Reply(c, << >>) /\ conn[c].q.kind = "list"
        /\ job' = [NoJob EXCEPT !.of = {c}, !.step = "list", !.at = From(c), !.upto = size]
    BY <1>7 DEF HandleList, Handling
  <2>2. job'.of = {c} /\ job'.step = "list"  BY <2>1 DEF NoJob
  <2>3. << >> \in Seq(OneFrame)  OBVIOUS
  <2>4. Form(<< >>, "waiting", conn[c].q.kind, TRUE)  BY <2>1, FirstForm
  <2> QED  BY <1>2, <2>1, <2>2, <2>3, <2>4
<1>8. CASE HandleFilter(c)
  <2>1. /\ Reply(c, <<Begun(Unknown)>>) /\ conn[c].q.kind = "filter"
        /\ job' = [NoJob EXCEPT !.of = {c}, !.step = "filter", !.at = From(c), !.upto = size]
    BY <1>8 DEF HandleFilter, Handling
  <2>2. job'.of = {c} /\ job'.step = "filter"  BY <2>1 DEF NoJob
  <2>3. Form(<<Begun(Unknown)>>, "waiting", conn[c].q.kind, TRUE)  BY <2>1, FirstForm
  <2> QED  BY <1>2, <1>3, <2>1, <2>2, <2>3
<1> QED  BY <1>4, <1>5, <1>6, <1>7, <1>8 DEF Handle

\* A busy handler queues frames, and goes on or ends.
LEMMA FormedQueue ==
  ASSUME Types, AllFormed, NEW c \in Client, job.of = {c}, call' = call,
         NEW frames \in Seq(OneFrame), HasQueued(c, frames), job'.of \subseteq {c},
         c \in job'.of => (job'.step = "list") = (conn[c].q.kind = "list"),
         Form(Frames(c), call[c].st, conn[c].q.kind, TRUE)
           => Form(Frames(c) \o frames, call[c].st, conn[c].q.kind, c \in job'.of)
  PROVE  AllFormed'
<1>0. conn \in [Client -> ConnType] /\ ConnTyped  BY DEF Types, ConnTyped
<1>1. /\ \A d \in Client : d # c => conn'[d] = conn[d]
      /\ conn'[c].q = conn[c].q /\ conn'[c].st = conn[c].st
      /\ conn'[c].out = conn[c].out \o frames /\ conn'[c].wire = conn[c].wire
      /\ conn'[c].gone = conn[c].gone
  BY DEF HasQueued
<1>2. ASSUME NEW d \in Client, d # c PROVE Formed(d)'
  BY <1>1, <1>2, FormedKept DEF AllFormed
<1>3. Formed(c)'
  <2>0. Formed(c) /\ c \in job.of  BY DEF AllFormed
  <2>1. conn[c].st = "handled" /\ conn[c].q.kind \in {"file", "record", "list", "filter"}
    BY <2>0 DEF Formed
  <2>2. Frames(c)' = Frames(c) \o frames
    <3>1. /\ conn[c].out \in Seq(OneFrame) /\ conn[c].wire \in Seq(OneFrame)
          /\ frames \in Seq(OneFrame)
      BY <1>0, FramesTyped
    <3>2. Frames(c)' = conn[c].wire \o (conn[c].out \o frames)  BY <1>1 DEF Frames
    <3> DEFINE o == conn[c].out
               w == conn[c].wire
    <3>3. Frames(c)' = w \o (o \o frames) /\ Frames(c) = w \o o  BY <3>2 DEF Frames
    <3>4. o \in Seq(OneFrame) /\ w \in Seq(OneFrame)  BY <3>1
    <3> HIDE DEF o, w
    <3>5. (w \o o) \o frames = w \o (o \o frames)  BY <3>1, <3>4, Joined, SMTT(30)
    <3> QED  BY <3>3, <3>5
  <2>3. (c \in job.of) = TRUE  BY <2>0
  <2>4. call[c].st # "over" =>
          Form(Frames(c)', call'[c].st, conn'[c].q.kind, c \in job'.of)
    <3> SUFFICES ASSUME call[c].st # "over"
                 PROVE  Form(Frames(c)', call'[c].st, conn'[c].q.kind, c \in job'.of)
      OBVIOUS
    <3>1. Form(Frames(c), call[c].st, conn[c].q.kind, c \in job.of)
      BY <2>0, <2>1 DEF Formed
    <3>2. Form(Frames(c), call[c].st, conn[c].q.kind, TRUE)  BY <2>3, <3>1
    <3> QED  BY <1>1, <2>2, <3>2
  <2> QED  BY <1>1, <2>0, <2>1, <2>4 DEF Formed
<1> QED  BY <1>2, <1>3 DEF AllFormed

\* and so does each of its further turns.
LEMMA QueueHas ==
  ASSUME Types, NEW c \in Client, NEW frames \in Seq(OneFrame), Queue(c, frames)
  PROVE  HasQueued(c, frames)
BY QueueGives DEF Types, ConnTyped, HasQueued

\* A handler that goes on and queues nothing.
LEMMA FormedBusy ==
  ASSUME Types, AllFormed, NEW c \in Client, job.of = {c}, call' = call, conn' = conn,
         job'.of = {c}, (job'.step = "list") = (job.step = "list")
  PROVE  AllFormed'
<1>1. ASSUME NEW d \in Client, d # c PROVE Formed(d)'
  BY <1>1, FormedKept DEF AllFormed
<1>2. Formed(c)'
  <2>1. Formed(c) /\ job'.of = job.of  BY DEF AllFormed
  <2>2. Frames(c)' = Frames(c)  BY DEF Frames
  <2> QED  BY <2>1, <2>2 DEF Formed
<1> QED  BY <1>1, <1>2 DEF AllFormed

LEMMA FormedWork ==
  ASSUME Types, AllFormed, Work, call' = call
  PROVE  AllFormed'
<1>0. PICK c \in Client : job.of = {c}  BY WorkLeaves
<1>1. Formed(c) /\ c \in job.of  BY <1>0 DEF AllFormed
<1>2. /\ conn[c].q.kind \in {"file", "record", "list", "filter"}
      /\ (job.step = "list") = (conn[c].q.kind = "list")
  BY <1>1 DEF Formed
<1>3. Frames(c) \in Seq(OneFrame)  BY FramesTyped DEF Types
<1>4. CASE SendChunk
  <2>0. job.step = "chunks"  BY <1>0, <1>4, SendChunkGives
  <2>1. conn[c].q.kind # "list" /\ conn[c].q.kind # "stop"  BY <1>2, <2>0
  <2>2. PICK bs \in Seq(Byte) :
          \/ /\ Queue(c, <<Piece(bs)>>) /\ job' \in JobType /\ job'.of = {c}
             /\ job'.step \in {"chunks", "filter"}
          \/ Queue(c, <<Piece(bs), Ended>>) /\ job' = NoJob
    BY <1>0, <1>4, SendChunkGives
  <2>3. /\ Piece(bs) \in OneFrame /\ Piece(bs).t = "chunk"
        /\ Ended \in OneFrame /\ Ended.t = "last"
    BY FrameShapes DEF Piece, Ended
  <2>4. <<Piece(bs)>> \in Seq(OneFrame) /\ <<Piece(bs), Ended>> \in Seq(OneFrame)
    BY <2>3
  <2>5. CASE /\ Queue(c, <<Piece(bs)>>) /\ job'.of = {c}
             /\ job'.step \in {"chunks", "filter"}
    <3>1. (c \in job'.of) = TRUE  BY <2>5
    <3>2. Form(Frames(c), call[c].st, conn[c].q.kind, TRUE)
            => Form(Frames(c) \o <<Piece(bs)>>, call[c].st, conn[c].q.kind, c \in job'.of)
      BY <2>1, <2>3, <3>1, FormMore
    <3> QED  BY <1>0, <2>1, <2>4, <2>5, <3>2, FormedQueue, QueueHas
  <2>6. CASE Queue(c, <<Piece(bs), Ended>>) /\ job' = NoJob
    <3>1. job'.of = {} /\ (c \in job'.of) = FALSE  BY <2>6 DEF NoJob
    <3>2. Form(Frames(c), call[c].st, conn[c].q.kind, TRUE)
            => Form(Frames(c) \o <<Piece(bs), Ended>>, call[c].st, conn[c].q.kind,
                    c \in job'.of)
      <4> SUFFICES ASSUME Form(Frames(c), call[c].st, conn[c].q.kind, TRUE)
                   PROVE  Form(Frames(c) \o <<Piece(bs), Ended>>, call[c].st,
                               conn[c].q.kind, FALSE)
        BY <3>1
      <4> QED  BY <2>1, <2>3, FormLastChunk
    <3> QED  BY <1>0, <2>4, <2>6, <3>1, <3>2, FormedQueue, QueueHas
  <2> QED  BY <2>2, <2>5, <2>6
<1>5. CASE ListNext
  <2>0. job.step = "list" /\ conn[c].q.kind = "list"  BY <1>0, <1>2, <1>5, ListNextGives
  <2>1. CASE conn' = conn /\ job'.of = {c} /\ job'.step = "list"
    BY <1>0, <2>0, <2>1, FormedBusy
  <2>2. CASE /\ job' = NoJob
             /\ \E n \in Nat, l \in ShortList :
                  \/ Queue(c, <<Begun(n), Body(l)>>)
                  \/ Queue(c, <<Error>> \o <<Begun(n), Body(l)>>)
    <3>1. PICK n \in Nat, l \in ShortList :
            \/ Queue(c, <<Begun(n), Body(l)>>)
            \/ Queue(c, <<Error>> \o <<Begun(n), Body(l)>>)
      BY <2>2
    <3>2. Error \in OneFrame /\ Begun(n) \in OneFrame /\ Body(l) \in OneFrame  BY FrameShapes
    <3>3. <<Error>> \in Seq(OneFrame) /\ <<Begun(n), Body(l)>> \in Seq(OneFrame)  BY <3>2
    <3>4. <<Error>> \o <<Begun(n), Body(l)>> \in Seq(OneFrame)  BY <3>3
    <3>5. job'.of = {} /\ (c \in job'.of) = FALSE  BY <2>2 DEF NoJob
    <3>6. ASSUME NEW frames \in Seq(OneFrame), Queue(c, frames),
                 Form(frames, "waiting", "list", FALSE)
          PROVE  AllFormed'
      <4>1. Form(Frames(c), call[c].st, conn[c].q.kind, TRUE)
              => Form(Frames(c) \o frames, call[c].st, conn[c].q.kind, c \in job'.of)
        <5> SUFFICES ASSUME Form(Frames(c), call[c].st, conn[c].q.kind, TRUE)
                     PROVE  Form(Frames(c) \o frames, call[c].st, conn[c].q.kind, FALSE)
          BY <3>5
        <5>1. Frames(c) = << >> /\ call[c].st = "waiting"  BY <2>0 DEF Form
        <5>2. << >> \o frames = frames  OBVIOUS
        <5> QED  BY <2>0, <3>6, <5>1, <5>2
      <4> QED  BY <1>0, <3>5, <3>6, <4>1, FormedQueue, QueueHas
    <3>7. /\ Form(<<Begun(n), Body(l)>>, "waiting", "list", FALSE)
          /\ Form(<<Error>> \o <<Begun(n), Body(l)>>, "waiting", "list", FALSE)
      BY FirstForm
    <3> QED  BY <3>1, <3>3, <3>4, <3>6, <3>7
  <2> QED  BY <1>0, <1>5, <2>1, <2>2, ListNextGives
<1>6. CASE FilterNext
  <2>0. job.step = "filter"  BY <1>0, <1>6, FilterNextGives
  <2>1. conn[c].q.kind # "list" /\ conn[c].q.kind # "stop"  BY <1>2, <2>0
  <2>2. CASE Queue(c, <<Ended>>) /\ job' = NoJob
    <3>1. job'.of = {} /\ (c \in job'.of) = FALSE  BY <2>2 DEF NoJob
    <3>2. Ended \in OneFrame /\ Ended.t = "last"  BY FrameShapes DEF Ended
    <3>3. <<Ended>> \in Seq(OneFrame)  BY <3>2
    <3>4. Form(Frames(c), call[c].st, conn[c].q.kind, TRUE)
            => Form(Frames(c) \o <<Ended>>, call[c].st, conn[c].q.kind, c \in job'.of)
      BY <2>1, <3>1, <3>2, FormEnded
    <3> QED  BY <1>0, <2>2, <3>1, <3>3, <3>4, FormedQueue, QueueHas
  <2>3. CASE conn' = conn /\ job'.of = {c} /\ job'.step \in {"chunks", "filter"}
    BY <1>0, <2>0, <2>3, FormedBusy
  <2> QED  BY <1>0, <1>6, <2>2, <2>3, FilterNextGives
<1> QED  BY <1>4, <1>5, <1>6 DEF Work

\* Writing a part of the reply changes nothing in what the client will have read.
LEMMA FormedWrite ==
  ASSUME Types, AllFormed, NEW c \in Client, Write(c), call' = call
  PROVE  AllFormed'
<1>0. /\ job' = job /\ job = NoJob /\ job.of = {} /\ conn[c].out # << >>
  <2>1. conn[c].out # << >>  BY DEF Write
  <2>2. job' = job /\ job = NoJob  BY WriteGives
  <2> QED  BY <2>1, <2>2 DEF NoJob
<1>1. /\ \A d \in Client : d # c => conn'[d] = conn[d]
      /\ conn'[c].q = conn[c].q /\ conn'[c].st = conn[c].st /\ conn'[c].gone = conn[c].gone
  BY WriteGives
<1>2. ASSUME NEW d \in Client, d # c PROVE Formed(d)'
  BY <1>0, <1>2, <1>1, FormedKept DEF AllFormed
<1>3. Formed(c)'
  <2>0. Formed(c) /\ conn[c].st # "none" /\ call[c].st # "idle"
    BY <1>0 DEF AllFormed, Formed
  <2>1. CASE conn[c].gone
    <3>1. call[c].st = "over"  BY <2>0, <2>1 DEF Formed
    <3> QED  BY <1>0, <1>1, <2>0, <3>1 DEF Formed
  <2>2. CASE ~conn[c].gone
    <3>1. PICK k \in 1 .. Len(conn[c].out) :
            /\ conn'[c].wire = conn[c].wire \o SubSeq(conn[c].out, 1, k)
            /\ conn'[c].out = SubSeq(conn[c].out, k + 1, Len(conn[c].out))
      BY <2>2, WriteGives
    <3> DEFINE o == conn[c].out
               w == conn[c].wire
    <3>2. o \in Seq(OneFrame) /\ w \in Seq(OneFrame)  BY FramesTyped DEF Types
    <3>3. Frames(c)' = (w \o SubSeq(o, 1, k)) \o SubSeq(o, k + 1, Len(o))
      BY <3>1 DEF Frames
    <3>4. Frames(c) = w \o o  BY DEF Frames
    <3> HIDE DEF o, w
    <3>5. k \in 1 .. Len(o) /\ Len(o) \in Nat  BY <3>2 DEF o
    <3>6. SubSeq(o, 1, k) \in Seq(OneFrame) /\ SubSeq(o, k + 1, Len(o)) \in Seq(OneFrame)
      BY <3>2, <3>5, SMTT(30)
    <3>7. SubSeq(o, 1, k) \o SubSeq(o, k + 1, Len(o)) = o
      <4>1. /\ 1 \in 1 .. Len(o) + 1 /\ k \in 1 - 1 .. Len(o) /\ Len(o) \in k .. Len(o)
        BY <3>5
      <4>2. SubSeq(o, 1, k) \o SubSeq(o, k + 1, Len(o)) = SubSeq(o, 1, Len(o))
        BY <3>2, <4>1, ConcatAdjacentSubSeq
      <4>3. SubSeq(o, 1, Len(o)) = o  BY <3>2
      <4> QED  BY <4>2, <4>3
    <3>8. Frames(c)' = Frames(c)
      <4>1. (w \o SubSeq(o, 1, k)) \o SubSeq(o, k + 1, Len(o))
              = w \o (SubSeq(o, 1, k) \o SubSeq(o, k + 1, Len(o)))
        BY <3>2, <3>6, Joined
      <4> QED  BY <3>3, <3>4, <3>7, <4>1
    <3>9. conn[c].st # "asked" \/ call[c].st = "over"
      BY <1>0, <2>0 DEF Formed
    <3> QED  BY <1>0, <1>1, <2>0, <3>8, <3>9 DEF Formed
  <2> QED  BY <2>1, <2>2
<1> QED  BY <1>2, <1>3 DEF AllFormed

\* A handler that cannot read the file.
LEMMA FormedFault ==
  ASSUME Types, AllFormed, DiskFault, call' = call
  PROVE  AllFormed'
<1>1. CASE ReadFails
  <2>1. PICK c \in Client : job.of = {c} /\ HasQueued(c, TornReply)  BY <1>1, ReadFailsGives
  <2>2. /\ job'.of = {} /\ TornReply \in Seq(OneFrame)
        /\ job.step = "list" => job.list \in ShortList
    BY <1>1, ReadFailsGives DEF NoJob
  <2>3. /\ conn[c].q.kind \in {"file", "record", "list", "filter"} /\ conn[c].st = "handled"
        /\ (job.step = "list") = (conn[c].q.kind = "list")
    BY <2>1 DEF AllFormed, Formed
  <2>4. ASSUME Form(Frames(c), call[c].st, conn[c].q.kind, TRUE)
        PROVE  Form(Frames(c) \o TornReply, call[c].st, conn[c].q.kind, FALSE)
    <3>1. CASE job.step = "list"
      <4>1. conn[c].q.kind = "list"  BY <2>3, <3>1
      <4>2. Frames(c) = << >> /\ call[c].st = "waiting"  BY <2>4, <4>1 DEF Form
      <4>3. Len(job.list) \in Nat  BY <2>2, <3>1 DEF ShortList
      <4>4. Form(TornReply, "waiting", conn[c].q.kind, FALSE)
        BY <2>2, <3>1, <4>1, <4>3, FirstForm DEF TornReply
      <4>5. << >> \o TornReply = TornReply  BY <2>2
      <4> QED  BY <4>2, <4>4, <4>5
    <3>2. CASE job.step # "list"
      <4>1. conn[c].q.kind \notin {"list", "stop"}  BY <2>3, <3>2
      <4>2. Ended \in OneFrame /\ Ended.t = "last"  BY FrameShapes DEF Ended
      <4> QED  BY <2>4, <3>2, <4>1, <4>2, FormEnded DEF TornReply
    <3> QED  BY <3>1, <3>2
  <2>5. (c \in job'.of) = FALSE /\ job'.of \subseteq {c}  BY <2>2
  <2>6. Form(Frames(c), call[c].st, conn[c].q.kind, TRUE)
          => Form(Frames(c) \o TornReply, call[c].st, conn[c].q.kind, c \in job'.of)
    BY <2>4, <2>5
  <2> QED  BY <2>1, <2>2, <2>5, <2>6, FormedQueue
<1>2. ASSUME NEW c \in Client, RecordUnread(c) PROVE AllFormed'
  <2>1. /\ conn[c].st = "asked" /\ job.of = {} /\ job'.of = {} /\ HasReplied(c, <<Error>>)
        /\ <<Error>> \in Seq(OneFrame)
    BY <1>2, RecordUnreadGives DEF NoJob
  <2>2. (c \in job'.of) = FALSE /\ job'.of \subseteq {c}  BY <2>1
  <2>3. Form(<<Error>>, "waiting", conn[c].q.kind, c \in job'.of)  BY <2>2, FirstForm
  <2> QED  BY <2>1, <2>2, <2>3, FormedReply
<1> QED  BY <1>1, <1>2 DEF DiskFault

LEMMA FormedClient ==
  ASSUME Types, AllFormed, NEW c \in Client, ClientStep(c)
  PROVE  AllFormed'
<1>0. /\ UNCHANGED <<disk, phase, exit, round, job>> /\ ConnTyped /\ Formed(c)
      /\ conn[c] \in ConnType /\ call[c] \in CallType
  BY ClientTypes DEF Types, AllFormed, ConnTyped, CallTyped
<1>1. ASSUME NEW d \in Client, conn'[d] = conn[d], call'[d] = call[d] PROVE Formed(d)'
  <2>1. Frames(d)' = Frames(d) /\ job' = job  BY <1>0, <1>1 DEF Frames
  <2> QED  BY <1>1, <2>1 DEF AllFormed, Formed
<1>2. CASE Ask(c)
  <2>1. ASSUME NEW d \in Client, d # c PROVE Formed(d)'
    BY <1>1, <1>2, <2>1, AskGives
  <2>2. call[c].st = "idle"  BY <1>2, AskGives DEF NoCall
  <2>3. /\ conn[c].st = "none" /\ conn[c].out = << >> /\ conn[c].wire = << >>
        /\ ~conn[c].gone /\ c \notin job.of
    BY <1>0, <2>2 DEF Formed, ConnType
  <2>4. Formed(c)'  BY <1>0, <1>2, <2>3, AskGives DEF Formed
  <2> QED  BY <2>1, <2>4 DEF AllFormed
<1>3. ASSUME conn' = conn, call'[c].st = "over",
             \A d \in Client : d # c => call'[d] = call[d]
      PROVE  AllFormed'
  <2>1. ASSUME NEW d \in Client, d # c PROVE Formed(d)'  BY <1>1, <1>3, <2>1
  <2>2. Formed(c)'  BY <1>0, <1>3 DEF Formed
  <2> QED  BY <2>1, <2>2 DEF AllFormed
<1>4. ASSUME Leave(c), call'[c].st = "over",
             \A d \in Client : d # c => call'[d] = call[d]
      PROVE  AllFormed'
  <2>1. ASSUME NEW d \in Client, d # c PROVE Formed(d)'
    BY <1>0, <1>1, <1>4, <2>1, LeaveGives
  <2>2. Formed(c)'  BY <1>0, <1>4, LeaveGives DEF Formed
  <2> QED  BY <2>1, <2>2 DEF AllFormed
<1>5. ASSUME ReadHead(c) \/ ReadChunk(c), Consume(c), conn[c].wire # << >>,
             call'[c].st = "reading", \A d \in Client : d # c => call'[d] = call[d]
      PROVE  AllFormed'
  <2>1. /\ \A d \in Client : d # c => conn'[d] = conn[d]
        /\ conn'[c].q = conn[c].q /\ conn'[c].st = conn[c].st
        /\ conn'[c].out = conn[c].out /\ conn'[c].wire = Tail(conn[c].wire)
        /\ conn'[c].gone = conn[c].gone
    BY <1>0, <1>5, ConsumeGives
  <2>2. ASSUME NEW d \in Client, d # c PROVE Formed(d)'  BY <1>1, <1>5, <2>1, <2>2, SMTT(30)
  <2>3. \/ call[c].st = "waiting" /\ conn[c].wire[1].t = "head"
        \/ call[c].st = "reading" /\ conn[c].wire[1].t = "chunk"
    BY <1>5 DEF ReadHead, ReadChunk, Reading
  <2>4. conn[c].st = "handled" /\ ~conn[c].gone
    <3>1. conn[c].gone \in BOOLEAN /\ conn[c].st \in {"none", "asked", "handled"}
      BY <1>0 DEF ConnType
    <3> QED  BY <1>0, <1>5, <2>3, <3>1 DEF Formed
  <2>5. Form(Frames(c), call[c].st, conn[c].q.kind, c \in job.of)
    BY <1>0, <2>3, <2>4, SMTT(30) DEF Formed
  <2>6. /\ Frames(c) # << >> /\ Frames(c)[1] = conn[c].wire[1]
        /\ Frames(c)' = Tail(Frames(c))
    <3> DEFINE o == conn[c].out
               w == conn[c].wire
    <3>1. o \in Seq(OneFrame) /\ w \in Seq(OneFrame) /\ w # << >>
      BY <1>0, <1>5, FramesTyped
    <3>2. Frames(c)' = Tail(w) \o o /\ Frames(c) = w \o o  BY <2>1 DEF Frames
    <3> HIDE DEF o, w
    <3>3. /\ w \o o # << >> /\ (w \o o)[1] = w[1] /\ Tail(w \o o) = Tail(w) \o o
      BY <3>1
    <3> QED  BY <3>2, <3>3 DEF w
  <2>7. Form(Frames(c)', "reading", conn[c].q.kind, c \in job.of)
    <3>1. (c \in job.of) \in BOOLEAN  OBVIOUS
    <3> QED  BY <2>3, <2>5, <2>6, <3>1, FormTail, ZenonT(60)
  <2>8. job' = job  BY <1>0
  <2>9. Formed(c)'  BY <1>0, <1>5, <2>1, <2>4, <2>7, <2>8 DEF Formed
  <2> QED  BY <2>2, <2>9 DEF AllFormed
<1>6. CASE ClientReads(c) \/ Timeout(c) \/ AskRefused(c)
  <2>1. \A d \in Client : d # c => call'[d] = call[d]  BY <1>6, CallGives
  <2>2. ReadHead(c) \/ ReadChunk(c) => call'[c].st = "reading"  BY <1>6, CallGives
  <2> QED  BY <1>3, <1>4, <1>5, <1>6, <2>1, <2>2, ReadsGives
<1> QED  BY <1>2, <1>6 DEF ClientStep

LEMMA FormedInit == WInit => AllFormed
<1> SUFFICES ASSUME WInit, NEW c \in Client PROVE Formed(c)  BY DEF AllFormed
<1>1. conn[c] = NoConn /\ call[c] = NoCall /\ job.of = {}
  BY DEF WInit, Init, NoJob
<1> QED  BY <1>1 DEF Formed, NoConn, NoCall

LEMMA FormedStep == Types /\ AllFormed /\ [Next]_vars => AllFormed'
<1> SUFFICES ASSUME Types, AllFormed, [Next]_vars PROVE AllFormed'  OBVIOUS
<1>1. ASSUME conn' = conn, call' = call, job' = job PROVE AllFormed'
  <2>1. ASSUME NEW d \in Client PROVE Formed(d)'
    <3>1. Frames(d)' = Frames(d)  BY <1>1 DEF Frames
    <3> QED  BY <1>1, <3>1 DEF AllFormed, Formed
  <2> QED  BY <2>1 DEF AllFormed
<1>2. CASE Writer /\ call' = call  BY <1>1, <1>2, WriterStep DEF Types
<1>3. CASE Die /\ call' = call  BY <1>1, <1>3 DEF Die
<1>4. CASE UNCHANGED vars  BY <1>1, <1>4 DEF vars, svars
<1>5. CASE Server /\ call' = call
  <2>1. CASE NewRound \/ Close \/ FilterBeyond
    BY <1>1, <1>5, <2>1 DEF NewRound, Close, FilterBeyond
  <2>2. ASSUME NEW c \in Client, Handle(c) PROVE AllFormed'  BY <1>5, <2>2, FormedHandle
  <2>3. ASSUME NEW c \in Client, Write(c) PROVE AllFormed'  BY <1>5, <2>3, FormedWrite
  <2>4. CASE Work  BY <1>5, <2>4, FormedWork
  <2> QED  BY <1>5, <2>1, <2>2, <2>3, <2>4 DEF Server
<1>6. ASSUME NEW c \in Client, ClientStep(c) PROVE AllFormed'  BY <1>6, FormedClient
<1>7. CASE DiskFault /\ call' = call  BY <1>7, FormedFault
<1> QED  BY <1>2, <1>3, <1>4, <1>5, <1>6, <1>7 DEF Next

\* Replies are well-formed, for any number of clients, whatever the writing process
\* does to the file meanwhile: no handler leaves one without its end, and only a list
\* has an error before it (WSend_distantDumpResponse, wserver.c).
THEOREM WellFormedCorrect == Spec => []WellFormed
<1>1. Types /\ AllFormed => WellFormed
  <2> SUFFICES ASSUME Types, AllFormed, NEW c \in Client,
                      conn[c].st = "handled", call[c].st # "over"
               PROVE  LET n == Len(Frames(c))
                          f(k) == Frames(c)[k].t
                          ends == {"last", "body", "error", "page"}
                          begun == call[c].st = "reading" \/ (n > 0 /\ f(1) = "head")
                      IN  /\ \A k \in 1 .. n - 1 :
                               f(k) \in ends => conn[c].q.kind = "list" /\ f(k) = "error"
                          /\ \A k \in 1 .. n :
                               f(k) = "head" =>
                                 \/ k = 1 /\ call[c].st = "waiting"
                                 \/ k > 1 /\ conn[c].q.kind = "list" /\ f(k - 1) = "error"
                          /\ Finished(c) => n > 0 /\ f(n) \in ends
                          /\ begun /\ conn[c].q.kind # "list" =>
                               \A k \in 1 .. n : f(k) \notin {"error", "page"}
    BY DEF WellFormed
  <2>1. Form(Frames(c), call[c].st, conn[c].q.kind, c \in job.of)
    BY DEF AllFormed, Formed
  <2> DEFINE F == Frames(c)
  <2>2. Len(F) \in Nat  BY <2>1 DEF Form
  <2>3. \A k \in 1 .. Len(F) - 1 : k \in 1 .. Len(F) /\ k < Len(F)  BY <2>2
  <2>4. \A k \in 1 .. Len(F) - 1 :
          F[k].t \in Ends => conn[c].q.kind = "list" /\ F[k].t = "error"
    BY <2>1, <2>3 DEF Form
  <2>5. \A k \in 1 .. Len(F) :
          F[k].t = "head" =>
            \/ k = 1 /\ call[c].st = "waiting"
            \/ k > 1 /\ conn[c].q.kind = "list" /\ F[k - 1].t = "error"
    BY <2>1 DEF Form
  <2>6. Finished(c) => Len(F) > 0 /\ F[Len(F)].t \in Ends
    BY <2>1 DEF Form, Finished
  <2>7. Starts(F, call[c].st) /\ conn[c].q.kind # "list" =>
          \A k \in 1 .. Len(F) : F[k].t \notin {"error", "page"}
    BY <2>1 DEF Form
  <2> HIDE DEF F
  <2> QED  BY <2>4, <2>5, <2>6, <2>7 DEF Ends, Starts, F
<1>2. WInit => Types /\ AllFormed  BY TypesInit, FormedInit
<1>3. Types /\ AllFormed /\ [Next]_vars => (Types /\ AllFormed)'
  BY TypesStep, FormedStep
<1> QED  BY <1>1, <1>2, <1>3, PTL DEF Spec

-----------------------------------------------------------------------------
(* The stop. *)

\* The answer to a stop from this host is with the client, or on its way to it, and
\* the last round of the loop still has to look at it when it is only queued.
Answering(c) ==
  /\ conn[c].q.kind = "stop" /\ conn[c].q.local /\ conn[c].st = "handled"
  /\ \/ conn[c].gone \/ conn[c].wire # << >>
     \/ conn[c].out # << >> /\ (exit = "last" => c \in round)

Stopping ==
  /\ phase = "closed" => exit = "last" /\ round = {}
  /\ exit # "none" => \E c \in Client : Answering(c)

LEMMA AnsweringKept ==
  ASSUME NEW c \in Client, Answering(c), conn'[c] = conn[c], exit' = exit,
         c \in round => c \in round'
  PROVE  Answering(c)'
BY DEF Answering

LEMMA StoppingServer ==
  ASSUME Types, AllFormed, Stopping, Server
  PROVE  Stopping'
<1>0. phase = "serving"
  BY Handled, WriteGives, WorkLeaves DEF Server, NewRound, Close, Idle, FilterBeyond
<1>1. ASSUME NEW d \in Client, Handle(d) PROVE Stopping'
  <2>0. conn[d].st = "asked" /\ round' = round \ {d} /\ phase' # "closed"
    <3>1. phase' \in {"serving", "stuck"}
      BY <1>0, <1>1 DEF Handle, HandleLate, HandleWrong, HandleFile, HandleRecord, HandleList,
         HandleFilter, HandleStop, Handling
    <3> QED  BY <1>1, <3>1, Handled
  <2>1. CASE exit' = exit
    <3>1. ASSUME NEW c \in Client, Answering(c) PROVE Answering(c)'
      <4>1. c # d  BY <2>0, <3>1, SMTT(30) DEF Answering
      <4>2. conn'[c] = conn[c]
        BY <1>1, <4>1 DEF Handle, HandleLate, HandleWrong, HandleFile, HandleRecord,
           HandleList, HandleFilter, HandleStop, Reply, Types, ConnTyped
      <4> QED  BY <2>0, <2>1, <3>1, <4>1, <4>2, AnsweringKept
    <3> QED  BY <2>0, <2>1, <3>1 DEF Stopping
  <2>2. CASE exit' # exit
    <3>1. /\ conn[d].q.kind = "stop" /\ conn[d].q.local /\ Reply(d, <<Page>>)
          /\ exit' = "asked"
      BY <1>1, <2>2 DEF Handle, HandleLate, HandleWrong, HandleFile, HandleRecord, HandleList,
         HandleFilter, HandleStop, Handling
    <3>2. <<Page>> \in Seq(OneFrame)  BY FrameShapes
    <3>3. /\ conn'[d].q = conn[d].q /\ conn'[d].st = "handled"
          /\ conn'[d].out = conn[d].out \o <<Page>>
      BY <3>1, <3>2, ReplyGives, DiskNumbers DEF Types, ConnTyped
    <3>4. conn'[d].out # << >>
      <4> DEFINE o == conn[d].out
      <4>1. o \in Seq(OneFrame)  BY FramesTyped DEF Types
      <4> HIDE DEF o
      <4>2. o \o <<Page>> # << >>  BY <3>2, <4>1
      <4> QED  BY <3>3, <4>2 DEF o
    <3>5. Answering(d)'  BY <3>1, <3>3, <3>4 DEF Answering
    <3> QED  BY <2>0, <3>5 DEF Stopping
  <2> QED  BY <2>1, <2>2
<1>2. ASSUME NEW d \in Client, Write(d) PROVE Stopping'
  <2>0. exit' = exit /\ phase' = phase /\ round' = round \ {d}  BY <1>2, WriteGives
  <2>1. ASSUME NEW c \in Client, Answering(c) PROVE Answering(c)'
    <3>1. CASE c # d
      BY <1>2, <2>0, <2>1, <3>1, AnsweringKept, WriteGives
    <3>2. CASE c = d
      <4>1. conn'[c].q = conn[c].q /\ conn'[c].st = conn[c].st /\ conn'[c].gone = conn[c].gone
        BY <1>2, <3>2, WriteGives
      <4>2. conn[c].gone \/ conn'[c].wire # << >>
        <5> SUFFICES ASSUME ~conn[c].gone PROVE conn'[c].wire # << >>  OBVIOUS
        <5> DEFINE o == conn[c].out
                   w == conn[c].wire
        <5>1. PICK k \in 1 .. Len(o) : conn'[c].wire = w \o SubSeq(o, 1, k)
          BY <1>2, <3>2, WriteGives
        <5>2. o \in Seq(OneFrame) /\ w \in Seq(OneFrame)  BY FramesTyped DEF Types
        <5> HIDE DEF o, w
        <5>3. SubSeq(o, 1, k) \in Seq(OneFrame) /\ Len(SubSeq(o, 1, k)) = k
          BY <5>1, <5>2
        <5>4. Len(w \o SubSeq(o, 1, k)) = Len(w) + k /\ Len(w) \in Nat /\ k \in Nat \ {0}
          BY <5>1, <5>2, <5>3
        <5> QED  BY <5>1, <5>4
      <4> QED  BY <2>1, <4>1, <4>2 DEF Answering
    <3> QED  BY <3>1, <3>2
  <2> QED  BY <1>0, <2>0, <2>1 DEF Stopping
<1>3. CASE Work
  <2>0. exit' = exit /\ phase' = phase /\ round' = round  BY <1>3, WorkLeaves
  <2>1. ASSUME NEW c \in Client, Answering(c) PROVE Answering(c)'
    <3>1. c \notin job.of  BY <2>1, SMTT(30) DEF Answering, AllFormed, Formed
    <3>2. conn'[c] = conn[c]
      BY <1>3, <3>1 DEF Work, SendChunk, ListNext, FilterNext, Queue, Types, ConnTyped
    <3> QED  BY <2>0, <2>1, <3>2, AnsweringKept
  <2> QED  BY <2>0, <2>1 DEF Stopping
<1>4. CASE NewRound
  <2>0. /\ round' = {c \in Client : conn[c].st = "asked" \/ conn[c].out # << >>}
        /\ exit # "last" /\ conn' = conn /\ phase' = phase
        /\ exit' = IF exit = "asked" THEN "last" ELSE exit
    BY <1>4 DEF NewRound
  <2>1. exit \in {"none", "asked"}  BY <2>0 DEF Types, PhaseTyped
  <2>2. ASSUME NEW c \in Client, Answering(c) PROVE Answering(c)'
    BY <2>0, <2>2 DEF Answering
  <2> QED  BY <1>0, <2>0, <2>1, <2>2 DEF Stopping
<1>5. CASE Close
  BY <1>5 DEF Close, Stopping, Answering
<1>6. CASE FilterBeyond
  BY <1>6 DEF FilterBeyond, Stopping, Answering
<1> QED  BY <1>1, <1>2, <1>3, <1>4, <1>5, <1>6 DEF Server

\* A read that fails keeps it too.
LEMMA StoppingFault ==
  ASSUME Types, AllFormed, Stopping, DiskFault
  PROVE  Stopping'
<1>1. phase = "serving" /\ phase' = phase /\ exit' = exit
  BY ReadFailsGives, RecordUnreadGives DEF DiskFault
<1>2. ASSUME NEW c \in Client, Answering(c) PROVE Answering(c)'
  <2>1. conn[c].st = "handled" /\ conn[c].q.kind = "stop"  BY <1>2 DEF Answering
  <2>2. CASE ReadFails
    <3>1. c \notin job.of  BY <2>1, SMTT(30) DEF AllFormed, Formed
    <3>2. conn'[c] = conn[c] /\ round' = round
      BY <2>2, <3>1, ReadFailsGives DEF HasQueued
    <3> QED  BY <1>1, <1>2, <3>2, AnsweringKept
  <2>3. ASSUME NEW d \in Client, RecordUnread(d) PROVE Answering(c)'
    <3>1. c # d  BY <2>1, <2>3, RecordUnreadGives
    <3>2. conn'[c] = conn[c] /\ round' = round \ {d}
      BY <2>3, <3>1, RecordUnreadGives DEF HasReplied
    <3> QED  BY <1>1, <1>2, <3>1, <3>2, AnsweringKept
  <2> QED  BY <2>2, <2>3 DEF DiskFault
<1> QED  BY <1>1, <1>2 DEF Stopping

LEMMA StoppingClient ==
  ASSUME Types, AllFormed, Stopping, NEW d \in Client, ClientStep(d)
  PROVE  Stopping'
<1>0. /\ exit' = exit /\ phase' = phase /\ round' = round /\ ConnTyped
  BY ClientTypes DEF Types
<1>1. ASSUME NEW c \in Client, Answering(c) PROVE Answering(c)'
  <2>0. conn[c].st = "handled" /\ conn[c].q.kind = "stop" /\ Formed(c)
    BY <1>1 DEF Answering, AllFormed
  <2>1. CASE Ask(d)
    <3>1. call[d].st = "idle"  BY <2>1, AskGives DEF NoCall
    <3>2. conn[d].st = "none"  BY <3>1 DEF AllFormed, Formed
    <3> QED  BY <1>0, <1>1, <2>0, <2>1, <3>2, AskGives, AnsweringKept
  <2>2. CASE Leave(d)
    <3>1. CASE c # d  BY <1>0, <1>1, <2>2, <3>1, LeaveGives, AnsweringKept
    <3>2. CASE c = d  BY <1>0, <1>1, <2>2, <3>2, LeaveGives DEF Answering
    <3> QED  BY <3>1, <3>2
  <2>3. CASE conn' = conn  BY <1>0, <1>1, <2>3, AnsweringKept
  <2>4. CASE (ReadHead(d) \/ ReadChunk(d)) /\ Consume(d) /\ conn[d].wire # << >>
    <3>1. CASE c # d  BY <1>0, <1>1, <2>4, <3>1, ConsumeGives, AnsweringKept
    <3>2. CASE c = d
      <4>1. \/ call[c].st = "waiting" /\ conn[c].wire[1].t = "head"
            \/ call[c].st = "reading" /\ conn[c].wire[1].t = "chunk"
        BY <2>4, <3>2 DEF ReadHead, ReadChunk, Reading
      <4>2. Form(Frames(c), call[c].st, conn[c].q.kind, c \in job.of)
        BY <2>0, <4>1 DEF Formed
      <4>3. Frames(c) # << >> /\ Frames(c)[1] = conn[c].wire[1]
        <5> DEFINE o == conn[c].out
                   w == conn[c].wire
        <5>1. o \in Seq(OneFrame) /\ w \in Seq(OneFrame) /\ w # << >>
          BY <1>0, <2>4, <3>2, FramesTyped
        <5>2. Frames(c) = w \o o  BY DEF Frames
        <5> HIDE DEF o, w
        <5>3. w \o o # << >> /\ (w \o o)[1] = w[1]  BY <5>1
        <5> QED  BY <5>2, <5>3 DEF w
      <4>5. \/ call[c].st = "waiting" /\ Frames(c)[1].t = "head"
            \/ call[c].st = "reading" /\ Frames(c)[1].t = "chunk"
        BY <4>1, <4>3
      <4>6. 1 \in 1 .. Len(Frames(c))
        <5>1. Frames(c) \in Seq(OneFrame)  BY FramesTyped DEF Types
        <5> QED  BY <4>3, <5>1
      <4>7. Frames(c)[1].t \in {"error", "page"}  BY <2>0, <4>2, <4>6 DEF Form
      <4> QED  BY <4>5, <4>7, SMTT(30)
    <3> QED  BY <3>1, <3>2
  <2> QED  BY <2>1, <2>2, <2>3, <2>4, ReadsGives DEF ClientStep
<1> QED  BY <1>0, <1>1 DEF Stopping

LEMMA StoppingStep == Types /\ AllFormed /\ Stopping /\ [Next]_vars => Stopping'
<1> SUFFICES ASSUME Types, AllFormed, Stopping, [Next]_vars PROVE Stopping'  OBVIOUS
<1>1. ASSUME conn' = conn, exit' = exit, round' = round,
             phase' = "closed" => phase = "closed"
      PROVE  Stopping'
  <2>1. ASSUME NEW c \in Client, Answering(c) PROVE Answering(c)'
    BY <1>1, <2>1 DEF Answering
  <2> QED  BY <1>1, <2>1 DEF Stopping
<1>2. CASE Writer  BY <1>1, <1>2, WriterStep DEF Types
<1>3. CASE Die  BY <1>1, <1>3 DEF Die
<1>4. CASE UNCHANGED vars  BY <1>1, <1>4 DEF vars, svars
<1>5. CASE Server  BY <1>5, StoppingServer
<1>6. ASSUME NEW c \in Client, ClientStep(c) PROVE Stopping'  BY <1>6, StoppingClient
<1>7. CASE DiskFault  BY <1>7, StoppingFault
<1> QED  BY <1>2, <1>3, <1>4, <1>5, <1>6, <1>7 DEF Next

\* A server that was told to stop has written its answer when it ends
\* (WStop_callback, wserver.c:2721), however many clients and requests there are and
\* however the rounds of the loop fall.
THEOREM StopAnsweredCorrect == Spec => []StopAnswered
<1>1. WInit => Types /\ AllFormed /\ Stopping
  <2>1. WInit => Stopping  BY DEF WInit, Init, Stopping
  <2> QED  BY <2>1, TypesInit, FormedInit
<1>2. Types /\ AllFormed /\ Stopping /\ [Next]_vars => (Types /\ AllFormed /\ Stopping)'
  BY TypesStep, FormedStep, StoppingStep
<1>3. Stopping => StopAnswered  BY DEF Stopping, StopAnswered, Answering
<1> QED  BY <1>1, <1>2, <1>3, PTL DEF Spec

=============================================================================
