--------------------------- MODULE Arc2Warc_proofs ---------------------------
(***************************************************************************)
(* Proofs about the converter and any other application of AFile, for every *)
(* ARC file, limit, size of blocks, and any number of calls.                *)
(***************************************************************************)
EXTENDS Arc2Warc, AFile_proofs

\* DATA_LENGTH holds the declared lengths.
SmallRecords == \A a \in Arcs : \A i \in 1 .. Len(a.recs) : a.recs[i].len < W32

-----------------------------------------------------------------------------
(* Transfer. *)

\* The data of a record, and that they do not change.
LEMMA SameData ==
  ASSUME arc' = arc
  PROVE  \A i : Data(i)' = Data(i)
<1>1. ASSUME NEW i PROVE Data(i)' = Data(i)
  <2>1. Recs' = Recs /\ Start(i)' = Start(i) /\ \A p, n : FileBytes(p, n)' = FileBytes(p, n)
    BY SameFile
  <2> QED  BY <2>1 DEF Data, Bytes
<1> QED  BY <1>1

\* What temp_writer makes of the bytes it gets: when it has as many as the record has,
\* it has the first ones.
LEMMA TransferredShape ==
  ASSUME NEW h \in Handle, arec[h].size \in Nat, NEW bytes \in Block,
         NEW b \in Transferred(h, bytes)
  PROVE  /\ b \in Block
         /\ Len(b) = arec[h].size =>
              arec[h].size <= Len(bytes) /\ b = SubSeq(bytes, 1, arec[h].size)
<1> DEFINE n == arec[h].size
           m == Fewer(Len(bytes), n)
           cut == SubSeq(bytes, 1, m)
<1>1. Len(bytes) \in Nat  BY DEF Block
<1>2. m \in 0 .. Len(bytes) /\ m <= n /\ m \in Nat /\ n \in Nat  BY <1>1 DEF Fewer
<1> HIDE DEF m, n
<1>3. cut \in Block /\ Len(cut) = m  BY <1>2, Fore
<1>4. PICK k \in 0 .. m : b = SubSeq(cut, 1, k)
  <2>1. PICK k \in (IF disk = "full" THEN 0 ELSE Len(cut)) .. Len(cut) : b = SubSeq(cut, 1, k)
    BY DEF Transferred, m, n
  <2> QED  BY <1>2, <1>3, <2>1
<1>5. b \in Block /\ Len(b) = k
  <2> HIDE DEF cut
  <2> QED  BY <1>3, <1>4, Fore
<1>6. ASSUME Len(b) = n PROVE n <= Len(bytes) /\ b = SubSeq(bytes, 1, n)
  <2>1. k = n /\ m = n  BY <1>2, <1>4, <1>5, <1>6
  <2>2. b = cut  BY <1>3, <1>4, <2>1, All
  <2> QED  BY <1>2, <2>1, <2>2
<1> QED  BY <1>5, <1>6 DEF n

\* A stretch of an inflated record.
LEMMA WholeStretch ==
  ASSUME NEW i \in Nat, NEW l \in Nat, NEW m \in Nat, NEW n \in Nat, m + n <= l
  PROVE  SubSeq(Bytes(i, 0, l), m + 1, m + n) = Bytes(i, m, n)
<1> DEFINE s == SubSeq(Bytes(i, 0, l), m + 1, m + n)
           t == Bytes(i, m, n)
<1>1. Bytes(i, 0, l) \in Block /\ Len(Bytes(i, 0, l)) = l  BY BytesShape
<1>2. t \in Block /\ Len(t) = n  BY BytesShape
<1>3. s \in Block /\ Len(s) = n
  <2>1. m + n \in 0 .. l  OBVIOUS
  <2>2. s \in Block /\ Len(s) = IF m <= m + n THEN m + n - m ELSE 0
    BY <1>1, <2>1, Stretch
  <2> QED  BY <2>2
<1>4. ASSUME NEW k \in 1 .. n PROVE s[k] = t[k]
  <2>1. t[k] = <<i, m + k - 1>>  BY DEF Bytes
  <2>2. m + k \in 1 .. l  OBVIOUS
  <2>3. Bytes(i, 0, l)[m + k] = <<i, 0 + (m + k) - 1>>  BY <2>2 DEF Bytes
  <2>4. s[k] = Bytes(i, 0, l)[m + k]
    <3>1. \A j \in m + 1 .. m + n : Bytes(i, 0, l)[j] \in Byte  BY <1>1 DEF Block
    <3>2. m + 1 \in Int /\ m + n \in Int /\ k \in 1 .. (m + n) - (m + 1) + 1  OBVIOUS
    <3>3. s[k] = Bytes(i, 0, l)[(m + 1) + k - 1]
      <4> HIDE DEF Byte
      <4> QED  BY <3>1, <3>2, SubSeqProperties
    <3>4. (m + 1) + k - 1 = m + k  OBVIOUS
    <3> QED  BY <3>3, <3>4
  <2>5. 0 + (m + k) - 1 = m + k - 1  OBVIOUS
  <2> QED  BY <2>1, <2>3, <2>4, <2>5
<1> HIDE DEF s, t, Byte
<1>5. s \in Seq(Byte) /\ t \in Seq(Byte)  BY <1>2, <1>3 DEF Block
<1>6. s = t  BY <1>2, <1>3, <1>4, <1>5, SeqEqual
<1> QED  BY <1>6 DEF s, t

\* What a transfer gives temp_writer.
LEMMA TransferBytes ==
  ASSUME FInv, NEW h \in Handle, arec[h].of # 0, NEW r \in Registered(h), r.done
  PROVE  /\ Rest(r.temp) \in Block /\ Handed(r.temp) \in Block /\ Taken(r.temp) \in Nat
         /\ arc.mode = "plain" =>
              /\ Rest(r.temp) = FileBytes(arec[h].off, arec[h].size)
              /\ Len(Rest(r.temp)) = arec[h].size
         /\ arc.mode = "gzip" /\ filler = arec[h].of =>
              Rest(r.temp) = SubSeq(Whole(filler), arec[h].off + 1, Len(Whole(filler)))
<1>1. /\ r.temp \in [holds: Block, at: Nat, failed: BOOLEAN]
      /\ arc.mode = "gzip" => r.temp = [temp EXCEPT !.at = arec[h].off]
      /\ arc.mode = "plain" =>
           /\ r.temp.holds = FileBytes(arec[h].off, arec[h].size) /\ r.temp.at = 0
           /\ Len(r.temp.holds) = arec[h].size
  BY RegisteredShape
<1>2. Rest(r.temp) \in Block  BY <1>1, RestShape
<1>3. ASSUME arc.mode = "plain"
      PROVE  /\ Rest(r.temp) = FileBytes(arec[h].off, arec[h].size)
             /\ Len(Rest(r.temp)) = arec[h].size
  <2>1. r.temp.holds \in Block /\ r.temp.at = 0
        /\ r.temp.holds = FileBytes(arec[h].off, arec[h].size)
    BY <1>1, <1>3
  <2>2. Rest(r.temp) = SubSeq(r.temp.holds, 1, Len(r.temp.holds))  BY <2>1 DEF Rest
  <2> QED  BY <1>1, <1>3, <2>1, <2>2, All
<1>4. ASSUME arc.mode = "gzip", filler = arec[h].of
      PROVE  Rest(r.temp) = SubSeq(Whole(filler), arec[h].off + 1, Len(Whole(filler)))
  <2>1. temp.holds = Whole(filler)  BY <1>4, DataOffset
  <2>2. r.temp.holds = temp.holds /\ r.temp.at = arec[h].off
    BY <1>1, <1>4 DEF FInv, FTypes
  <2> QED  BY <2>1, <2>2 DEF Rest
<1>5. Handed(r.temp) \in Block
  <2>1. << >> \in Block  BY DEF Block
  <2> QED  BY <1>2, <2>1 DEF Handed
<1>6. Taken(r.temp) \in Nat
  <2>1. Len(Rest(r.temp)) \in Nat  BY <1>2 DEF Block
  <2> QED  BY <2>1, ArcAssumption DEF Taken, Fewer
<1> QED  BY <1>2, <1>3, <1>4, <1>5, <1>6

\* A transfer keeps what AFile's own operations keep.
LEMMA TransferKeeps ==
  ASSUME FInv, NEW h \in Handle, Transfer(h)
  PROVE  FInv'
<1>1. arec[h].of # 0 /\ UNCHANGED <<arc, disk, fh>>  BY DEF Transfer, Same
<1>2. PICK r \in Registered(h) :
        IF ~r.done
          THEN /\ ret' = "error" /\ given' = Nobody /\ UNCHANGED wrec
               /\ temp' = r.temp /\ filler' = 0
               /\ arec' = [arec EXCEPT ![h].cback = TRUE]
          ELSE /\ temp' = [r.temp EXCEPT !.at = @ + Taken(r.temp)]
               /\ given' = IF r.temp.failed THEN Nobody
                           ELSE [by |-> {h}, bytes |-> Rest(r.temp)]
               /\ filler' = IF arc.mode = "gzip" THEN filler ELSE arec[h].of
               /\ arec' = [arec EXCEPT ![h].cback = TRUE, ![h].dataf = TRUE]
  BY DEF Transfer
<1>3. /\ r.done \in BOOLEAN /\ r.temp \in [holds: Block, at: Nat, failed: BOOLEAN]
      /\ arc.mode = "gzip" => r.done /\ r.temp = [temp EXCEPT !.at = arec[h].off]
      /\ r.temp.failed => disk = "full"
      /\ arc.mode = "plain" /\ r.done =>
           /\ r.temp.holds = FileBytes(arec[h].off, arec[h].size) /\ r.temp.at = 0
           /\ Len(r.temp.holds) = arec[h].size
  BY <1>1, RegisteredShape
<1>4. /\ arc \in Arcs /\ temp \in [holds: Block, at: Nat, failed: BOOLEAN]
      /\ arec \in [Handle -> ARecordType]
      /\ filler \in 0 .. Len(Recs) /\ arc.mode \in {"plain", "gzip"} /\ Len(Recs) \in Nat
  BY ArcShape DEF FInv, FTypes
<1>5. Rightful(arec[h])  BY <1>1 DEF FInv, AllRightful, NoARecord
<1>6. arec[h] \in ARecordType /\ arec[h].off \in Nat /\ arec[h].size \in Nat
  BY <1>4 DEF ARecordType
<1>7. << >> \in Block  BY DEF Block
<1>8. CASE ~r.done
  <2> DEFINE a == [arec[h] EXCEPT !.cback = TRUE]
  <2>1. a \in ARecordType /\ a.of = arec[h].of /\ a.off = arec[h].off /\ a.size = arec[h].size
    BY <1>6 DEF ARecordType
  <2>2. arec' = [arec EXCEPT ![h] = a]  BY <1>2, <1>4, <1>8
  <2>3. temp' \in [holds: Block, at: Nat, failed: BOOLEAN] /\ filler' \in 0 .. Len(Recs)
        /\ Filled' /\ FailedFull'
    BY <1>1, <1>2, <1>3, <1>4, <1>8 DEF Filled, FailedFull
  <2>4. given' \in [by: SUBSET Handle, bytes: Block] /\ given'.by = {}
    BY <1>2, <1>7, <1>8 DEF Nobody
  <2> HIDE DEF a
  <2> QED  BY <1>1, <2>1, <2>2, <2>3, <2>4, GiveKeeps
<1>9. CASE r.done
  <2> DEFINE a == [arec[h] EXCEPT !.cback = TRUE, !.dataf = TRUE]
             rest == Rest(r.temp)
  <2>1. a \in ARecordType /\ a.of = arec[h].of /\ a.off = arec[h].off /\ a.size = arec[h].size
    BY <1>6 DEF ARecordType
  <2>2. arec' = [arec EXCEPT ![h] = a]  BY <1>2, <1>4, <1>9
  <2>3. rest \in Block /\ Len(rest) \in Nat
    <3>1. rest \in Block  BY <1>3, RestShape
    <3> QED  BY <3>1 DEF Block
  <2>4. /\ temp' \in [holds: Block, at: Nat, failed: BOOLEAN] /\ temp'.holds = r.temp.holds
        /\ temp'.at = r.temp.at + Taken(r.temp) /\ temp'.failed = r.temp.failed
    <3>1. temp' = [r.temp EXCEPT !.at = @ + Taken(r.temp)]  BY <1>2, <1>9
    <3>2. Taken(r.temp) \in Nat  BY <1>1, <1>9, TransferBytes
    <3> QED  BY <1>3, <3>1, <3>2
  <2>5. /\ given' \in [by: SUBSET Handle, bytes: Block] /\ given'.by \subseteq {h}
        /\ h \in given'.by => /\ ~r.temp.failed /\ given'.by = {h} /\ given'.bytes = rest
                              /\ Taken(r.temp) = Len(rest)
    BY <1>2, <1>7, <1>9, <2>3 DEF Nobody, Taken
  <2>10. FailedFull'  BY <1>1, <1>3, <2>4 DEF FailedFull
  <2>6. filler' \in 0 .. Len(Recs) /\ Filled'
    <3>1. CASE arc.mode = "gzip"
      <4>1. filler' = filler /\ temp'.holds = temp.holds  BY <1>2, <1>3, <1>4, <1>9, <2>4, <3>1
      <4> QED  BY <1>1, <1>4, <4>1, SameFile DEF FInv, Filled
    <3>2. CASE arc.mode = "plain"
      <4>1. filler' = arec[h].of  BY <1>2, <1>9, <3>2
      <4> QED  BY <1>1, <1>4, <1>5, <3>2, <4>1 DEF Filled, Rightful
    <3> QED  BY <1>4, <3>1, <3>2
  <2>7. arec'[h].of = arec[h].of /\ arec'[h].off = arec[h].off /\ arec'[h].size = arec[h].size
    BY <1>4, <2>1, <2>2
  <2>8. First(arec[h])' = First(arec[h])  BY <1>1, <2>7, SameFile DEF First
  <2>9. ASSUME h \in given'.by PROVE GivingTo(h)'
    <3>0. /\ given'.by = {h} /\ given'.bytes = rest /\ temp'.at = r.temp.at + Len(rest)
      BY <2>4, <2>5, <2>9
    <3>1. CASE arc.mode = "plain"
      <4>1. r.temp.at = 0 /\ rest = FileBytes(arec[h].off, arec[h].size)
            /\ r.temp.holds = rest /\ Len(rest) = arec[h].size
        BY <1>1, <1>3, <1>9, <3>1, TransferBytes
      <4>2. temp'.at = Len(rest) /\ temp'.holds = rest  BY <2>3, <2>4, <3>0, <4>1
      <4>3. SubSeq(rest, 0 + 1, Len(rest)) = rest  BY <2>3, All
      <4>4. First(arec[h]) = 0 /\ Len(rest) \in 0 .. Len(rest)  BY <2>3, <3>1 DEF First
      <4> HIDE DEF rest
      <4>5. rest = FileBytes(arec[h].off, arec[h].size)'
        BY <1>1, <2>7, <4>1, SameFile
      <4> QED  BY <1>1, <2>7, <2>8, <3>0, <3>1, <4>1, <4>2, <4>3, <4>4, <4>5 DEF GivingTo
    <3>2. CASE arc.mode = "gzip"
      <4>1. temp'.holds = temp.holds /\ r.temp.at = arec[h].off /\ filler' = filler
        BY <1>2, <1>3, <1>4, <1>9, <2>4, <3>2
      <4>2. First(arec[h]) = arec[h].off  BY <1>1, <3>2, DataOffset DEF First
      <4>3. ASSUME filler = arec[h].of
            PROVE  /\ temp'.at \in arec[h].off .. Len(temp.holds)
                   /\ rest = SubSeq(temp.holds, arec[h].off + 1, temp'.at)
        <5>1. temp.holds = Whole(filler) /\ arec[h].off \in 0 .. Len(temp.holds)
          BY <1>1, <3>2, <4>3, DataOffset
        <5>2. rest = SubSeq(temp.holds, arec[h].off + 1, Len(temp.holds))
          BY <1>1, <1>9, <3>2, <4>3, <5>1, TransferBytes
        <5>3. temp.holds \in Block /\ Len(temp.holds) \in Nat
          <6>1. temp.holds \in Block  BY <1>4
          <6> QED  BY <6>1 DEF Block
        <5>4. Len(rest) = Len(temp.holds) - arec[h].off
          <6>1. Len(r.temp.holds) = Len(temp.holds)  BY <2>4, <4>1
          <6> QED  BY <1>3, <4>1, <5>1, <6>1, RestShape
        <5>5. temp'.at = Len(temp.holds)  BY <1>6, <3>0, <4>1, <5>1, <5>3, <5>4
        <5> QED  BY <5>1, <5>2, <5>3, <5>5
      <4> HIDE DEF rest
      <4> QED  BY <1>1, <2>7, <2>8, <3>0, <3>2, <4>1, <4>2, <4>3 DEF GivingTo
    <3> QED  BY <1>4, <3>1, <3>2
  <2> HIDE DEF a, rest
  <2> QED  BY <1>1, <2>1, <2>2, <2>4, <2>5, <2>6, <2>9, <2>10, GiveKeeps
<1> QED  BY <1>3, <1>8, <1>9

-----------------------------------------------------------------------------
(* The inductive invariant of the converter. *)

Entry == [rec: Block, whole: BOOLEAN]

CTypes ==
  /\ pc \in {"open", "loop", "next", "set", "transfer", "store", "free_in", "free_out",
             "end", "free"}
  /\ exit \in {-1, 0, 3, 5, 7, 13, 14}
  /\ wrec \in [size: Nat, bytes: Block]
  /\ log \in Seq(Entry) /\ used \in 0 .. Limit /\ cap \in {0, Limit}

\* FH is where the record after the first n begins, or the file ends after them, or
\* where no record begins.
Follows(n) ==
  /\ \A j \in 1 .. Len(Recs) : fh = Start(j) => j = n + 1
  /\ fh = Size => n = Len(Recs)

\* The record that is being converted is the one after those stored.
InHand ==
  /\ Len(log) < Len(Recs) /\ arec[TheOne].of = Len(log) + 1
  /\ arc.mode = "gzip" => filler = Len(log) + 1
  /\ Follows(Len(log) + 1)

Between == {"open", "loop", "next", "free_in"}
Within  == {"set", "transfer", "store"}

Progress ==
  /\ Len(log) <= Len(Recs)
  /\ pc \in Between => Follows(Len(log))
  /\ pc = "next" => fh # Size
  /\ pc \in Within => InHand
  /\ exit # -1 => pc \in {"free_out", "end"}
  /\ exit = 0 => Len(log) = Len(Recs)

\* What is stored, and what is about to be.
Content ==
  /\ \A k \in 1 .. Len(log) : log[k].rec = Data(k) /\ Len(log[k].rec) = Recs[k].len
  /\ \A k \in 1 .. Len(log) : log[k].whole \/ (k = Len(log) /\ pc = "end" /\ exit = -1)
  /\ pc = "store" /\ Len(wrec.bytes) = wrec.size =>
       wrec.bytes = Data(Len(log) + 1) /\ Len(wrec.bytes) = Recs[Len(log) + 1].len

\* Of a regular file nothing is missed.
AllRegular == (\A i \in 1 .. Len(Recs) : Regular(i)) /\ disk = "room"

OnTrack ==
  AllRegular =>
    /\ exit \in {-1, 0, 3, 14}
    /\ pc \in Between => fh = Start(Len(log) + 1)
    /\ pc \in Within => fh = Start(Len(log) + 2)

-----------------------------------------------------------------------------
(* Every step keeps what is kept of the ARC file. *)

LEMMA OneHandle == TheOne \in Handle
BY ArcAssumption DEF TheOne

LEMMA FileStutters ==
  ASSUME FInv, UNCHANGED fvars
  PROVE  FInv'
BY SameFile
   DEF FInv, FTypes, Near, AllRightful, Filled, FailedFull, Giving, GivingTo, fvars

LEMMA FileStep ==
  ASSUME FInv, [Next]_vars
  PROVE  FInv'
<1>1. CASE UNCHANGED fvars  BY <1>1, FileStutters
<1>2. CASE Loop  BY <1>2, HasMoreKeeps DEF Loop
<1>3. CASE NextOfArc  BY <1>3, OneHandle, NextRecordKeeps DEF NextOfArc
<1>4. CASE TransferOfArc
  BY <1>4, OneHandle, TransferKeeps, FlushFailsKeeps DEF TransferOfArc, TransferAborts
<1>5. CASE FreeIn  BY <1>5, OneHandle, ReleaseKeeps DEF FreeIn
<1>6. CASE Other
  <2>1. CASE HasMore  BY <2>1, HasMoreKeeps
  <2>2. CASE \E i \in 1 .. Len(Recs) : Seek(i)  BY <2>2, SeekKeeps
  <2>3. CASE \E h \in Handle :
               NextRecord(h) \/ Register(h) \/ GetContent(h) \/ Release(h) \/ Transfer(h)
    BY <2>3, NextRecordKeeps, RegisterKeeps, GetContentKeeps, ReleaseKeeps, TransferKeeps
  <2>4. CASE FlushFails  BY <2>4, FlushFailsKeeps
  <2> QED  BY <1>6, <2>1, <2>2, <2>3, <2>4 DEF Other, RegisterAborts, TransferAborts
<1>7. CASE OpenWarc \/ SetFields \/ Store \/ FreeOut \/ Die \/ UNCHANGED vars
  <2>1. UNCHANGED fvars  BY <1>7 DEF OpenWarc, SetFields, Store, FreeOut, Die, vars
  <2> QED  BY <1>1, <2>1
<1> QED  BY <1>2, <1>3, <1>4, <1>5, <1>6, <1>7 DEF Next, Convert

\* The types: of the WARC file, and of what temp_writer holds.
LEMMA TransferTypes ==
  ASSUME FInv, CTypes, NEW h \in Handle, Transfer(h)
  PROVE  wrec' \in [size: Nat, bytes: Block]
<1>1. arec[h].of # 0 /\ arec[h].size \in Nat
  BY DEF Transfer, FInv, FTypes, ARecordType
<1>2. PICK r \in Registered(h) :
        IF ~r.done THEN UNCHANGED wrec
        ELSE \E b \in Transferred(h, Handed(r.temp)) :
               wrec' = [size |-> arec[h].size, bytes |-> b]
  BY DEF Transfer
<1>3. CASE ~r.done  BY <1>2, <1>3 DEF CTypes
<1>4. CASE r.done
  <2>1. PICK b \in Transferred(h, Handed(r.temp)) :
          wrec' = [size |-> arec[h].size, bytes |-> b]
    BY <1>2, <1>4
  <2>2. Handed(r.temp) \in Block  BY <1>1, <1>4, TransferBytes
  <2>3. b \in Block  BY <1>1, <2>2, TransferredShape
  <2> QED  BY <1>1, <2>1, <2>3
<1>5. r.done \in BOOLEAN  BY <1>1, RegisteredShape
<1> QED  BY <1>3, <1>4, <1>5

\* A crash changes the WARC file at its end only.
LEMMA CrashedLog ==
  ASSUME CTypes, Crashed
  PROVE  /\ log' \in Seq(Entry) /\ Len(log') = Len(log)
         /\ \A k \in 1 .. Len(log) :
              log'[k].rec = log[k].rec /\ (k = Len(log) \/ log'[k] = log[k])
<1>1. log \in Seq(Entry)  BY DEF CTypes
<1>2. CASE UNCHANGED log  BY <1>1, <1>2
<1>3. CASE log # << >> /\ log' = [log EXCEPT ![Len(log)].whole = FALSE]
  <2> DEFINE n == Len(log)
             e == [log[n] EXCEPT !.whole = FALSE]
  <2>1. n \in 1 .. n  BY <1>1, <1>3
  <2>2. log[n] \in Entry  BY <1>1, <2>1
  <2>3. e \in Entry /\ e.rec = log[n].rec  BY <2>2 DEF Entry
  <2>4. log' = [log EXCEPT ![n] = e]  BY <1>3
  <2> HIDE DEF e, n
  <2>5. /\ log' \in Seq(Entry) /\ Len(log') = n
        /\ \A k \in 1 .. n : log'[k] = IF k = n THEN e ELSE log[k]
    <3> HIDE DEF Entry
    <3> QED  BY <1>1, <2>1, <2>3, <2>4, ExceptSeq DEF n
  <2> QED  BY <2>3, <2>5 DEF n
<1> QED  BY <1>2, <1>3 DEF Crashed

LEMMA TypesStep ==
  ASSUME FInv, CTypes, [Next]_vars
  PROVE  CTypes'
<1> USE DEF CTypes
<1>1. Limit \in Nat \ {0} /\ HeaderSizes \subseteq Nat \ {0}
  BY ConverterAssumption DEF ConverterAssumption
<1>2. CASE OpenWarc  BY <1>1, <1>2 DEF OpenWarc, Main, Exit, wvars, Warc!Open
<1>3. CASE Loop  BY <1>3 DEF Loop, Main, Exit, wvars
<1>4. CASE NextOfArc
  <2>1. CASE Crashed
    <3>1. log' \in Seq(Entry)  BY <2>1, CrashedLog
    <3> QED  BY <1>4, <2>1, <3>1 DEF NextOfArc, Crashed
  <2> QED  BY <1>4, <2>1 DEF NextOfArc, Main, Exit, wvars
<1>5. CASE SetFields  BY <1>5 DEF SetFields, Main, Exit, wvars
<1>6. CASE TransferOfArc
  <2>1. wrec' \in [size: Nat, bytes: Block]
    BY <1>6, OneHandle, TransferTypes DEF TransferOfArc, TransferAborts
  <2>2. CASE Crashed
    <3>1. log' \in Seq(Entry)  BY <2>2, CrashedLog
    <3> QED  BY <2>1, <2>2, <3>1 DEF Crashed
  <2>3. CASE ~Crashed
    BY <1>6, <2>1, <2>3 DEF TransferOfArc, Main, Exit, wvars, Warc!Call
  <2> QED  BY <2>2, <2>3
<1>7. CASE Store
  <2>1. CASE Warc!Refuse /\ Exit("store", 14)
    BY <1>7, <2>1 DEF Store, Warc!Refuse, Exit
  <2>2. CASE (\E n \in HeaderSizes : used' = used + n + wrec.size)
             /\ Warc!Accept(wrec.bytes) /\ Main("store", "free_in")
    <3>1. log' = Append(log, [rec |-> wrec.bytes, whole |-> TRUE]) /\ used' <= cap
          /\ UNCHANGED cap
      BY <2>2 DEF Warc!Accept
    <3>2. [rec |-> wrec.bytes, whole |-> TRUE] \in Entry  BY DEF Entry
    <3>3. log' \in Seq(Entry)  BY <3>1, <3>2
    <3>4. used' \in Nat  BY <1>1, <2>2
    <3>5. used' \in 0 .. Limit  BY <1>1, <3>1, <3>4
    <3> QED  BY <1>7, <2>2, <3>1, <3>3, <3>5 DEF Store, Main
  <2> QED  BY <1>7, <2>1, <2>2 DEF Store
<1>8. CASE FreeIn
  <2>1. Idle \in [size: Nat, bytes: Block]  BY DEF Idle, Block
  <2> QED  BY <1>8, <2>1 DEF FreeIn, Main, wvars
<1>9. CASE FreeOut  BY <1>9 DEF FreeOut, Main, wvars, Warc!Close
<1>10. CASE Other
  <2>1. wrec' \in [size: Nat, bytes: Block]
    BY <1>10, TransferTypes DEF Other, TransferAborts
  <2> QED  BY <1>10, <2>1 DEF Other, wvars
<1>11. CASE Die
  <2>1. log' \in Seq(Entry)  BY <1>11, CrashedLog DEF Die
  <2> QED  BY <1>11, <2>1 DEF Die, Crashed
<1>12. CASE UNCHANGED vars  BY <1>12 DEF vars, wvars
<1> QED
  BY <1>2, <1>3, <1>4, <1>5, <1>6, <1>7, <1>8, <1>9, <1>10, <1>11, <1>12 DEF Next, Convert

-----------------------------------------------------------------------------
(* The records are taken in their order. *)

\* Behind the first n records, nextRecord gives the one after them, or none; and then
\* FH is behind it.  In an uncompressed file, that its declared length leads to no other
\* record is an assumption.
LEMMA NextFollows ==
  ASSUME FInv, NEW h \in Handle, NextRecord(h), ret' = "record", NEW n \in Nat, Follows(n)
  PROVE  /\ n + 1 \in 1 .. Len(Recs) /\ arec'[h].of = n + 1
         /\ arc.mode = "gzip" => filler' = n + 1
         /\ Follows(n + 1)'
         /\ At(fh) = n + 1 /\ Start(n + 1) = fh
<1> DEFINE i == At(fh)
           l == Recs[i].len % W32
<1>1. /\ arc \in Arcs /\ arec \in [Handle -> ARecordType]
      /\ arc.mode \in {"plain", "gzip"} /\ Len(Recs) \in Nat \ {0}
  BY ArcShape DEF FInv, FTypes
<1>2. /\ i # 0 /\ UNCHANGED arc
      /\ Give(h, i, IF arc.mode = "plain" THEN fh + Recs[i].head ELSE Recs[i].head)
      /\ arc.mode = "plain" => fh' = fh + Recs[i].head + l + 1
      /\ arc.mode = "gzip" => fh' = Start(i + 1) /\ filler' = i
  <2>1. CASE NextPlain(h)
    <3>1. arc.mode = "plain"  BY <2>1 DEF NextPlain
    <3> QED  BY <2>1, <3>1 DEF NextPlain, Asks, Same, Declared
  <2>2. CASE NextGzip(h)
    <3>1. arc.mode = "gzip"  BY <2>2 DEF NextGzip
    <3> QED  BY <2>2, <3>1 DEF NextGzip, Asks, Same
  <2>3. ~NextGarbage(h) /\ ~NextNotInflated(h) /\ ~NextNotWritten(h) /\ ~NextAborts(h)
    BY DEF NextGarbage, NextNotInflated, NextNotWritten, NextAborts, FlushFails
  <2> QED  BY <2>1, <2>2, <2>3 DEF NextRecord
<1>3. i \in 1 .. Len(Recs) /\ Start(i) = fh  BY <1>2, AtGives
<1>4. i = n + 1  BY <1>3 DEF Follows
<1>5. arec'[h].of = i  BY <1>1, <1>2, ZenonT(60) DEF Give, NoARecord
<1>6. Follows(n + 1)'
  <2>1. Recs' = Recs /\ Size' = Size /\ \A j : Start(j)' = Start(j)  BY <1>2, SameFile
  <2>2. CASE arc.mode = "plain"
    <3>1. fh' = Recs[i].off + Recs[i].head + l + 1
      <4>1. fh' = fh + Recs[i].head + l + 1  BY <1>2, <2>2
      <4>2. Recs[i].off = fh  BY <1>1, <1>3, ArcShape
      <4> QED  BY <4>1, <4>2
    <3>2. ASSUME NEW j \in 1 .. Len(Recs), fh' = Start(j) PROVE j = i + 1
      <4>1. Recs[i].off + Recs[i].head + l + 1 = Recs[j].off
        <5>1. Start(j) = Recs[j].off  BY <1>1, ArcShape
        <5> QED  BY <3>1, <3>2, <5>1
      <4> HIDE DEF i
      <4> QED  BY <1>1, <1>3, <2>2, <4>1, ArcAssumption DEF Recs
    <3>3. ASSUME fh' = Size PROVE i = Len(Recs)
      <4>1. Recs[i].off + Recs[i].head + l + 1 = Size  BY <3>1, <3>3
      <4> HIDE DEF i
      <4> QED  BY <1>1, <1>3, <2>2, <4>1, ArcAssumption DEF Recs, Size
    <3> QED  BY <1>4, <2>1, <3>2, <3>3 DEF Follows
  <2>3. CASE arc.mode = "gzip"
    <3>1. fh' = Start(i + 1) /\ i + 1 \in 1 .. Len(Recs) + 1  BY <1>1, <1>2, <1>3, <2>3
    <3>2. ASSUME NEW j \in 1 .. Len(Recs), fh' = Start(j) PROVE j = i + 1
      <4>1. j \in 1 .. Len(Recs) + 1  BY <1>1
      <4> HIDE DEF i
      <4> QED  BY <1>1, <3>1, <3>2, <4>1, Distinct
    <3>3. ASSUME fh' = Size PROVE i = Len(Recs)
      <4>1. Start(Len(Recs) + 1) = Size /\ Len(Recs) + 1 \in 1 .. Len(Recs) + 1
        BY <1>1, ArcShape
      <4>2. Start(i + 1) = Start(Len(Recs) + 1)  BY <3>1, <3>3, <4>1
      <4> HIDE DEF i
      <4>3. i + 1 = Len(Recs) + 1  BY <1>1, <3>1, <4>1, <4>2, Distinct
      <4> QED  BY <1>1, <1>3, <4>3
    <3> QED  BY <1>4, <2>1, <3>2, <3>3 DEF Follows
  <2> QED  BY <1>1, <2>2, <2>3
<1>7. arc.mode = "gzip" => filler' = i  BY <1>2
<1> HIDE DEF i, l
<1> QED  BY <1>3, <1>4, <1>5, <1>6, <1>7 DEF i

\* While FH does not move.
LEMMA StillFollows ==
  ASSUME UNCHANGED <<arc, fh>>
  PROVE  \A n : Follows(n)' = Follows(n)
BY SameFile DEF Follows

LEMMA StillInHand ==
  ASSUME UNCHANGED <<fvars, log>>, InHand
  PROVE  InHand'
<1>1. UNCHANGED <<arc, fh, filler, arec>> /\ Len(log') = Len(log)  BY DEF fvars
<1>2. Recs' = Recs  BY <1>1, SameFile
<1>3. Follows(Len(log) + 1)' = Follows(Len(log) + 1)
  BY <1>1, SameFile DEF Follows
<1> QED  BY <1>1, <1>2, <1>3 DEF InHand

\* The file stays the same.
LEMMA NextLeaves ==
  ASSUME NEW h \in Handle, NextRecord(h)
  PROVE  UNCHANGED <<arc, disk>>
BY DEF NextRecord, NextPlain, NextGarbage, NextGzip, NextNotInflated, NextNotWritten, NextAborts,
       FlushFails, Asks, Same

LEMMA ProgressStep ==
  ASSUME FInv, CTypes, Progress, [Next]_vars
  PROVE  Progress'
<1>1. Len(log) \in Nat /\ Len(Recs) \in Nat /\ exit \in Int
  BY ArcShape DEF CTypes, FInv, FTypes
<1>2. CASE OpenWarc
  <2>1. UNCHANGED <<arc, fh, log>>
    BY <1>2 DEF OpenWarc, Main, Exit, Warc!Open, fvars, wvars
  <2>2. /\ pc = "open" /\ exit = -1
        /\ \/ pc' = "loop" /\ UNCHANGED exit
           \/ pc' = "free_out" /\ exit' = 3
    BY <1>1, <1>2 DEF OpenWarc, Main, Exit, Progress
  <2> QED  BY <2>1, <2>2, StillFollows, SameFile DEF Progress, Between, Within
<1>3. CASE Loop
  <2>1. pc = "loop" /\ UNCHANGED <<arc, log>>  BY <1>3 DEF Loop, HasMore, Same, wvars
  <2>2. Follows(Len(log)) /\ exit = -1  BY <2>1, <1>1 DEF Progress, Between
  <2>3. CASE ret' = "yes" /\ Main("loop", "next")
    <3>1. fh # Size /\ UNCHANGED fh  BY <1>3, <2>3 DEF Loop, HasMore
    <3> QED  BY <2>1, <2>2, <2>3, <3>1, StillFollows, SameFile DEF Progress, Main, Between, Within
  <2>4. CASE ret' = "no" /\ Exit("loop", 0)
    <3>1. fh = Size  BY <1>3, <2>4 DEF Loop, HasMore
    <3>2. Len(log) = Len(Recs)  BY <2>2, <3>1 DEF Follows
    <3> QED  BY <1>1, <2>1, <2>4, <3>2, SameFile DEF Progress, Exit, Between, Within
  <2> QED  BY <1>3, <2>3, <2>4 DEF Loop
<1>4. CASE NextOfArc
  <2>1. /\ pc = "next" /\ NextRecord(TheOne) /\ TheOne \in Handle /\ UNCHANGED arc
        /\ Follows(Len(log)) /\ exit = -1
    BY <1>1, <1>4, OneHandle, NextLeaves DEF NextOfArc, Progress, Between
  <2>2. Recs' = Recs  BY <2>1, SameFile
  <2>3. CASE ret' = "record" /\ Main("next", "set") /\ UNCHANGED wvars
    <3> DEFINE n == Len(log)
    <3>1. Len(log') = n  BY <2>3 DEF wvars
    <3>2. /\ n + 1 \in 1 .. Len(Recs) /\ arec'[TheOne].of = n + 1
          /\ arc.mode = "gzip" => filler' = n + 1
          /\ \E m \in Nat : m = n /\ Follows(m + 1)'
      <4>1. PICK m \in Nat : m = n  BY <1>1
      <4> HIDE DEF n
      <4> QED  BY <2>1, <2>3, <4>1, NextFollows DEF n
    <3>3. InHand'
      <4>1. Follows(Len(log) + 1)'
        <5>1. PICK m \in Nat : m = n /\ Follows(m + 1)'  BY <3>2
        <5>2. m = Len(log)'  BY <3>1, <5>1
        <5> QED  BY <5>1, <5>2 DEF Follows
      <4> QED  BY <1>1, <2>1, <2>2, <3>1, <3>2, <4>1 DEF InHand
    <3> QED
      BY <1>1, <2>1, <2>2, <2>3, <3>1, <3>2, <3>3 DEF Progress, Main, Between, Within
  <2>4. CASE ret' = "nil" /\ Exit("next", 5) /\ UNCHANGED wvars
    BY <2>2, <2>4 DEF Progress, Exit, wvars, Between, Within
  <2>5. CASE ret' = "aborted" /\ Crashed
    <3>1. Len(log') = Len(log)  BY <2>5, CrashedLog
    <3> QED  BY <2>2, <2>5, <3>1 DEF Progress, Crashed, Between, Within
  <2> QED  BY <1>4, <2>3, <2>4, <2>5 DEF NextOfArc
<1>5. CASE SetFields
  <2>1. pc = "set" /\ UNCHANGED <<fvars, log>> /\ Recs' = Recs
    BY <1>5, SameFile DEF SetFields, wvars, fvars
  <2>2. InHand'  BY <2>1, StillInHand DEF Progress, Within
  <2>3. /\ exit = -1
        /\ \/ pc' = "transfer" /\ UNCHANGED exit
           \/ pc' = "free_out" /\ exit' = 7
    BY <1>1, <1>5, <2>1 DEF Progress, SetFields, Main, Exit
  <2> QED  BY <2>1, <2>2, <2>3 DEF Progress, Between, Within
<1>6. CASE TransferOfArc /\ ~Crashed
  <2>1. /\ pc = "transfer" /\ UNCHANGED <<arc, fh, log>> /\ Recs' = Recs /\ Transfer(TheOne)
        /\ InHand
    BY <1>6, SameFile
       DEF TransferOfArc, Transfer, Same, Warc!Call, wvars, Progress, Within
  <2>2. /\ exit = -1
        /\ \/ ret' = "ok" /\ pc' = "store" /\ UNCHANGED exit
           \/ pc' = "free_out" /\ exit' = 13
    BY <1>1, <1>6, <2>1 DEF Progress, TransferOfArc, Main, Exit
  <2>3. ASSUME ret' = "ok" PROVE InHand'
    <3>1. /\ arc.mode = "gzip" => filler' = filler
          /\ arec' = [arec EXCEPT ![TheOne].cback = TRUE, ![TheOne].dataf = TRUE]
      BY <2>1, <2>3 DEF Transfer
    <3>2. arec \in [Handle -> ARecordType]  BY DEF FInv, FTypes
    <3>3. arec'[TheOne].of = arec[TheOne].of  BY <3>1, <3>2, OneHandle DEF ARecordType
    <3>4. Follows(Len(log) + 1)' = Follows(Len(log) + 1)  BY <2>1, SameFile DEF Follows
    <3> QED  BY <2>1, <3>1, <3>3, <3>4 DEF InHand
  <2> QED  BY <2>1, <2>2, <2>3 DEF Progress, Between, Within
<1>13. CASE TransferOfArc /\ Crashed
  <2>1. pc = "transfer" /\ UNCHANGED arc
    BY <1>13 DEF TransferOfArc, TransferAborts, FlushFails, Transfer, Same
  <2>2. Recs' = Recs /\ Len(log') = Len(log)  BY <1>13, <2>1, CrashedLog, SameFile
  <2> QED  BY <1>13, <2>2 DEF Progress, Crashed, Between, Within
<1>7. CASE Store
  <2>1. /\ pc = "store" /\ UNCHANGED <<arc, fh>> /\ Recs' = Recs /\ InHand /\ exit = -1
    BY <1>1, <1>7, SameFile DEF Store, fvars, Progress, Within
  <2>2. CASE Warc!Accept(wrec.bytes) /\ Main("store", "free_in")
    <3>1. Len(log') = Len(log) + 1
      <4>1. log \in Seq(Entry) /\ [rec |-> wrec.bytes, whole |-> TRUE] \in Entry
        BY DEF CTypes, Entry
      <4> QED  BY <2>2, <4>1 DEF Warc!Accept
    <3>2. Follows(Len(log))'  BY <2>1, <3>1, SameFile DEF InHand, Follows
    <3> QED  BY <1>1, <2>1, <2>2, <3>1, <3>2 DEF Progress, Main, InHand, Between, Within
  <2>3. CASE Warc!Refuse /\ Exit("store", 14)
    BY <2>1, <2>3 DEF Progress, Exit, Warc!Refuse, Between, Within
  <2> QED  BY <1>7, <2>2, <2>3 DEF Store
<1>8. CASE FreeIn
  <2>1. UNCHANGED <<arc, fh, log>> /\ Recs' = Recs
    BY <1>8, SameFile DEF FreeIn, Release, Same, wvars
  <2> QED  BY <1>8, <2>1, StillFollows DEF Progress, FreeIn, Main, Between, Within
<1>9. CASE FreeOut
  <2>1. UNCHANGED log /\ Recs' = Recs
    BY <1>9, SameFile DEF FreeOut, fvars, wvars, Warc!Close
  <2> QED  BY <1>9, <2>1 DEF Progress, FreeOut, Main, Between, Within
<1>10. CASE Other
  <2>1. UNCHANGED <<arc, log, pc, exit>>
    BY <1>10, NextLeaves
       DEF Other, HasMore, Seek, Register, RegisterAborts, GetContent, Release, Transfer,
           TransferAborts, FlushFails, Same, wvars
  <2>2. Recs' = Recs /\ pc = "free"  BY <1>10, <2>1, SameFile DEF Other
  <2> QED  BY <2>1, <2>2, SMTT(30) DEF Progress, Between, Within
<1>11. CASE Die
  <2>1. Len(log') = Len(log) /\ Recs' = Recs  BY <1>11, CrashedLog, SameFile DEF Die, fvars
  <2> QED  BY <1>11, <2>1 DEF Progress, Die, Crashed, Between, Within
<1>12. CASE UNCHANGED vars
  <2>1. UNCHANGED <<fvars, arc, fh, log, pc, exit>>  BY <1>12 DEF vars, fvars, wvars
  <2>2. InHand => InHand'  BY <2>1, StillInHand
  <2> QED  BY <2>1, <2>2, StillFollows, SameFile DEF Progress
<1> QED
  BY <1>2, <1>3, <1>4, <1>5, <1>6, <1>7, <1>8, <1>9, <1>10, <1>11, <1>12, <1>13
     DEF Next, Convert

-----------------------------------------------------------------------------
(* What is stored. *)

\* A declared length that DATA_LENGTH holds is taken as it is.
LEMMA DeclaredExactly ==
  ASSUME SmallRecords, arc \in Arcs, NEW i \in 1 .. Len(Recs)
  PROVE  Declared(i) = Recs[i].len /\ Recs[i].len \in Nat
<1>1. Recs[i] \in ArcType  BY ArcShape
<1>2. Recs[i].len \in Nat /\ Recs[i].len < W32  BY <1>1 DEF SmallRecords, ArcType, Recs
<1>3. W32 \in Nat \ {0}  BY ArcAssumption
<1> QED  BY <1>2, <1>3 DEF Declared

\* If temp_writer got all bytes it was to get, it got the data of the record.
LEMMA TransferredData ==
  ASSUME SmallRecords, FInv, NEW h \in Handle, Transfer(h), ret' = "ok",
         arc.mode = "gzip" => filler = arec[h].of, Len(wrec'.bytes) = wrec'.size
  PROVE  wrec'.bytes = Data(arec[h].of) /\ Len(wrec'.bytes) = Recs[arec[h].of].len
<1> DEFINE i == arec[h].of
           n == arec[h].size
<1>1. PICK r \in Registered(h) :
        /\ r.done /\ i # 0
        /\ \E b \in Transferred(h, Handed(r.temp)) : wrec' = [size |-> n, bytes |-> b]
  <2>1. PICK r \in Registered(h) :
          IF ~r.done THEN ret' = "error"
          ELSE \E b \in Transferred(h, Handed(r.temp)) : wrec' = [size |-> n, bytes |-> b]
    BY DEF Transfer
  <2> QED  BY <2>1 DEF Transfer
<1> PICK b \in Transferred(h, Handed(r.temp)) : wrec' = [size |-> n, bytes |-> b]
  BY <1>1
<1>2. Len(b) = n /\ wrec'.bytes = b  OBVIOUS
<1>3. Rightful(arec[h])  BY <1>1 DEF FInv, AllRightful, NoARecord
<1>4. /\ arc \in Arcs /\ i \in 1 .. Len(Recs) /\ n = Recs[i].len /\ n \in Nat
      /\ arc.mode \in {"plain", "gzip"}
  <2>1. arc \in Arcs  BY DEF FInv, FTypes
  <2> QED  BY <1>3, <2>1, DeclaredExactly, ArcShape, SMTT(30) DEF Rightful
<1>9. Handed(r.temp) \in Block  BY <1>1, TransferBytes
<1>10. n <= Len(Handed(r.temp)) /\ b = SubSeq(Handed(r.temp), 1, n)
  BY <1>2, <1>4, <1>9, TransferredShape
<1>11. Handed(r.temp) = Rest(r.temp)
  <2>1. n # 0  BY <1>3 DEF Rightful
  <2>2. Len(<< >>) = 0  OBVIOUS
  <2> QED  BY <1>4, <1>10, <2>1, <2>2 DEF Handed
<1>5. Rest(r.temp) \in Block  BY <1>1, TransferBytes
<1>6. n <= Len(Rest(r.temp)) /\ b = SubSeq(Rest(r.temp), 1, n)
  BY <1>10, <1>11
<1>7. CASE arc.mode = "plain"
  <2>1. Rest(r.temp) = FileBytes(arec[h].off, n) /\ Len(Rest(r.temp)) = n
    BY <1>1, <1>7, TransferBytes
  <2>2. b = Rest(r.temp)  BY <1>5, <1>6, <2>1, All
  <2>3. Recs[i] \in ArcType /\ Start(i) \in Nat  BY <1>4, ArcShape
  <2>4. arec[h].off = Start(i) + Recs[i].head
    BY <1>3, <1>7, <2>3, SMTT(30) DEF Rightful, ArcType
  <2> HIDE DEF i, n
  <2>5. b = Data(i)  BY <1>4, <1>7, <2>1, <2>2, <2>4 DEF Data
  <2> QED  BY <1>2, <1>4, <2>5 DEF i
<1>8. CASE arc.mode = "gzip"
  <2> DEFINE head == Recs[i].head
             all  == Recs[i].head + Recs[i].data + Recs[i].sep
             rest == SubSeq(Whole(i), head + 1, Len(Whole(i)))
  <2>1. Rest(r.temp) = rest
    <3>1. filler = i /\ arec[h].off = head  BY <1>1, <1>8, DataOffset
    <3>2. Rest(r.temp) = SubSeq(Whole(filler), arec[h].off + 1, Len(Whole(filler)))
      BY <1>1, <1>8, <3>1, TransferBytes
    <3> QED  BY <3>1, <3>2
  <2>2. Recs[i] \in ArcType  BY <1>4, ArcShape
  <2>3. head \in Nat /\ all \in Nat /\ head <= all /\ Recs[i].data + Recs[i].sep = all - head
    <3> HIDE DEF i
    <3>1. Recs[i].head \in Nat /\ Recs[i].data \in Nat /\ Recs[i].sep \in Nat
      BY ONLY <2>2 DEF ArcType
    <3> QED  BY ONLY <3>1
  <2>4. Whole(i) \in Block /\ Len(Whole(i)) = all /\ Whole(i) = Bytes(i, 0, all)
    BY <1>4, WholeShape DEF Whole
  <2> HIDE DEF head, all
  <2>5. rest \in Block /\ Len(rest) = all - head
    <3> HIDE DEF i
    <3>1. Len(Whole(i)) \in 0 .. Len(Whole(i))  BY <2>3, <2>4
    <3>2. /\ rest \in Block
          /\ Len(rest) = IF head <= Len(Whole(i)) THEN Len(Whole(i)) - head ELSE 0
      BY <2>3, <2>4, <3>1, Stretch, SMTT(30)
    <3> QED  BY <2>3, <2>4, <3>2
  <2>6. head + n <= all  BY <1>4, <1>6, <2>1, <2>3, <2>5, SMTT(30)
  <2>7. b = SubSeq(Whole(i), head + 1, head + n)
    <3>1. all \in 0 .. Len(Whole(i))  BY <2>3, <2>4
    <3>2. SubSeq(rest, 1, n) = SubSeq(Whole(i), head + 1, head + n)
      <4> HIDE DEF i, n
      <4> QED  BY <1>4, <2>3, <2>4, <2>6, <3>1, Beginning, SMTT(30)
    <3> QED  BY <1>6, <2>1, <3>2
  <2>8. SubSeq(Bytes(i, 0, all), head + 1, head + n) = Bytes(i, head, n)
    <3> HIDE DEF i, n
    <3>1. i \in Nat /\ n \in Nat /\ head \in Nat /\ all \in Nat /\ head + n <= all
      BY <1>4, <2>3, <2>6
    <3>2. PICK j \in Nat, l \in Nat, m \in Nat, k \in Nat :
            j = i /\ l = all /\ m = head /\ k = n
      BY <3>1
    <3>3. m + k <= l  BY <3>1, <3>2
    <3>4. SubSeq(Bytes(j, 0, l), m + 1, m + k) = Bytes(j, m, k)
      BY ONLY <3>3, WholeStretch, j \in Nat, l \in Nat, m \in Nat, k \in Nat, ZenonT(60)
    <3> QED  BY <3>2, <3>4
  <2>9. Fewer(Recs[i].len, Recs[i].data + Recs[i].sep) = n
    BY <1>4, <2>3, <2>6 DEF Fewer
  <2> HIDE DEF i, n, rest
  <2>10. b = Data(i)  BY <1>8, <2>4, <2>7, <2>8, <2>9 DEF Data, head
  <2> QED  BY <1>2, <1>4, <2>10 DEF i
<1> QED  BY <1>4, <1>7, <1>8

\* While the WARC file does not change.
LEMMA SameContent ==
  ASSUME Content, UNCHANGED <<arc, log>>, pc # "end", pc' # "store"
  PROVE  Content'
<1>1. \A i : Data(i)' = Data(i)  BY SameData
<1>2. Recs' = Recs  BY SameFile
<1> QED  BY <1>1, <1>2 DEF Content

\* When it ends with the converter.
LEMMA CrashedContent ==
  ASSUME CTypes, Content, UNCHANGED arc, pc # "end", Crashed
  PROVE  Content'
<1>1. \A i : Data(i)' = Data(i)  BY SameData
<1>2. Recs' = Recs  BY SameFile
<1>3. pc' = "end" /\ exit' = -1  BY DEF Crashed
<1>4. /\ Len(log') = Len(log)
      /\ \A k \in 1 .. Len(log) :
           log'[k].rec = log[k].rec /\ (k = Len(log) \/ log'[k] = log[k])
  BY CrashedLog
<1> QED  BY <1>1, <1>2, <1>3, <1>4 DEF Content

LEMMA ContentStep ==
  ASSUME SmallRecords, FInv, CTypes, Progress, Content, [Next]_vars
  PROVE  Content'
<1>1. Len(log) \in Nat  BY DEF CTypes
<1>2. CASE OpenWarc
  <2>1. UNCHANGED <<arc, log>>
    BY <1>2 DEF OpenWarc, Warc!Open, fvars, wvars
  <2>2. pc # "end" /\ pc' # "store"  BY <1>2 DEF OpenWarc, Main, Exit
  <2> QED  BY <2>1, <2>2, SameContent
<1>3. CASE Loop
  <2>1. UNCHANGED <<arc, log>> /\ pc # "end" /\ pc' # "store"
    BY <1>3 DEF Loop, HasMore, Same, Main, Exit, wvars
  <2> QED  BY <2>1, SameContent
<1>4. CASE NextOfArc
  <2>1. UNCHANGED arc /\ pc # "end"
    BY <1>4, OneHandle, NextLeaves DEF NextOfArc
  <2>2. CASE Crashed  BY <2>1, <2>2, CrashedContent
  <2>3. CASE ~Crashed
    <3>1. UNCHANGED log /\ pc' # "store"  BY <1>4, <2>3 DEF NextOfArc, Main, Exit, wvars
    <3> QED  BY <2>1, <3>1, SameContent
  <2> QED  BY <2>2, <2>3
<1>5. CASE SetFields
  <2>1. UNCHANGED <<arc, log>> /\ pc # "end" /\ pc' # "store"
    BY <1>5 DEF SetFields, Main, Exit, fvars, wvars
  <2> QED  BY <2>1, SameContent
<1>6. CASE TransferOfArc /\ ~Crashed
  <2>1. /\ UNCHANGED <<arc, log>> /\ pc = "transfer" /\ Transfer(TheOne) /\ TheOne \in Handle
        /\ InHand
    BY <1>6, OneHandle
       DEF TransferOfArc, Transfer, Same, Warc!Call, wvars, Progress, Within
  <2>2. CASE pc' # "store"  BY <2>1, <2>2, SameContent
  <2>3. CASE pc' = "store"
    <3>1. \A i : Data(i)' = Data(i)  BY <2>1, SameData
    <3>2. Recs' = Recs  BY <2>1, SameFile
    <3>3. ret' = "ok"  BY <1>6, <2>3 DEF TransferOfArc, Exit
    <3>4. ASSUME Len(wrec'.bytes) = wrec'.size
          PROVE  /\ wrec'.bytes = Data(Len(log) + 1)
                 /\ Len(wrec'.bytes) = Recs[Len(log) + 1].len
      BY <2>1, <3>3, <3>4, TransferredData DEF InHand
    <3> QED  BY <2>1, <2>3, <3>1, <3>2, <3>4 DEF Content
  <2> QED  BY <2>2, <2>3
<1>12. CASE TransferOfArc /\ Crashed
  <2>1. pc = "transfer" /\ UNCHANGED arc
    BY <1>12 DEF TransferOfArc, TransferAborts, FlushFails, Transfer, Same
  <2> QED  BY <1>12, <2>1, CrashedContent
<1>7. CASE Store
  <2>1. UNCHANGED <<arc, wrec>> /\ pc = "store" /\ pc' # "store"
    BY <1>7 DEF Store, Main, Exit, fvars
  <2>2. CASE Len(wrec.bytes) = wrec.size /\ Warc!Accept(wrec.bytes)
    <3> DEFINE e == [rec |-> wrec.bytes, whole |-> TRUE]
    <3>1. log' = Append(log, e)  BY <2>2 DEF Warc!Accept
    <3>2. log \in Seq(Entry) /\ e \in Entry  BY DEF CTypes, Entry
    <3>3. /\ Len(log') = Len(log) + 1 /\ log'[Len(log) + 1] = e
          /\ \A k \in 1 .. Len(log) : log'[k] = log[k]
      <4> HIDE DEF e, Entry
      <4> QED  BY <3>1, <3>2
    <3>4. \A i : Data(i)' = Data(i)  BY <2>1, SameData
    <3>5. Recs' = Recs  BY <2>1, SameFile
    <3>6. \A k \in 1 .. Len(log) :
            log[k].whole /\ log[k].rec = Data(k) /\ Len(log[k].rec) = Recs[k].len
      BY <2>1 DEF Content
    <3>7. e.rec = Data(Len(log) + 1) /\ Len(e.rec) = Recs[Len(log) + 1].len /\ e.whole
      BY <2>1, <2>2 DEF Content
    <3> HIDE DEF e
    <3>8. \A k \in 1 .. Len(log') :
            /\ log'[k].whole
            /\ log'[k].rec = Data(k) /\ Len(log'[k].rec) = Recs[k].len
      BY <1>1, <3>3, <3>6, <3>7
    <3> QED  BY <2>1, <3>4, <3>5, <3>8 DEF Content
  <2>3. CASE Warc!Refuse
    <3>1. UNCHANGED log  BY <2>3 DEF Warc!Refuse
    <3> QED  BY <2>1, <3>1, SameContent
  <2> QED  BY <1>7, <2>2, <2>3 DEF Store
<1>8. CASE FreeIn \/ FreeOut
  <2>1. UNCHANGED <<arc, log>> /\ pc # "end" /\ pc' # "store"
    BY <1>8, SMTT(30) DEF FreeIn, FreeOut, Release, Same, Main, fvars, wvars, Warc!Close
  <2> QED  BY <2>1, SameContent
<1>9. CASE Other
  <2>1. UNCHANGED <<arc, log>> /\ pc # "end" /\ pc' # "store"
    BY <1>9, NextLeaves
       DEF Other, HasMore, Seek, Register, RegisterAborts, GetContent, Release, Transfer,
           TransferAborts, FlushFails, Same, wvars
  <2> QED  BY <2>1, SameContent
<1>10. CASE Die  BY <1>10, CrashedContent DEF Die, fvars
<1>11. CASE UNCHANGED vars
  <2>1. UNCHANGED <<arc, log, pc, exit, wrec>>  BY <1>11 DEF vars, fvars, wvars
  <2>2. Recs' = Recs /\ \A i : Data(i)' = Data(i)  BY <2>1, SameFile, SameData
  <2> QED  BY <2>1, <2>2 DEF Content
<1> QED
  BY <1>2, <1>3, <1>4, <1>5, <1>6, <1>7, <1>8, <1>9, <1>10, <1>11, <1>12
     DEF Next, Convert

-----------------------------------------------------------------------------
(* A regular file. *)

\* What comes of a record of a regular file, when there is room.
LEMMA RegularRecord ==
  ASSUME FInv, AllRegular, NEW h \in Handle, NextRecord(h),
         NEW i \in 1 .. Len(Recs), fh = Start(i)
  PROVE  /\ ret' = "record"
         /\ SmallRecords => fh' = Start(i + 1)
<1>1. arc \in Arcs /\ disk = "room" /\ Regular(i) /\ At(fh) = i /\ i # 0
  BY AtFinds DEF FInv, FTypes, AllRegular
<1>2. /\ Recs[i].kind = "fine" /\ Recs[i].inflates /\ Declared(i) # 0
      /\ Recs[i].len = Recs[i].data /\ Recs[i].sep = 1
  BY <1>1 DEF Regular, Declared
<1>3. CASE NextPlain(h)
  <2>1. /\ arc.mode = "plain" /\ fh' = fh + Recs[i].head + Declared(i) + 1
        /\ ret' = "record"
    BY <1>1, <1>2, <1>3 DEF NextPlain, Give
  <2>2. ASSUME SmallRecords PROVE fh' = Start(i + 1)
    <3>1. Declared(i) = Recs[i].data  BY <1>1, <1>2, <2>2, DeclaredExactly
    <3>2. Start(i + 1) = Start(i) + (Recs[i].head + Recs[i].data + 1)
      <4>1. Length(arc, Recs[i]) = Recs[i].head + Recs[i].data + 1
        BY <1>2, <2>1 DEF Length
      <4> QED  BY <1>1, <4>1, Tiling
    <3>3. Start(i) \in Nat /\ Recs[i] \in ArcType  BY <1>1, ArcShape
    <3> QED  BY <2>1, <3>1, <3>2, <3>3, SMTT(30) DEF ArcType
  <2> QED  BY <2>1, <2>2
<1>4. CASE NextGzip(h)  BY <1>1, <1>2, <1>4 DEF NextGzip, Give
<1>5. ~NextGarbage(h)  BY <1>1, <1>2 DEF NextGarbage
<1>6. ~NextNotInflated(h) /\ ~NextNotWritten(h) /\ ~NextAborts(h)
  BY <1>1, <1>2 DEF NextNotInflated, NextNotWritten, NextAborts, FlushFails
<1> QED  BY <1>3, <1>4, <1>5, <1>6 DEF NextRecord

\* The registration of a record of a regular file does not fail.
LEMMA RegularRegisters ==
  ASSUME FInv, AllRegular, NEW h \in Handle, arec[h].of # 0, NEW r \in Registered(h)
  PROVE  r.done
<1> DEFINE i == arec[h].of
           n == arec[h].size
           off == arec[h].off
<1>1. /\ arc \in Arcs /\ disk = "room" /\ Rightful(arec[h])
      /\ arc.mode \in {"plain", "gzip"} /\ Len(Recs) \in Nat
  BY ArcShape DEF FInv, FTypes, AllRegular, AllRightful, NoARecord
<1>2. CASE arc.mode = "gzip"  BY <1>2, RegisteredShape
<1>3. CASE arc.mode = "plain"
  <2>1. /\ i \in 1 .. Len(Recs) /\ n = Recs[i].len % W32 /\ off = Recs[i].head + Start(i)
    BY <1>1, <1>3 DEF Rightful, Declared
  <2>2. Recs[i] \in ArcType /\ Start(i) \in Nat /\ Size \in Nat /\ W32 \in Nat \ {0}
    BY <1>1, <2>1, ArcShape, ArcAssumption
  <2>3. Recs[i].len = Recs[i].data /\ Recs[i].sep = 1  BY <2>1 DEF AllRegular, Regular
  <2>4. n \in Nat /\ n <= Recs[i].data /\ off \in Nat
    <3>1. Recs[i].len \in Nat  BY <2>2 DEF ArcType
    <3>2. Recs[i].len % W32 <= Recs[i].len  BY <2>2, <3>1
    <3> QED  BY <2>1, <2>2, <2>3, <3>1, <3>2, SMTT(30) DEF ArcType
  <2>5. off + n < Size
    <3>1. Start(i + 1) = Start(i) + (Recs[i].head + Recs[i].data + 1)
      <4>1. Length(arc, Recs[i]) = Recs[i].head + Recs[i].data + 1
        BY <1>3, <2>3 DEF Length
      <4> HIDE DEF i
      <4> QED  BY <1>1, <2>1, <4>1, Tiling
    <3>2. Start(i + 1) <= Size
      <4>1. Start(Len(Recs) + 1) = Size /\ Len(Recs) + 1 \in i + 1 .. Len(Recs) + 1
        BY <1>1, <2>1, ArcShape
      <4> HIDE DEF i
      <4> QED  BY <1>1, <2>1, <4>1, InOrder
    <3>3. Recs[i].head \in Nat /\ Recs[i].data \in Nat  BY <2>2 DEF ArcType
    <3> DEFINE st == Start(i)
               hd == Recs[i].head
               dt == Recs[i].data
    <3>4. /\ st \in Nat /\ hd \in Nat /\ dt \in Nat /\ n \in Nat /\ n <= dt /\ off = hd + st
          /\ Size \in Nat
      BY <2>1, <2>2, <2>4, <3>3
    <3>5. st + (hd + dt + 1) <= Size  BY <3>1, <3>2
    <3> HIDE DEF i, n, off, st, hd, dt
    <3> QED  BY <3>4, <3>5
  <2> HIDE DEF i, n, off
  <2>6. Len(FileBytes(off, n)) = n
    <3>1. Len(FileBytes(off, n)) = IF off >= Size THEN 0 ELSE Fewer(n, Size - off)
      BY <1>1, <2>4, FileBytesShape
    <3> QED  BY <2>2, <2>4, <2>5, <3>1 DEF Fewer
  <2>7. ~temp.failed  BY <1>1 DEF FInv, FailedFull
  <2> QED  BY <1>1, <1>3, <2>4, <2>6, <2>7 DEF Registered, n, off
<1> QED  BY <1>1, <1>2, <1>3

\* Whatever the application does, of the ARC file it makes one call or none.
FileCall ==
  \/ UNCHANGED fvars \/ HasMore \/ FlushFails \/ \E i \in 1 .. Len(Recs) : Seek(i)
  \/ \E h \in Handle :
       NextRecord(h) \/ Register(h) \/ GetContent(h) \/ Release(h) \/ Transfer(h)

LEMMA OneCall ==
  ASSUME [Next]_vars
  PROVE  FileCall
<1>1. CASE Loop  BY <1>1 DEF FileCall, Loop
<1>2. CASE NextOfArc  BY <1>2, OneHandle DEF FileCall, NextOfArc
<1>3. CASE TransferOfArc
  BY <1>3, OneHandle DEF FileCall, TransferOfArc, TransferAborts
<1>4. CASE FreeIn  BY <1>4, OneHandle DEF FileCall, FreeIn
<1>5. CASE Other  BY <1>5 DEF FileCall, Other, RegisterAborts, TransferAborts
<1>6. CASE OpenWarc \/ SetFields \/ Store \/ FreeOut \/ Die \/ UNCHANGED vars
  <2>1. UNCHANGED fvars  BY <1>6 DEF OpenWarc, SetFields, Store, FreeOut, Die, vars
  <2> QED  BY <2>1 DEF FileCall
<1> QED  BY <1>1, <1>2, <1>3, <1>4, <1>5, <1>6 DEF Next, Convert

LEMMA FileStays ==
  ASSUME FileCall
  PROVE  arc' = arc /\ disk' = disk
BY NextLeaves
   DEF FileCall, fvars, HasMore, FlushFails, Seek, Register, GetContent, Release, Transfer, Same

LEMMA OnTrackStep ==
  ASSUME SmallRecords, FInv, CTypes, Progress, OnTrack, [Next]_vars
  PROVE  OnTrack'
<1>1. Len(log) \in Nat /\ Len(Recs) \in Nat /\ arc \in Arcs
  BY ArcShape DEF CTypes, FInv, FTypes
<1>2. UNCHANGED <<arc, disk>>
  <2>1. FileCall  BY OneCall
  <2> QED  BY <2>1, FileStays
<1>3. /\ Recs' = Recs /\ \A i : Start(i)' = Start(i)  BY <1>2, SameFile
<1>4. AllRegular' = AllRegular  BY <1>2, <1>3 DEF AllRegular, Regular
<1> SUFFICES ASSUME AllRegular
             PROVE  /\ exit' \in {-1, 0, 3, 14}
                    /\ pc' \in Between => fh' = Start(Len(log') + 1)
                    /\ pc' \in Within => fh' = Start(Len(log') + 2)
  BY <1>3, <1>4 DEF OnTrack
<1>5. /\ exit \in {-1, 0, 3, 14}
      /\ pc \in Between => fh = Start(Len(log) + 1)
      /\ pc \in Within => fh = Start(Len(log) + 2)
  BY DEF OnTrack
<1>6. CASE OpenWarc
  <2>1. UNCHANGED <<fh, log>>  BY <1>6 DEF OpenWarc, Warc!Open, fvars, wvars
  <2> QED  BY <1>5, <1>6, <2>1 DEF OpenWarc, Main, Exit, Between, Within
<1>7. CASE Loop
  BY <1>5, <1>7 DEF Loop, HasMore, Main, Exit, Between, Within, wvars
<1>8. CASE NextOfArc
  <2>1. /\ pc = "next" /\ NextRecord(TheOne) /\ fh = Start(Len(log) + 1) /\ fh # Size
        /\ Len(log) <= Len(Recs)
    BY <1>5, <1>8 DEF NextOfArc, Between, Progress
  <2>2. Len(log) + 1 \in 1 .. Len(Recs)
    <3>1. Start(Len(Recs) + 1) = Size  BY <1>1, ArcShape
    <3> QED  BY <1>1, <2>1, <3>1
  <2>3. ret' = "record" /\ fh' = Start((Len(log) + 1) + 1)
    BY <2>1, <2>2, OneHandle, RegularRecord
  <2>4. pc' = "set" /\ UNCHANGED <<log, exit>>
    BY <1>8, <2>3 DEF NextOfArc, Main, wvars
  <2> QED  BY <1>1, <1>5, <2>3, <2>4 DEF Between, Within
<1>9. CASE SetFields
  <2>1. pc = "set" /\ InHand /\ UNCHANGED <<fh, log>>
    BY <1>9 DEF SetFields, Progress, Within, fvars, wvars
  <2>2. Regular(arec[TheOne].of)  BY <1>1, <2>1 DEF InHand, AllRegular
  <2>3. pc' = "transfer" /\ UNCHANGED exit
    BY <1>9, <2>2 DEF SetFields, Main, Exit, Regular
  <2> QED  BY <1>5, <2>1, <2>3 DEF Between, Within
<1>10. CASE TransferOfArc
  <2>1. pc = "transfer" /\ Transfer(TheOne) /\ UNCHANGED <<fh, log>>
    <3>1. disk = "room"  BY DEF AllRegular
    <3>2. ~TransferAborts(TheOne)  BY <3>1 DEF TransferAborts, FlushFails
    <3> QED  BY <1>10, <3>2 DEF TransferOfArc, Transfer, Warc!Call, wvars
  <2>2. ret' = "ok"
    <3>1. arec[TheOne].of # 0 /\ \E r \in Registered(TheOne) : r.done => ret' = "ok"
      BY <2>1 DEF Transfer
    <3>2. \A r \in Registered(TheOne) : r.done  BY <3>1, OneHandle, RegularRegisters
    <3> QED  BY <3>1, <3>2
  <2>3. pc' = "store" /\ UNCHANGED exit
    <3>1. ret' # "aborted" /\ ret' # "error"  BY <2>2
    <3> QED  BY <1>10, <3>1 DEF TransferOfArc, TransferAborts, FlushFails, Main
  <2> QED  BY <1>5, <2>1, <2>3 DEF Between, Within
<1>11. CASE Store
  <2>1. pc = "store" /\ UNCHANGED fh  BY <1>11 DEF Store, fvars
  <2>2. CASE Warc!Accept(wrec.bytes) /\ Main("store", "free_in")
    <3>1. Len(log') = Len(log) + 1
      <4>1. log \in Seq(Entry) /\ [rec |-> wrec.bytes, whole |-> TRUE] \in Entry
        BY DEF CTypes, Entry
      <4> QED  BY <2>2, <4>1 DEF Warc!Accept
    <3>2. (Len(log) + 1) + 1 = Len(log) + 2  BY <1>1
    <3> QED  BY <1>5, <2>1, <2>2, <3>1, <3>2 DEF Main, Between, Within
  <2>3. CASE Warc!Refuse /\ Exit("store", 14)
    BY <1>5, <2>1, <2>3 DEF Exit, Between, Within
  <2> QED  BY <1>11, <2>2, <2>3 DEF Store
<1>12. CASE FreeIn
  BY <1>5, <1>12 DEF FreeIn, Release, Main, wvars, Between, Within
<1>13. CASE FreeOut
  BY <1>5, <1>13 DEF FreeOut, Main, Between, Within
<1>14. CASE Other
  BY <1>5, <1>14 DEF Other, Between, Within
<1>15. CASE Die
  BY <1>15 DEF Die, Crashed, Between, Within
<1>16. CASE UNCHANGED vars
  BY <1>5, <1>16 DEF vars, fvars, wvars
<1> QED
  BY <1>6, <1>7, <1>8, <1>9, <1>10, <1>11, <1>12, <1>13, <1>14, <1>15, <1>16
     DEF Next, Convert

-----------------------------------------------------------------------------
(* The theorems. *)

CInv == FInv /\ CTypes /\ Progress

LEMMA InitCInv ==
  ASSUME Init
  PROVE  CInv
<1>1. FInit /\ Warc!Init /\ exit = -1 /\ wrec = Idle /\ pc \in {"open", "free"}
  BY DEF Init
<1>2. FInv  BY <1>1, FileInit
<1>3. Limit \in Nat \ {0}  BY ConverterAssumption DEF ConverterAssumption
<1>4. log = << >> /\ used = 0 /\ cap = 0  BY <1>1 DEF Warc!Init
<1>5. CTypes
  <2>1. wrec \in [size: Nat, bytes: Block]  BY <1>1 DEF Idle, Block
  <2>2. log \in Seq(Entry)  BY <1>4
  <2> QED  BY <1>1, <1>3, <1>4, <2>1, <2>2 DEF CTypes
<1>6. Progress
  <2>1. arc \in Arcs /\ fh = 0  BY <1>1 DEF FInit
  <2>2. Len(Recs) \in Nat \ {0} /\ Start(1) = 0 /\ Size \in Nat \ {0}  BY <2>1, ArcShape
  <2>3. ASSUME NEW j \in 1 .. Len(Recs), fh = Start(j) PROVE j = 0 + 1
    <3>1. j \in 1 .. Len(Recs) + 1 /\ 1 \in 1 .. Len(Recs) + 1  BY <2>2
    <3> QED  BY <2>1, <2>2, <2>3, <3>1, Distinct
  <2>4. Follows(0)  BY <2>1, <2>2, <2>3 DEF Follows
  <2> QED  BY <1>1, <1>4, <2>2, <2>4 DEF Progress, Within
<1> QED  BY <1>2, <1>5, <1>6 DEF CInv

\* What holds of the ARC reader and the converter after any steps.
THEOREM CInvCorrect == Spec => []CInv
<1>1. Init => CInv  BY InitCInv
<1>2. CInv /\ [Next]_vars => CInv'
  BY FileStep, TypesStep, ProgressStep DEF CInv
<1> QED  BY <1>1, <1>2, PTL DEF Spec

\* The type invariant of the ARC reader, of the converter (arc2warc.c) and of any other
\* application of AFile: a record behind a handle is one of the file, not empty, its size
\* fits in DATA_LENGTH, and its data begin in the file.
THEOREM TypeCorrect == Spec => []TypeOK
<1>1. ASSUME CInv PROVE TypeOK
  <2> USE <1>1 DEF CInv
  <2>1. arc \in Arcs /\ disk \in Disk /\ fh \in 0 .. Size + 2 * W32
    <3>1. arc \in Arcs /\ disk \in Disk /\ fh \in Nat /\ fh <= Size + 2 * W32
      BY DEF FInv, FTypes, Near
    <3>2. Size \in Nat /\ W32 \in Nat  BY <3>1, ArcShape, ArcAssumption
    <3> QED  BY <3>1, <3>2
  <2>2. /\ temp.holds \in Seq(Nat \X Nat) /\ temp.at \in Nat /\ temp.failed \in BOOLEAN
        /\ filler \in 0 .. Len(Recs) /\ given.by \subseteq Handle
    <3>1. temp \in [holds: Block, at: Nat, failed: BOOLEAN] /\ filler \in 0 .. Len(Recs)
          /\ given \in [by: SUBSET Handle, bytes: Block]
      BY DEF FInv, FTypes
    <3> QED  BY <3>1 DEF Block, Byte
  <2>3. ASSUME NEW h \in Handle, arec[h] # NoARecord
        PROVE  /\ arec[h].of \in 1 .. Len(Recs) /\ arec[h].size \in 1 .. W32 - 1
               /\ arec[h].off \in 0 .. Size + Len(Whole(arec[h].of))
    <3> DEFINE i == arec[h].of
    <3>1. Rightful(arec[h]) /\ W32 \in Nat \ {0}
      BY <2>3, ArcAssumption DEF FInv, AllRightful
    <3>2. i \in 1 .. Len(Recs) /\ arec[h].size = Recs[i].len % W32 /\ arec[h].size # 0
          /\ arec[h].off = Recs[i].head + (IF arc.mode = "gzip" THEN 0 ELSE Start(i))
      BY <3>1 DEF Rightful, Declared
    <3>3. Recs[i] \in ArcType /\ Start(i) \in Nat /\ Len(Recs) \in Nat
      BY <2>1, <3>2, ArcShape
    <3>4. arec[h].size \in 1 .. W32 - 1
      <4>1. Recs[i].len \in Nat  BY <3>3 DEF ArcType
      <4>2. Recs[i].len % W32 \in 0 .. W32 - 1  BY <3>1, <4>1, RemainderNat
      <4> HIDE DEF i
      <4> QED  BY <3>1, <3>2, <4>2
    <3>5. Start(i) <= Size
      <4>1. Start(Len(Recs) + 1) = Size /\ Len(Recs) + 1 \in i + 1 .. Len(Recs) + 1
        BY <2>1, <3>2, <3>3, ArcShape
      <4> HIDE DEF i
      <4>2. Start(i) < Start(Len(Recs) + 1)  BY <2>1, <3>2, <4>1, InOrder
      <4>3. Size \in Nat  BY <2>1, ArcShape
      <4> QED  BY <3>3, <4>1, <4>2, <4>3
    <3>6. Len(Whole(i)) = Recs[i].head + Recs[i].data + Recs[i].sep
      BY <2>1, <3>2, WholeShape
    <3>7. Recs[i].head \in Nat /\ Recs[i].data \in Nat /\ Recs[i].sep \in Nat
      BY <3>3 DEF ArcType
    <3>8. Size \in Nat  BY <2>1, ArcShape
    <3>9. arec[h].off \in 0 .. Size + Len(Whole(i))
      <4> DEFINE st == Start(i)
                 w  == Len(Whole(i))
                 hd == Recs[i].head
                 dt == Recs[i].data
                 sp == Recs[i].sep
      <4>1. st \in Nat /\ st <= Size  BY <3>3, <3>5
      <4>2. hd \in Nat /\ dt \in Nat /\ sp \in Nat  BY <3>7
      <4>3. w = hd + dt + sp  BY <3>6
      <4>4. arec[h].off = hd + st \/ arec[h].off = hd
        BY <3>2, <3>3, <3>7
      <4> HIDE DEF i, st, w, hd, dt, sp
      <4>5. w \in Nat /\ hd <= w  BY <4>2, <4>3
      <4>6. arec[h].off \in 0 .. Size + w  BY <3>8, <4>1, <4>2, <4>4, <4>5
      <4> QED  BY <4>6 DEF w
    <3> QED  BY <3>2, <3>4, <3>9
  <2>4. /\ pc \in {"open", "loop", "next", "set", "transfer", "store", "free_in",
                    "free_out", "end", "free"}
        /\ exit \in {-1, 0, 3, 5, 7, 13, 14} /\ wrec.size \in Nat /\ used \in 0 .. Limit
    BY DEF CTypes
  <2> QED  BY <2>1, <2>2, <2>3, <2>4 DEF TypeOK
<1> QED  BY <1>1, CInvCorrect, PTL

\* arc2warc returns 0 (arc2warc.c:301) only when all records of the ARC file are in the
\* WARC file, also where a declared length is too large for DATA_LENGTH.
THEOREM ZeroIsAllCorrect == Spec => []ZeroIsAll
<1>1. CInv => ZeroIsAll  BY DEF CInv, Progress, ZeroIsAll
<1> QED  BY <1>1, CInvCorrect, PTL

\* Each record that is registered gives its own data (afile.c:399, arecord.c:407), whatever
\* is done with the others: of a compressed ARC, as long as none was read after it.
THEOREM OwnContentCorrect ==
  ASSUME SmallRecords
  PROVE  Spec => []OwnContent
<1>1. ASSUME CInv PROVE OwnContent
  <2> SUFFICES ASSUME NEW h \in given.by, arc.mode = "plain" \/ filler = arec[h].of
               PROVE  given.bytes \o Rest(temp) =
                        IF arc.mode = "plain" THEN Data(arec[h].of)
                        ELSE SubSeq(Whole(arec[h].of), Recs[arec[h].of].head + 1,
                                    Len(Whole(arec[h].of)))
    BY DEF OwnContent
  <2> DEFINE i == arec[h].of
             s == temp.holds
  <2>1. FInv /\ h \in Handle /\ arc \in Arcs /\ arc.mode \in {"plain", "gzip"}
        /\ s \in Block /\ GivingTo(h)
    BY <1>1, ArcShape DEF CInv, FInv, FTypes, Giving
  <2>2. Rightful(arec[h]) /\ i # 0  BY <2>1 DEF FInv, AllRightful, NoARecord, GivingTo
  <2>3. i \in 1 .. Len(Recs) /\ Recs[i] \in ArcType /\ Start(i) \in Nat
    BY <2>1, <2>2, ArcShape DEF Rightful
  <2>4. given.bytes \o Rest(temp) = SubSeq(s, First(arec[h]) + 1, Len(s))
    BY <2>1, GivenAndRest
  <2>5. CASE arc.mode = "plain"
    <3>1. s = FileBytes(arec[h].off, arec[h].size)  BY <2>1, <2>5 DEF GivingTo
    <3>2. arec[h].off = Start(i) + Recs[i].head /\ arec[h].size = Recs[i].len
      BY <2>1, <2>2, <2>3, <2>5, DeclaredExactly, SMTT(30) DEF Rightful, ArcType
    <3>3. SubSeq(s, 0 + 1, Len(s)) = s  BY <2>1, All
    <3>4. First(arec[h]) = 0  BY <2>5 DEF First
    <3> HIDE DEF i, s
    <3>5. given.bytes \o Rest(temp) = Data(i)
      BY <2>4, <2>5, <3>1, <3>2, <3>3, <3>4 DEF Data
    <3> QED  BY <2>5, <3>5 DEF i
  <2>6. CASE arc.mode = "gzip"
    <3>1. filler = i  BY <2>6
    <3>2. s = Whole(i)  BY <2>1, <2>2, <2>6, <3>1, DataOffset
    <3>3. First(arec[h]) = Recs[i].head  BY <2>6 DEF First
    <3> QED  BY <2>4, <2>6, <3>2, <3>3
  <2> QED  BY <2>1, <2>5, <2>6
<1> QED  BY <1>1, CInvCorrect, PTL

\* The WARC file that arc2warc writes holds the first records of the ARC file, none left out,
\* each with exactly its data, and all whole unless arc2warc was killed, when the last may
\* not be: whatever fails, and wherever in its loop (arc2warc.c:219).
THEOREM ConvertedExactlyCorrect ==
  ASSUME SmallRecords
  PROVE  Spec => []ConvertedExactly
<1>1. Init => CInv /\ Content
  <2>1. Init => log = << >> /\ pc # "store"  BY DEF Init, Warc!Init
  <2> QED  BY <2>1, InitCInv DEF Content
<1>2. CInv /\ Content /\ [Next]_vars => (CInv /\ Content)'
  BY FileStep, TypesStep, ProgressStep, ContentStep DEF CInv
<1>3. ASSUME CInv, Content PROVE ConvertedExactly
  <2>1. Len(log) \in Nat  BY <1>3 DEF CInv, CTypes
  <2> QED  BY <1>3, <2>1 DEF CInv, Progress, Content, ConvertedExactly
<1> QED  BY <1>1, <1>2, <1>3, PTL DEF Spec

\* A regular ARC file is converted when the temporary disk has room: arc2warc fails only at
\* the WARC file (exit codes 3 and 14), or it is killed.
THEOREM RegularIsConvertedCorrect ==
  ASSUME SmallRecords
  PROVE  Spec => []RegularIsConverted
<1>1. Init => CInv /\ OnTrack
  <2>1. Init => FInit /\ log = << >> /\ exit = -1 /\ pc \notin Within
    BY DEF Init, Warc!Init, Within
  <2>2. FInit => fh = 0 /\ Start(1) = 0  BY ArcShape DEF FInit
  <2> QED  BY <2>1, <2>2, InitCInv DEF OnTrack
<1>2. CInv /\ OnTrack /\ [Next]_vars => (CInv /\ OnTrack)'
  BY FileStep, TypesStep, ProgressStep, OnTrackStep DEF CInv
<1>3. CInv /\ OnTrack => RegularIsConverted  BY DEF OnTrack, AllRegular, RegularIsConverted
<1> QED  BY <1>1, <1>2, <1>3, PTL DEF Spec

-----------------------------------------------------------------------------
(* The reader is a cursor over the records of a sound ARC file. *)

\* FH is where a record begins, or at the end of the file.
AtRecord == Sound => \E i \in 1 .. Len(Recs) + 1 : Start(i) = fh

\* The cursor when FH is at offset p.
CursorAt(p) ==
  IF \E i \in 1 .. Len(Recs) + 1 : Start(i) = p
    THEN CHOOSE i \in 1 .. Len(Recs) + 1 : Start(i) = p ELSE 0

\* It is at the record that begins there.
LEMMA CursorAtRecord ==
  ASSUME arc \in Arcs, NEW i \in 1 .. Len(Recs) + 1
  PROVE  CursorAt(Start(i)) = i
<1> DEFINE c == CHOOSE j \in 1 .. Len(Recs) + 1 : Start(j) = Start(i)
<1>1. CursorAt(Start(i)) = c  BY DEF CursorAt
<1>2. c \in 1 .. Len(Recs) + 1 /\ Start(c) = Start(i)  OBVIOUS
<1> HIDE DEF c
<1>3. c = i  BY <1>2, Distinct
<1> QED  BY <1>1, <1>3

\* A step that leaves the file alone moves the cursor by moving FH.
LEMMA CursorMoves ==
  ASSUME arc' = arc
  PROVE  Cursor = CursorAt(fh) /\ Cursor' = CursorAt(fh')
<1>1. Recs' = Recs /\ \A i : Start(i)' = Start(i)  BY SameFile
<1>2. Cursor = CursorAt(fh)  BY DEF Cursor, CursorAt
<1>3. Cursor' = CursorAt(fh')  BY <1>1 DEF Cursor, CursorAt
<1> QED  BY <1>2, <1>3

\* Such a step leaves what RecordStream says of the file.
LEMMA SameStreamFile ==
  ASSUME arc' = arc, disk' = disk
  PROVE  Sound' = Sound /\ UNCHANGED Stream!File
<1>1. Recs' = Recs /\ \A i : Declared(i)' = Declared(i)  BY SameFile
<1>2. Mute' = Mute  BY <1>1 DEF Mute
<1>3. Sound' = Sound  BY <1>1 DEF Sound
<1> QED  BY <1>1, <1>2, <1>3 DEF Stream!File

\* The record behind one handle is another.
LEMMA HoldingChanges ==
  ASSUME FInv, NEW h \in Handle, NEW r, arec' = [arec EXCEPT ![h] = r]
  PROVE  Holding' = [Holding EXCEPT ![h] = r.of]
<1>1. \A g \in Handle : arec'[g] = IF g = h THEN r ELSE arec[g]  BY DEF FInv, FTypes
<1>2. Holding' = [g \in Handle |-> IF g = h THEN r.of ELSE arec[g].of]
  <2>1. Holding' = [g \in Handle |-> arec'[g].of]  BY DEF Holding
  <2> QED  BY <1>1, <2>1
<1> QED  BY <1>2 DEF Holding

\* Of a sound file that is not compressed, a record declares the data it has, and the
\* next one begins one line feed behind them.
LEMMA SoundPlain ==
  ASSUME arc \in Arcs, Sound, arc.mode = "plain", NEW i \in 1 .. Len(Recs)
  PROVE  /\ Recs[i].kind # "bad"
         /\ Start(i) + Recs[i].head + Declared(i) + 1 = Start(i + 1)
<1>1. Recs[i] \in ArcType /\ W32 \in Nat \ {0}  BY ArcShape, ArcAssumption
<1>2. /\ Recs[i].head \in Nat /\ Recs[i].data \in Nat /\ Recs[i].sep \in Nat
      /\ Recs[i].len \in Nat
  BY <1>1 DEF ArcType
<1>3. /\ Recs[i].kind # "bad" /\ Recs[i].len = Recs[i].data /\ Recs[i].sep = 1
      /\ Recs[i].len < W32
  BY DEF Sound
<1>4. Declared(i) = Recs[i].data
  <2> DEFINE l == Recs[i].len
  <2>1. l \in Nat /\ l < W32  BY <1>2, <1>3
  <2> HIDE DEF l
  <2>2. l % W32 = l  BY <1>1, <2>1
  <2> QED  BY <1>3, <2>2 DEF l, Declared
<1>5. Start(i + 1) = Start(i) + Length(arc, Recs[i])  BY Tiling
<1>6. Length(arc, Recs[i]) = Recs[i].head + Recs[i].data + Recs[i].sep  BY DEF Length
<1>7. Start(i) \in Nat  BY ArcShape
<1> QED  BY <1>2, <1>3, <1>4, <1>5, <1>6, <1>7

\* Where nextRecord leaves FH and the handle: at the end of the file where they are; at
\* a record, FH behind it and, unless it is mute, the record behind the handle.
PassesOver(h, i) ==
  /\ fh = Start(i) /\ fh' = Start(i + 1)
  /\ IF i \in Mute THEN ret' = "nil" /\ arec' = arec
     ELSE /\ ret' = "record"
          /\ \E r : r.of = i /\ arec' = [arec EXCEPT ![h] = r]

LEMMA GivesOver ==
  ASSUME FInv, NEW h \in Handle, NEW i \in 1 .. Len(Recs), NEW off, Give(h, i, off)
  PROVE  IF i \in Mute THEN ret' = "nil" /\ arec' = arec
         ELSE /\ ret' = "record"
              /\ \E r : r.of = i /\ arec' = [arec EXCEPT ![h] = r]
<1>1. CASE Declared(i) = 0  BY <1>1 DEF Give, Mute
<1>2. CASE Declared(i) # 0
  <2> DEFINE r == [NoARecord EXCEPT !.of = i, !.off = off, !.size = Declared(i),
                                    !.dataf = arc.mode = "gzip"]
  <2>1. ret' = "record" /\ arec' = [arec EXCEPT ![h] = r]  BY <1>2 DEF Give
  <2>2. r.of = i  BY DEF NoARecord
  <2>3. i \notin Mute  BY <1>2 DEF Mute
  <2> HIDE DEF r
  <2> QED  BY <2>1, <2>2, <2>3
<1> QED  BY <1>1, <1>2

LEMMA NextRecordGoes ==
  ASSUME FInv, Sound, AtRecord, NEW h \in Handle, NextRecord(h)
  PROVE  /\ Asks(h)
         /\ \/ fh' = fh /\ ret' = "nil" /\ arec' = arec
            \/ \E i \in 1 .. Len(Recs) : PassesOver(h, i)
<1>1. arc \in Arcs /\ arc.mode \in {"plain", "gzip"} /\ Len(Recs) \in Nat \ {0}
      /\ Size \in Nat /\ Start(Len(Recs) + 1) = Size
  BY ArcShape DEF FInv, FTypes
<1>2. PICK c \in 1 .. Len(Recs) + 1 : Start(c) = fh  BY DEF AtRecord
<1>3. ASSUME At(fh) = 0 PROVE fh = Size
  <2>1. c \in 1 .. Len(Recs) => At(fh) = c  BY <1>1, <1>2, AtFinds
  <2>2. c \notin 1 .. Len(Recs)  BY <1>1, <1>3, <2>1
  <2>3. c = Len(Recs) + 1  BY <1>1, <2>2
  <2> QED  BY <1>1, <1>2, <2>3
<1>4. At(fh) # 0 => At(fh) \in 1 .. Len(Recs) /\ Start(At(fh)) = fh  BY AtGives
<1>5. CASE NextPlain(h)
  <2>1. PICK i : /\ i = At(fh) /\ i # 0 /\ arc.mode = "plain"
                 /\ fh' = fh + Recs[i].head + Declared(i) + 1
                 /\ Give(h, i, fh + Recs[i].head)
    BY <1>5 DEF NextPlain
  <2>2. i \in 1 .. Len(Recs) /\ Start(i) = fh  BY <1>4, <2>1
  <2>3. Recs[i].kind # "bad" /\ fh' = Start(i + 1)  BY <1>1, <2>1, <2>2, SoundPlain
  <2>4. PassesOver(h, i)  BY <2>1, <2>2, <2>3, GivesOver DEF PassesOver
  <2> QED  BY <1>5, <2>2, <2>4 DEF NextPlain
<1>6. CASE NextGarbage(h)
  <2>1. At(fh) = 0  BY <1>1, <1>4, <1>6, SoundPlain DEF NextGarbage
  <2>2. fh = Size  BY <1>3, <2>1
  <2> QED  BY <1>1, <1>6, <2>2 DEF NextGarbage
<1>7. CASE NextGzip(h)
  <2>1. PICK i : /\ i = At(fh) /\ i # 0 /\ arc.mode = "gzip" /\ fh' = Start(i + 1)
                 /\ Recs[i].kind # "bad" => Give(h, i, Recs[i].head)
    BY <1>7 DEF NextGzip
  <2>2. i \in 1 .. Len(Recs) /\ Start(i) = fh  BY <1>4, <2>1
  <2>3. Recs[i].kind # "bad"  BY <2>2 DEF Sound
  <2>4. PassesOver(h, i)  BY <2>1, <2>2, <2>3, GivesOver DEF PassesOver
  <2> QED  BY <1>7, <2>2, <2>4 DEF NextGzip
<1>8. CASE NextNotInflated(h)
  <2>1. arc.mode = "gzip"  BY <1>8 DEF NextNotInflated
  <2>2. disk # "full" /\ \A i \in 1 .. Len(Recs) : Recs[i].inflates  BY <2>1 DEF Sound
  <2>3. At(fh) = 0  BY <1>4, <1>8, <2>2 DEF NextNotInflated
  <2>4. fh = Size  BY <1>3, <2>3
  <2> QED  BY <1>1, <1>8, <2>3, <2>4 DEF NextNotInflated
<1>9. ~NextNotWritten(h) /\ ~NextAborts(h)
  BY DEF Sound, NextNotWritten, NextAborts, FlushFails
<1> QED  BY <1>5, <1>6, <1>7, <1>8, <1>9 DEF NextRecord

\* No call leaves FH elsewhere.
LEMMA AtRecordStep ==
  ASSUME FInv, AtRecord, FileCall
  PROVE  AtRecord'
<1> SUFFICES ASSUME Sound'  PROVE \E i \in 1 .. Len(Recs)' + 1 : Start(i)' = fh'
  BY DEF AtRecord
<1>1. arc' = arc /\ disk' = disk  BY FileStays
<1>2. Sound /\ Recs' = Recs /\ \A i : Start(i)' = Start(i)
  BY <1>1, SameStreamFile, SameFile
<1>3. arc \in Arcs /\ Len(Recs) \in Nat \ {0} /\ Start(1) = 0
  BY ArcShape DEF FInv, FTypes
<1>4. CASE fh' = fh  BY <1>2, <1>4 DEF AtRecord
<1>5. CASE fh' = 0
  <2>1. 1 \in 1 .. Len(Recs) + 1  BY <1>3
  <2> QED  BY <1>2, <1>3, <1>5, <2>1
<1>6. ASSUME NEW i \in 1 .. Len(Recs), fh' = Start(i) \/ fh' = Start(i + 1)
      PROVE  \E j \in 1 .. Len(Recs)' + 1 : Start(j)' = fh'
  <2>1. i \in 1 .. Len(Recs) + 1 /\ i + 1 \in 1 .. Len(Recs) + 1  BY <1>3
  <2> QED  BY <1>2, <1>6, <2>1
<1>7. ASSUME NEW h \in Handle, NextRecord(h)
      PROVE  fh' = fh \/ \E i \in 1 .. Len(Recs) : fh' = Start(i + 1)
  BY <1>2, <1>7, NextRecordGoes DEF PassesOver
<1>8. \/ fh' = fh \/ fh' = 0
      \/ \E i \in 1 .. Len(Recs) : fh' = Start(i) \/ fh' = Start(i + 1)
  BY <1>7 DEF FileCall, fvars, HasMore, FlushFails, Seek, Register, GetContent, Release, Transfer
<1> QED  BY <1>4, <1>5, <1>6, <1>8

\* What a call says of a sound file it says as RecordStream does.
LEMMA Promised ==
  ASSUME FInv, Sound, AtRecord, FileCall
  PROVE  Stream!Promise \/ UNCHANGED <<Cursor, Holding, ret>>
<1> USE DEF Stream!Promise, Stream!Answer
<1>0. /\ arc \in Arcs /\ Len(Recs) \in Nat \ {0} /\ Size \in Nat \ {0} /\ Start(1) = 0
      /\ Start(Len(Recs) + 1) = Size
  BY ArcShape DEF FInv, FTypes
<1>a. arc' = arc /\ disk' = disk /\ UNCHANGED Stream!File  BY FileStays, SameStreamFile
<1>b. /\ Cursor = CursorAt(fh) /\ Cursor' = CursorAt(fh') /\ (fh' = fh => Cursor' = Cursor)
  BY <1>a, CursorMoves
<1>c. arec' = arec => Holding' = Holding  BY DEF Holding
<1>1. CASE UNCHANGED fvars  BY <1>1, <1>b, <1>c DEF fvars
<1>2. CASE HasMore
  <2>1. Holding' = Holding  BY <1>2, <1>c DEF HasMore
  <2>2. PICK i \in 1 .. Len(Recs) + 1 : Start(i) = fh  BY DEF AtRecord
  <2>3. Cursor = i  BY <1>0, <1>b, <2>2, CursorAtRecord
  <2>4. CASE fh = Size
    <3>1. i = Len(Recs) + 1
      <4>1. Len(Recs) + 1 \in 1 .. Len(Recs) + 1  BY <1>0
      <4> QED  BY <1>0, <2>2, <2>4, <4>1, Distinct
    <3>2. fh' = Start(1) /\ ret' = "no"  BY <1>0, <1>2, <2>4 DEF HasMore
    <3>3. 1 \in 1 .. Len(Recs) + 1  BY <1>0
    <3>4. Cursor' = 1  BY <1>0, <1>b, <3>2, <3>3, CursorAtRecord
    <3>5. Stream!Over  BY <1>a, <2>1, <2>3, <3>1, <3>2, <3>4 DEF Stream!Over
    <3> QED  BY <3>5
  <2>5. CASE fh # Size
    <3>1. i <= Len(Recs)
      <4>1. i # Len(Recs) + 1  BY <1>0, <2>2, <2>5
      <4> QED  BY <1>0, <4>1
    <3>2. fh' = fh /\ ret' = "yes"  BY <1>2, <2>5 DEF HasMore
    <3>3. Stream!More  BY <1>a, <1>b, <2>1, <2>3, <3>1, <3>2 DEF Stream!More
    <3> QED  BY <3>3
  <2> QED  BY <2>4, <2>5
<1>3. ASSUME NEW i \in 1 .. Len(Recs), Seek(i)  PROVE Stream!Promise
  <2>1. Holding' = Holding /\ ret' = "sought" /\ fh' = Start(i)  BY <1>3, <1>c DEF Seek
  <2>2. i \in 1 .. Len(Recs) + 1  BY <1>0
  <2>3. Cursor' = i  BY <1>0, <1>b, <2>1, <2>2, CursorAtRecord
  <2>4. Stream!Seek(i)  BY <1>a, <2>1, <2>3 DEF Stream!Seek
  <2> QED  BY <2>4
<1>4. ASSUME NEW h \in Handle, NextRecord(h)  PROVE Stream!Promise
  <2>1. CASE fh' = fh /\ ret' = "nil" /\ arec' = arec
    <3>1. Stream!Nothing  BY <1>a, <1>b, <1>c, <2>1 DEF Stream!Nothing
    <3> QED  BY <1>4, <3>1
  <2>2. ASSUME NEW i \in 1 .. Len(Recs), PassesOver(h, i)  PROVE Stream!Promise
    <3>1. i \in 1 .. Len(Recs) + 1 /\ i + 1 \in 1 .. Len(Recs) + 1  BY <1>0
    <3>2. Cursor = i /\ Cursor' = Cursor + 1
      BY <1>0, <1>b, <2>2, <3>1, CursorAtRecord DEF PassesOver
    <3>3. CASE i \in Mute
      <4>1. Stream!Nothing  BY <1>a, <1>c, <2>2, <3>2, <3>3 DEF Stream!Nothing, PassesOver
      <4> QED  BY <1>4, <4>1
    <3>4. CASE i \notin Mute
      <4>1. PICK r : r.of = i /\ arec' = [arec EXCEPT ![h] = r]
        BY <2>2, <3>4 DEF PassesOver
      <4>2. ret' = "record"  BY <2>2, <3>4 DEF PassesOver
      <4>3. Holding' = [Holding EXCEPT ![h] = i]  BY <1>4, <4>1, HoldingChanges
      <4>4. Holding[h] = 0
        <5>1. arec[h] = NoARecord  BY <1>4, NextRecordGoes DEF Asks
        <5> QED  BY <1>4, <5>1 DEF Holding, NoARecord
      <4>5. Stream!Read(h)  BY <1>a, <3>2, <3>4, <4>2, <4>3, <4>4 DEF Stream!Read
      <4> QED  BY <1>4, <4>5
    <3> QED  BY <3>3, <3>4
  <2> QED  BY <1>4, <2>1, <2>2, NextRecordGoes
<1>5. ASSUME NEW h \in Handle, Register(h) \/ Transfer(h)  PROVE Stream!Promise
  <2>1. fh' = fh /\ ret' \in {"ok", "error"} /\ arec[h].of # 0
    BY <1>5 DEF Register, Transfer
  <2>2. \E r : r.of = arec[h].of /\ arec' = [arec EXCEPT ![h] = r]
    <3>1. arec[h] \in ARecordType  BY <1>5 DEF FInv, FTypes
    <3>2. ASSUME NEW d  PROVE [arec[h] EXCEPT !.cback = TRUE, !.dataf = d].of = arec[h].of
      BY <3>1 DEF ARecordType
    <3>3. [arec[h] EXCEPT !.cback = TRUE].of = arec[h].of  BY <3>1 DEF ARecordType
    <3>4. \/ arec' = [arec EXCEPT ![h] = [arec[h] EXCEPT !.cback = TRUE]]
          \/ \E d : arec' = [arec EXCEPT ![h] = [arec[h] EXCEPT !.cback = TRUE, !.dataf = d]]
      <4>1. arec \in [Handle -> ARecordType]  BY DEF FInv, FTypes
      <4>2. \/ arec' = [arec EXCEPT ![h].cback = TRUE]
            \/ \E d : arec' = [arec EXCEPT ![h].cback = TRUE, ![h].dataf = d]
        BY <1>5 DEF Register, Transfer
      <4> QED  BY <1>5, <4>1, <4>2
    <3> QED  BY <3>2, <3>3, <3>4
  <2>3. Holding' = Holding
    <3>1. PICK r : r.of = arec[h].of /\ arec' = [arec EXCEPT ![h] = r]  BY <2>2
    <3>2. Holding' = [Holding EXCEPT ![h] = arec[h].of]  BY <1>5, <3>1, HoldingChanges
    <3> QED  BY <3>2 DEF Holding
  <2>4. Holding[h] # 0  BY <1>5, <2>1 DEF Holding
  <2>5. Stream!Use(h) \/ Stream!Fail(h)
    BY <1>a, <1>b, <2>1, <2>3, <2>4 DEF Stream!Use, Stream!Fail
  <2> QED  BY <1>5, <2>5
<1>6. ASSUME NEW h \in Handle, GetContent(h)  PROVE Stream!Promise
  <2>1. arec' = arec /\ fh' = fh /\ ret' \in {"error", "content"}  BY <1>6 DEF GetContent
  <2>2. Holding[h] # 0
    <3>1. arec[h] # NoARecord  BY <1>6 DEF GetContent, NoARecord
    <3>2. arec[h].of \in 1 .. Len(Recs)  BY <1>6, <3>1 DEF FInv, AllRightful, Rightful
    <3> QED  BY <1>0, <1>6, <3>2 DEF Holding
  <2>3. Stream!Use(h) \/ Stream!Fail(h)
    BY <1>a, <1>b, <1>c, <2>1, <2>2 DEF Stream!Use, Stream!Fail
  <2> QED  BY <1>6, <2>3
<1>7. ASSUME NEW h \in Handle, Release(h)  PROVE Stream!Promise
  <2>1. Holding' = [Holding EXCEPT ![h] = NoARecord.of]  BY <1>7, HoldingChanges DEF Release
  <2>2. Stream!Release(h)
    BY <1>7, <1>a, <1>b, <2>1 DEF Stream!Release, Release, NoARecord
  <2> QED  BY <1>7, <2>2
<1>8. ~FlushFails  BY DEF Sound, FlushFails
<1> QED  BY <1>1, <1>2, <1>3, <1>4, <1>5, <1>6, <1>7, <1>8 DEF FileCall

\* AFile_hasMoreRecords, AFile_nextRecord, AFile_seek, AFile_register and
\* ARecord_transferContent are together a cursor over the records of a sound ARC file,
\* for arc2warc and for any other application: each is given once, in order, and none
\* but these moves it (afile.c:114, 146, 399; arecord.c:407).
THEOREM StreamCorrect == Spec => StreamSpec
<1>1. Init => Stream!Init /\ FInv /\ AtRecord
  <2> SUFFICES ASSUME Init PROVE Stream!Init /\ FInv /\ AtRecord  OBVIOUS
  <2>1. FInv /\ arc \in Arcs /\ fh = 0 /\ ret = "none"
        /\ arec = [h \in Handle |-> NoARecord]
    BY FileInit DEF Init, FInit
  <2>2. Len(Recs) \in Nat \ {0} /\ Start(1) = 0  BY <2>1, ArcShape
  <2>3. 1 \in 1 .. Len(Recs) + 1  BY <2>2
  <2>4. AtRecord  BY <2>1, <2>2, <2>3 DEF AtRecord
  <2>5. Cursor = 1
    <3>1. Cursor = CursorAt(fh)  BY DEF Cursor, CursorAt
    <3> QED  BY <2>1, <2>2, <2>3, <3>1, CursorAtRecord
  <2>6. Holding = [h \in Handle |-> 0]  BY <2>1 DEF Holding, NoARecord
  <2>7. Sound \in BOOLEAN /\ Mute \subseteq 1 .. Len(Recs)  BY DEF Sound, Mute
  <2> QED  BY <2>1, <2>2, <2>4, <2>5, <2>6, <2>7 DEF Stream!Init
<1>2. FInv /\ AtRecord /\ [Next]_vars =>
        FInv' /\ AtRecord' /\ [Stream!Next]_(Stream!rvars)
  <2> SUFFICES ASSUME FInv, AtRecord, [Next]_vars
               PROVE  FInv' /\ AtRecord' /\ [Stream!Next]_(Stream!rvars)
    OBVIOUS
  <2>1. FileCall /\ FInv' /\ AtRecord'  BY OneCall, FileStep, AtRecordStep
  <2>2. UNCHANGED Stream!File  BY <2>1, FileStays, SameStreamFile
  <2>3. Sound => Stream!Promise \/ UNCHANGED <<Cursor, Holding, ret>>  BY <2>1, Promised
  <2>4. CASE Stream!Next  BY <2>1, <2>4
  <2>5. CASE ~ Stream!Next
    <3>1. Sound /\ ~ Stream!Promise  BY <2>5 DEF Stream!Next
    <3>2. UNCHANGED <<Cursor, Holding, ret>>  BY <2>3, <3>1
    <3> QED  BY <2>1, <2>2, <3>2 DEF Stream!rvars, Stream!File
  <2> QED  BY <2>4, <2>5
<1> QED  BY <1>1, <1>2, PTL DEF Spec, StreamSpec, Stream!Spec

=============================================================================
