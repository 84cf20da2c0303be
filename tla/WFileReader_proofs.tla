-------------------------- MODULE WFileReader_proofs --------------------------
(***************************************************************************)
(* Proofs about WFileReader, and about WarcValidator, which calls it, for   *)
(* every set of files, any number of handles and any sequence of calls.     *)
(***************************************************************************)
EXTENDS WarcValidator, SequenceFacts

-----------------------------------------------------------------------------
(* Arithmetic and the records of a file. *)

\* A remainder lies between 0 and the modulus.
LEMMA ModRange ==
  ASSUME NEW a \in Int, NEW n \in Nat \ {0}
  PROVE  a % n \in Nat /\ a % n < n
OBVIOUS

\* A number below the modulus is its own remainder.
LEMMA ModSmall ==
  ASSUME NEW a \in Nat, NEW n \in Nat \ {0}, a < n
  PROVE  a % n = a
OBVIOUS

\* A product of naturals is one.
LEMMA Product ==
  ASSUME NEW a \in Nat, NEW b \in Nat
  PROVE  a * b \in Nat
OBVIOUS

\* The file behind FH has records, and their fields are sizes.
LEMMA FileShape ==
  ASSUME file \in Files
  PROVE  /\ Size \in Nat /\ Len(Recs) \in Nat \ {0}
         /\ 1 \in 1 .. Len(Recs) /\ Len(Recs) \in 1 .. Len(Recs)
         /\ \A i \in 1 .. Len(Recs) :
              /\ Recs[i] \in StoredType
              /\ Recs[i].hdr > 0
              /\ Recs[i].kind = "plain"
                   => Recs[i].len = Recs[i].hdr + Recs[i].data + TrailerLen
              /\ Recs[i].kind # "plain" => Recs[i].len > GzipHeader
         /\ Recs[1].off = 0
<1>1. file.size \in Nat /\ file.recs \in Seq(StoredType) /\ file.recs # << >>
  BY FilesAssumption
<1>2. Len(Recs) \in Nat \ {0}  BY <1>1 DEF Recs
<1>3. \A i \in 1 .. Len(Recs) : Recs[i] \in StoredType  BY <1>1 DEF Recs
<1>4. \A i \in 1 .. Len(Recs) :
        /\ Recs[i].hdr > 0
        /\ Recs[i].kind = "plain"
             => Recs[i].len = Recs[i].hdr + Recs[i].data + TrailerLen
        /\ Recs[i].kind # "plain" => Recs[i].len > GzipHeader
  BY FilesAssumption DEF Recs
<1>5. Recs[1].off = 0  BY <1>2, FilesAssumption DEF Recs
<1> QED  BY <1>1, <1>2, <1>3, <1>4, <1>5 DEF Size

\* The fields of a record are naturals.
LEMMA RecordShape ==
  ASSUME file \in Files, NEW i \in 1 .. Len(Recs)
  PROVE  /\ Recs[i].off \in Nat /\ Recs[i].hdr \in Nat /\ Recs[i].data \in Nat
         /\ Recs[i].len \in Nat
         /\ Recs[i].kind \in {"plain", "extra", "noextra", "named"}
         /\ Recs[i].reads \in {"all", "head", "none"}
         /\ HeaderLen(Recs[i]) \in Nat
         /\ Recs[i].kind # "plain" => HeaderLen(Recs[i]) < Recs[i].len
BY FileShape, ReaderAssumption, SMTT(30) DEF StoredType, HeaderLen

\* The end of a member is found at some offset.
LEMMA AdjustedTyped ==
  ASSUME file \in Files, NEW i \in 1 .. Len(Recs)
  PROVE  Adjusted(Recs[i]) \subseteq Nat
<1> DEFINE m == Recs[i]
<1>1. m.off \in Nat /\ m.len \in Nat /\ Size \in Nat /\ (m.kind = "named" => m.len > 0)
  BY FileShape, RecordShape
<1>2. Counted(m) \in Nat  BY <1>1 DEF Counted
<1> HIDE DEF m
<1>3. \A p \in m.off + m.len .. Size : p \in Nat  BY <1>1
<1>4. Adjusted(m) \subseteq Nat  BY <1>2, <1>3 DEF Adjusted
<1> QED  BY <1>4 DEF m

\* Of two records the later one begins where the earlier one ends, or behind.
LEMMA LaterBehind ==
  ASSUME file \in Files, NEW i \in 1 .. Len(Recs), NEW j \in i + 1 .. Len(Recs)
  PROVE  Recs[i].off + Recs[i].len <= Recs[j].off
<1>1. Len(Recs) \in Nat  BY FileShape
<1> DEFINE T == {d \in Nat : i + 1 + d <= Len(Recs)
                                => Recs[i].off + Recs[i].len <= Recs[i + 1 + d].off}
<1>2. \A k \in 2 .. Len(Recs) : Recs[k].off = Recs[k - 1].off + Recs[k - 1].len
  <2> SUFFICES ASSUME NEW k \in 2 .. Len(Recs)
               PROVE  Recs[k].off = Recs[k - 1].off + Recs[k - 1].len
    OBVIOUS
  <2>1. k \in 1 .. Len(Recs) /\ k # 1  BY <1>1
  <2> QED  BY <2>1, FilesAssumption DEF Recs
<1>3. \A d \in Nat : d \in T
  <2>1. 0 \in T
    <3>1. ASSUME i + 1 <= Len(Recs) PROVE Recs[i + 1].off = Recs[i].off + Recs[i].len
      <4>1. i + 1 \in 2 .. Len(Recs) /\ (i + 1) - 1 = i  BY <1>1, <3>1
      <4> QED  BY <1>2, <4>1
    <3>2. Recs[i].off \in Nat /\ Recs[i].len \in Nat  BY RecordShape
    <3> QED  BY <3>1, <3>2
  <2>2. ASSUME NEW d \in Nat, d \in T PROVE d + 1 \in T
    <3> SUFFICES ASSUME i + 1 + (d + 1) <= Len(Recs)
                 PROVE  Recs[i].off + Recs[i].len <= Recs[i + 1 + (d + 1)].off
      OBVIOUS
    <3> DEFINE k == i + 1 + d
    <3>1. /\ k \in 1 .. Len(Recs) /\ i + 1 + (d + 1) = k + 1
          /\ k + 1 \in 2 .. Len(Recs) /\ (k + 1) - 1 = k
      BY <1>1
    <3>2. Recs[i].off + Recs[i].len <= Recs[k].off  BY <1>1, <2>2, <3>1
    <3> HIDE DEF k
    <3>3. Recs[k + 1].off = Recs[k].off + Recs[k].len  BY <1>2, <3>1
    <3>4. /\ Recs[i].off \in Nat /\ Recs[i].len \in Nat
          /\ Recs[k].off \in Nat /\ Recs[k].len \in Nat
      BY <3>1, RecordShape
    <3> DEFINE end == Recs[i].off + Recs[i].len
               off == Recs[k].off
               len == Recs[k].len
    <3>5. end <= Recs[k + 1].off
      <4>1. end \in Nat /\ off \in Nat /\ len \in Nat /\ end <= off  BY <3>2, <3>4, SMTT(30)
      <4>2. Recs[k + 1].off = off + len  BY <3>3
      <4> HIDE DEF end, off, len
      <4>3. end <= off + len  BY <4>1
      <4> QED  BY <4>2, <4>3
    <3> QED  BY <3>1, <3>5
  <2> HIDE DEF T
  <2> QED  BY <2>1, <2>2, Induction
<1>4. j - (i + 1) \in Nat /\ i + 1 + (j - (i + 1)) = j /\ j <= Len(Recs)  BY <1>1
<1>5. j - (i + 1) \in T  BY <1>3, <1>4
<1> QED  BY <1>4, <1>5

\* An uncompressed record is header, data and trailer.
LEMMA PlainShape ==
  ASSUME file \in Files, NEW i \in 1 .. Len(Recs), Recs[i].kind = "plain"
  PROVE  Recs[i].len = Recs[i].hdr + Recs[i].data + TrailerLen
BY FileShape

\* What StartsAt finds is a record that begins there.
LEMMA StartsAtFinds ==
  ASSUME NEW p, NEW kinds, StartsAt(p, kinds) # 0
  PROVE  /\ StartsAt(p, kinds) \in 1 .. Len(Recs)
         /\ Recs[StartsAt(p, kinds)].off = p
         /\ Recs[StartsAt(p, kinds)].kind \in kinds
BY DEF StartsAt

\* Where a record of one of the kinds begins, StartsAt finds one.
LEMMA StartsAtComplete ==
  ASSUME file \in Files, NEW kinds,
         NEW i \in 1 .. Len(Recs), Recs[i].kind \in kinds
  PROVE  StartsAt(Recs[i].off, kinds) # 0
<1> DEFINE found == {j \in 1 .. Len(Recs) : Recs[j].off = Recs[i].off /\ Recs[j].kind \in kinds}
<1>1. i \in found  OBVIOUS
<1>2. (CHOOSE j \in found : TRUE) \in found  BY <1>1
<1>3. (CHOOSE j \in found : TRUE) # 0  BY <1>2, FileShape
<1> QED  BY <1>1, <1>3 DEF StartsAt

\* FH ends up at a natural offset.
LEMMA UptoNat ==
  ASSUME file \in Files, NEW p \in Nat, NEW n \in Nat
  PROVE  Upto(p, n) \in Nat /\ Short(p, n) \in BOOLEAN
<1>1. Upto(p, n) \in Nat  BY FileShape DEF Upto, Least
<1>2. Short(p, n) \in BOOLEAN  BY DEF Short
<1> QED  BY <1>1, <1>2

\* A member that does not inflate leaves FH at a natural offset.
LEMMA StopsInType ==
  ASSUME file \in Files, NEW i \in 1 .. Len(Recs), StopsIn(Recs[i])
  PROVE  pos' \in Nat /\ eof' \in BOOLEAN
<1> DEFINE body == Recs[i].off + HeaderLen(Recs[i])
<1>1. body \in Nat  BY RecordShape
<1>2. PICK k \in Nat : /\ pos' = Upto(body, k * BufLen)
                       /\ eof' = Short(body, k * BufLen)
  <2>1. \A k \in (IF Recs[i].reads = "head" THEN 2 ELSE 1) .. Recs[i].len : k \in Nat
    BY RecordShape
  <2> QED  BY <2>1 DEF StopsIn
<1>3. k * BufLen \in Nat  BY Product, ReaderAssumption
<1> QED  BY <1>1, <1>2, <1>3, UptoNat

-----------------------------------------------------------------------------
(* The type invariant. *)

\* A step that keeps the record behind every handle, or gives one handle a
\* record or takes it away, keeps the types, if FH and the answer do.
LEMMA StepType ==
  ASSUME TypeOK, file' = file, pos' \in Nat, eof' \in BOOLEAN,
         alive' \in BOOLEAN, ret' \in Results,
         heard' \in [m: 0 .. Len(Recs), again: BOOLEAN, from: Nat, to: Nat],
         \/ rec' = rec
         \/ \E h \in Handle, r \in RecState :
              /\ r.m = 0 => r = NoRec
              /\ rec' = [rec EXCEPT ![h] = r]
  PROVE  TypeOK'
<1>1. Recs' = Recs  BY DEF Recs
<1>2. rec' \in [Handle -> RecState]  BY DEF TypeOK
<1>3. \A h \in Handle : rec'[h].m = 0 => rec'[h] = NoRec
  BY DEF TypeOK
<1>4. RecState' = RecState  BY <1>1 DEF RecState
<1> QED  BY <1>1, <1>2, <1>3, <1>4 DEF TypeOK

\* Silence and the states a record starts and ends in are well typed.
LEMMA Constants ==
  ASSUME TypeOK
  PROVE  /\ Silence \in [m: 0 .. Len(Recs), again: BOOLEAN, from: Nat, to: Nat]
         /\ NoTemp \in [there: BOOLEAN, base: Nat, len: Nat, at: Nat]
         /\ NoRec \in RecState
BY FileShape, ReaderAssumption DEF TypeOK, Silence, NoTemp, NoRec, RecState

\* A temporary file is well typed.
LEMMA TempType ==
  ASSUME NEW b \in Nat, NEW l \in Nat, NEW a \in Nat
  PROVE  /\ Temp(b, l, a) \in [there: BOOLEAN, base: Nat, len: Nat, at: Nat]
         /\ Temp(b, l, a).there /\ Temp(b, l, a).base = b
         /\ Temp(b, l, a).len = l /\ Temp(b, l, a).at = a
BY DEF Temp

\* A record fresh from nextRecord is well typed.
LEMMA FreshType ==
  ASSUME TypeOK, NEW i \in 1 .. Len(Recs),
         NEW t \in [there: BOOLEAN, base: Nat, len: Nat, at: Nat]
  PROVE  /\ Fresh(i, t) \in RecState /\ Fresh(i, t).m = i
         /\ Fresh(i, t).regs = 0 /\ Fresh(i, t).tmp = t
BY ReaderAssumption DEF Fresh, RecState

\* What a call of nextRecord does to the record behind its handle.
LEMMA NextRecordGives ==
  ASSUME TypeOK, NEW h \in Handle, NextRecord(h)
  PROVE  \/ rec' = rec
         \/ \E i \in 1 .. Len(Recs) :
              LET t == IF Recs[i].kind \in Slow
                         THEN Temp(0, Recs[i].hdr + Recs[i].data, 0) ELSE NoTemp
              IN  rec' = [rec EXCEPT ![h] = Fresh(i, t)]
<1>1. CASE NextAtEof(h)  BY <1>1 DEF NextAtEof, NoRecord
<1>2. CASE NextGarbage(h)  BY <1>2 DEF NextGarbage, NoRecord
<1>3. CASE NextHangs(h)  BY <1>3 DEF NextHangs
<1>4. CASE NextNoMember(h)  BY <1>4 DEF NextNoMember, NoRecord
<1>5. CASE NextNoTemp(h)  BY <1>5 DEF NextNoTemp, NoRecord
<1>6. CASE NextPlain(h)
  <2> DEFINE i == StartsAt(pos, {"plain"})
  <2>1. i # 0 /\ (rec' = rec \/ rec' = [rec EXCEPT ![h] = Fresh(i, NoTemp)])
    BY <1>6 DEF NextPlain, NoRecord, Give
  <2>2. i \in 1 .. Len(Recs) /\ Recs[i].kind \notin Slow
    BY <2>1, StartsAtFinds DEF Slow
  <2> QED  BY <2>1, <2>2
<1>7. CASE NextFast(h)
  <2> DEFINE i == StartsAt(pos, {"extra"})
  <2>1. i # 0 /\ (rec' = rec \/ rec' = [rec EXCEPT ![h] = Fresh(i, NoTemp)])
    BY <1>7 DEF NextFast, NoRecord, Give
  <2>2. i \in 1 .. Len(Recs) /\ Recs[i].kind \notin Slow
    BY <2>1, StartsAtFinds DEF Slow
  <2> QED  BY <2>1, <2>2
<1>8. CASE NextSlow(h)
  <2> DEFINE i == StartsAt(pos, Slow)
  <2>1. /\ i # 0
        /\ \/ rec' = rec
           \/ rec' = [rec EXCEPT ![h] =
                Fresh(i, Temp(0, Recs[i].hdr + Recs[i].data, 0))]
    BY <1>8 DEF NextSlow, NoRecord, Give
  <2>2. i \in 1 .. Len(Recs) /\ Recs[i].kind \in Slow
    BY <2>1, StartsAtFinds
  <2> QED  BY <2>1, <2>2
<1> QED  BY <1>1, <1>2, <1>3, <1>4, <1>5, <1>6, <1>7, <1>8 DEF NextRecord

\* nextRecord leaves FH at a natural offset and answers.
LEMMA NextRecordMoves ==
  ASSUME TypeOK, NEW h \in Handle, NextRecord(h)
  PROVE  /\ pos' \in Nat /\ eof' \in BOOLEAN /\ alive' \in BOOLEAN
         /\ ret' \in Results /\ Quiet
<1> USE DEF Ask, Quiet
<1>0. file \in Files /\ pos \in Nat /\ alive \in BOOLEAN /\ eof \in BOOLEAN
  BY DEF TypeOK
<1>1. CASE NextAtEof(h)  BY <1>0, <1>1 DEF NextAtEof, NoRecord, Results
<1>2. CASE NextGarbage(h)
  <2>1. CASE pos' \in pos .. Size - 1 /\ eof' = FALSE
    <3>1. pos' \in Nat  BY <1>0, <2>1
    <3> QED  BY <1>0, <1>2, <2>1, <3>1 DEF NextGarbage, NoRecord, Results
  <2>2. CASE pos' = Upto(pos, Size) /\ eof' = TRUE
    <3>1. pos' \in Nat  BY <1>0, <2>2, FileShape, UptoNat
    <3> QED  BY <1>0, <1>2, <2>2, <3>1 DEF NextGarbage, NoRecord, Results
  <2> QED  BY <1>2, <2>1, <2>2 DEF NextGarbage
<1>3. CASE NextHangs(h)
  BY <1>0, <1>3, FileShape DEF NextHangs, Results
<1>4. CASE NextNoMember(h)
  <2>1. PICK n \in CheckLen .. GzipHeader : pos' = Upto(pos, n) /\ eof' = Short(pos, n)
    BY <1>4 DEF NextNoMember
  <2>2. n \in Nat  BY ReaderAssumption
  <2>3. pos' \in Nat /\ eof' \in BOOLEAN  BY <1>0, <2>1, <2>2, UptoNat
  <2> QED  BY <1>0, <1>4, <2>3 DEF NextNoMember, NoRecord, Results
<1>5. CASE NextNoTemp(h)  BY <1>0, <1>5 DEF NextNoTemp, NoRecord, Results
<1>6. CASE NextPlain(h)
  <2> DEFINE i   == StartsAt(pos, {"plain"})
             end == pos + Recs[i].hdr + Recs[i].data
  <2>1. /\ i # 0 /\ pos' = Upto(end, TrailerLen) /\ eof' = Short(end, TrailerLen)
        /\ alive' = alive /\ ret' \in Results
    BY <1>6 DEF NextPlain, NoRecord, Give, Results
  <2>2. end \in Nat  BY <1>0, <2>1, StartsAtFinds, RecordShape, SMTT(30)
  <2>3. pos' \in Nat /\ eof' \in BOOLEAN
    BY <1>0, <2>1, <2>2, UptoNat, ReaderAssumption
  <2> QED  BY <1>0, <1>6, <2>1, <2>3 DEF NextPlain
<1>7. CASE NextFast(h)
  <2> DEFINE i  == StartsAt(pos, {"extra"})
             to == (pos + SizeField(Recs[i].len)) % W64
  <2>1. i \in 1 .. Len(Recs)  BY <1>7, StartsAtFinds DEF NextFast
  <2>2. to \in Nat
    <3>1. Recs[i].len % W32 \in Nat
      BY <1>0, <2>1, RecordShape, ModRange, ReaderAssumption
    <3>2. SizeField(Recs[i].len) \in Int
      BY <3>1, ReaderAssumption DEF SizeField
    <3> QED  BY <1>0, <3>2, ModRange, ReaderAssumption
  <2>3. CASE Recs[i].reads = "none" /\ StopsIn(Recs[i]) /\ NoRecord
    BY <1>0, <1>7, <2>1, <2>3, StopsInType DEF NextFast, NoRecord, Results
  <2>4. CASE Abort
    BY <1>0, <1>7, <2>4 DEF NextFast, Abort, Results
  <2>5. CASE /\ pos' = to /\ eof' = FALSE /\ alive' = alive
             /\ ret' \in {"nil", "record"}
    BY <1>0, <1>7, <2>2, <2>5 DEF NextFast, Results
  <2> QED  BY <1>7, <2>3, <2>4, <2>5 DEF NextFast, Give, NoRecord
<1>8. CASE NextSlow(h)
  <2> DEFINE i == StartsAt(pos, Slow)
  <2>1. i \in 1 .. Len(Recs)  BY <1>8, StartsAtFinds DEF NextSlow
  <2>2. CASE StopsIn(Recs[i]) /\ NoRecord
    BY <1>0, <1>8, <2>1, <2>2, StopsInType DEF NextSlow, NoRecord, Results
  <2>3. CASE /\ pos' \in Adjusted(Recs[i]) /\ eof' = FALSE /\ alive' = alive
             /\ ret' = "record"
    <3>1. pos' \in Nat  BY <1>0, <2>1, <2>3, AdjustedTyped
    <3> QED  BY <1>0, <1>8, <2>3, <3>1 DEF NextSlow, Results
  <2> QED  BY <1>8, <2>2, <2>3 DEF NextSlow, Give
<1> QED  BY <1>1, <1>2, <1>3, <1>4, <1>5, <1>6, <1>7, <1>8 DEF NextRecord

\* The record behind a handle that holds one.
LEMMA HeldRecord ==
  ASSUME TypeOK, NEW h \in Handle, rec[h] # NoRec
  PROVE  /\ rec[h] \in RecState /\ rec[h].m \in 1 .. Len(Recs)
         /\ RecOf(h) = Recs[rec[h].m]
<1>1. rec[h] \in RecState /\ rec[h].m # 0  BY DEF TypeOK
<1>2. rec[h].m \in 0 .. Len(Recs)  BY <1>1 DEF RecState
<1>3. file \in Files  BY DEF TypeOK
<1> QED  BY <1>1, <1>2, <1>3, FileShape DEF RecOf

\* A registration that returns gives the record a temporary file, or none.
LEMMA RegisteredRecord ==
  ASSUME TypeOK, NEW h \in Handle, rec[h] # NoRec, rec[h].regs < MaxRegister,
         NEW t \in [there: BOOLEAN, base: Nat, len: Nat, at: Nat], NEW result,
         Registered(h, t, result)
  PROVE  \E r \in RecState :
           /\ r.m = rec[h].m /\ r.regs = rec[h].regs + 1 /\ r.tmp = t
           /\ rec' = [rec EXCEPT ![h] = r]
<1> DEFINE r == [m |-> rec[h].m, regs |-> rec[h].regs + 1, tmp |-> t]
<1>1. rec[h] \in RecState /\ rec \in [Handle -> RecState]  BY DEF TypeOK
<1>2. r \in RecState  BY <1>1, ReaderAssumption DEF RecState
<1>3. rec' = [rec EXCEPT ![h] = r]  BY DEF Registered
<1> QED  BY <1>2, <1>3

\* What WFile_register leaves of the record behind its handle, by its kind: the
\* data block ready to be read, in a damaged file perhaps something of which
\* nothing is left to be read, or no temporary file at all.
RegisterLeaves(h, t) ==
  LET m == RecOf(h)
      old == rec[h].tmp
  IN  \/ m.kind = "plain" /\ t = Temp(m.hdr, m.data, 0)
      \/ m.kind = "extra" /\ t = Temp(0, m.hdr + m.data, m.hdr)
      \/ m.kind \in {"plain", "extra"} /\ ~Intact /\ t.at = t.len
      \/ m.kind = "extra" /\ t = NoTemp
      \/ m.kind \in Slow /\ t = Temp(old.base, old.len, old.at + m.hdr)

\* In an intact file no record goes beyond the end.
LEMMA IntactEnd ==
  ASSUME file \in Files, Intact, NEW i \in 1 .. Len(Recs)
  PROVE  Recs[i].off + Recs[i].len <= Size
<1> DEFINE n == Len(Recs)
<1>1. n \in 1 .. n /\ Size = Recs[n].off + Recs[n].len
  BY FileShape DEF Intact
<1>2. CASE i = n  BY <1>1, <1>2, RecordShape
<1>3. CASE i # n
  <2>1. n \in i + 1 .. n  BY <1>1, <1>3
  <2>2. Recs[i].off + Recs[i].len <= Recs[n].off  BY <2>1, LaterBehind
  <2>3. /\ Recs[i].off \in Nat /\ Recs[i].len \in Nat
        /\ Recs[n].off \in Nat /\ Recs[n].len \in Nat
    BY <1>1, RecordShape
  <2> QED  BY <1>1, <2>2, <2>3, SMTT(30)
<1> QED  BY <1>2, <1>3

\* What a call of register does.
LEMMA RegisterGives ==
  ASSUME TypeOK, NEW h \in Handle, Register(h)
  PROVE  /\ pos' \in Nat /\ eof' \in BOOLEAN /\ alive' \in BOOLEAN
         /\ ret' \in Results /\ Quiet /\ rec[h] # NoRec
         /\ \/ rec' = rec
            \/ \E t \in [there: BOOLEAN, base: Nat, len: Nat, at: Nat], r \in RecState :
                 /\ RegisterLeaves(h, t)
                 /\ r.m = rec[h].m /\ r.regs = rec[h].regs + 1 /\ r.tmp = t
                 /\ rec' = [rec EXCEPT ![h] = r]
<1> DEFINE Temps == [there: BOOLEAN, base: Nat, len: Nat, at: Nat]
<1>0. file \in Files /\ pos \in Nat /\ alive \in BOOLEAN /\ eof \in BOOLEAN
  BY DEF TypeOK
<1>1. /\ rec[h] # NoRec /\ rec[h].regs < MaxRegister /\ Quiet
  BY DEF Register, RegisterPlain, RegisterPlainNoTemp, RegisterSlow,
         RegisterFast, RegisterFastNoTemp, Registering
<1> DEFINE i == rec[h].m
<1>2. i \in 1 .. Len(Recs) /\ RecOf(h) = Recs[i] /\ rec[h] \in RecState
  BY <1>1, HeldRecord
<1>3. /\ Recs[i].off \in Nat /\ Recs[i].hdr \in Nat /\ Recs[i].data \in Nat
  BY <1>0, <1>2, RecordShape
\* Each way to end a registration has a temporary file to show.
<1>4. ASSUME NEW t \in Temps, NEW result \in {"ok", "error"},
             RegisterLeaves(h, t), Registered(h, t, result),
             pos' \in Nat, eof' \in BOOLEAN
      PROVE  /\ alive' \in BOOLEAN /\ ret' \in Results
             /\ \E u \in Temps, r \in RecState :
                  /\ RegisterLeaves(h, u)
                  /\ r.m = rec[h].m /\ r.regs = rec[h].regs + 1 /\ r.tmp = u
                  /\ rec' = [rec EXCEPT ![h] = r]
  <2>1. alive' = alive /\ ret' = result  BY <1>4 DEF Registered
  <2>2. \E r \in RecState :
          /\ r.m = rec[h].m /\ r.regs = rec[h].regs + 1 /\ r.tmp = t
          /\ rec' = [rec EXCEPT ![h] = r]
    BY <1>1, <1>4, RegisteredRecord
  <2> QED  BY <1>0, <1>4, <2>1, <2>2 DEF Results
<1>5. CASE RegisterPlain(h)
  <2>1. RecOf(h).kind = "plain" /\ pos' = pos /\ eof' = FALSE
    BY <1>5, SMTT(30) DEF RegisterPlain, Registering
  <2>2. CASE Recs[i].off + Recs[i].hdr + Recs[i].data <= Size
    <3> DEFINE t == Temp(Recs[i].hdr, Recs[i].data, 0)
    <3>1. Registered(h, t, "ok")  BY <1>2, <1>5, <2>2 DEF RegisterPlain
    <3>2. t \in Temps  BY <1>3, TempType
    <3>3. RegisterLeaves(h, t)  BY <1>2, <2>1 DEF RegisterLeaves
    <3> QED  BY <1>0, <1>1, <1>4, <2>1, <3>1, <3>2, <3>3
  <2>3. CASE ~(Recs[i].off + Recs[i].hdr + Recs[i].data <= Size)
    <3>1. PICK n \in 0 .. Recs[i].data - 1 :
            Registered(h, Temp(Recs[i].hdr, n, n), "error")
      BY <1>2, <1>5, <2>3 DEF RegisterPlain
    <3>2. n \in Nat  BY <1>3
    <3>3. ~Intact
      <4>1. Recs[i].len = Recs[i].hdr + Recs[i].data + TrailerLen
        BY <1>0, <1>2, <2>1, PlainShape
      <4>2. Size \in Nat /\ TrailerLen \in Nat
        BY <1>0, FileShape, ReaderAssumption
      <4>3. ~(Recs[i].off + Recs[i].len <= Size)
        BY <1>3, <2>3, <4>1, <4>2
      <4> QED  BY <1>0, <1>2, <4>3, IntactEnd
    <3>4. Temp(Recs[i].hdr, n, n) \in Temps
      BY <1>3, <3>2, TempType
    <3>5. RegisterLeaves(h, Temp(Recs[i].hdr, n, n))
      BY <1>2, <2>1, <3>3 DEF RegisterLeaves, Temp
    <3> QED  BY <1>0, <1>1, <1>4, <2>1, <3>1, <3>4, <3>5
  <2> QED  BY <2>2, <2>3
<1>6. CASE RegisterPlainNoTemp(h)
  BY <1>0, <1>1, <1>6 DEF RegisterPlainNoTemp, Abort, Results
<1>7. CASE RegisterSlow(h)
  <2> DEFINE old == rec[h].tmp
             t   == Temp(old.base, old.len, old.at + Recs[i].hdr)
  <2>1. /\ RecOf(h).kind \in Slow /\ pos' = pos /\ eof' = eof
        /\ Registered(h, t, "ok")
    BY <1>2, <1>7 DEF RegisterSlow, Registering
  <2>2. t \in Temps
    <3>1. old.base \in Nat /\ old.len \in Nat /\ old.at \in Nat
      BY <1>2, SMTT(30) DEF RecState
    <3>2. old.at + Recs[i].hdr \in Nat  BY <1>3, <3>1
    <3> QED  BY <3>1, <3>2 DEF Temp
  <2>3. RegisterLeaves(h, t)  BY <1>2, <2>1 DEF RegisterLeaves
  <2> QED  BY <1>0, <1>1, <1>4, <2>1, <2>2, <2>3
<1>8. CASE RegisterFast(h)
  <2>1. RecOf(h).kind = "extra"  BY <1>8, SMTT(30) DEF RegisterFast, Registering
  <2>2. CASE Recs[i].reads = "all"
    <3> DEFINE t == Temp(0, Recs[i].hdr + Recs[i].data, Recs[i].hdr)
    <3>1. Registered(h, t, "ok") /\ eof' = FALSE /\ pos' = pos
      BY <1>2, <1>8, <2>2 DEF RegisterFast
    <3>2. t \in Temps
      <4>1. Recs[i].hdr + Recs[i].data \in Nat  BY <1>3
      <4> QED  BY <1>3, <4>1 DEF Temp
    <3>3. RegisterLeaves(h, t)  BY <1>2, <2>1 DEF RegisterLeaves
    <3> QED  BY <1>0, <1>1, <1>4, <3>1, <3>2, <3>3
  <2>3. CASE Recs[i].reads # "all"
    <3>1. PICK n \in 0 .. Recs[i].hdr + Recs[i].data :
            Registered(h, Temp(0, n, n), "error")
      BY <1>2, <1>8, <2>3 DEF RegisterFast
    <3>2. StopsIn(Recs[i])  BY <1>2, <1>8, <2>3 DEF RegisterFast
    <3>3. pos' \in Nat /\ eof' \in BOOLEAN  BY <1>0, <1>2, <3>2, StopsInType
    <3>4. n \in Nat /\ ~Intact  BY <1>2, <1>3, <2>3 DEF Intact
    <3>5. Temp(0, n, n) \in Temps  BY <3>4, TempType
    <3>6. RegisterLeaves(h, Temp(0, n, n))
      BY <1>2, <2>1, <3>4, TempType DEF RegisterLeaves
    <3> QED  BY <1>1, <1>4, <3>1, <3>3, <3>5, <3>6
  <2> QED  BY <2>2, <2>3
<1>9. CASE RegisterFastNoTemp(h)
  <2>1. /\ RecOf(h).kind = "extra" /\ Registered(h, NoTemp, "error")
        /\ pos' \in Nat /\ eof' = FALSE
    BY <1>2, <1>3, <1>9 DEF RegisterFastNoTemp, Registering
  <2>2. NoTemp \in Temps /\ RegisterLeaves(h, NoTemp)
    BY <2>1, Constants DEF RegisterLeaves
  <2> QED  BY <1>1, <1>4, <2>1, <2>2
<1> QED  BY <1>5, <1>6, <1>7, <1>8, <1>9 DEF Register

\* Every step keeps the types.
LEMMA TypeStep == TypeOK /\ [Next]_vars => TypeOK'
<1> SUFFICES ASSUME TypeOK, [Next]_vars  PROVE TypeOK'
  OBVIOUS
<1>0. /\ file \in Files /\ pos \in Nat /\ eof \in BOOLEAN /\ alive \in BOOLEAN
      /\ heard \in [m: 0 .. Len(Recs), again: BOOLEAN, from: Nat, to: Nat]
      /\ ret \in Results
  BY DEF TypeOK
<1>1. CASE UNCHANGED vars  BY <1>0, <1>1, StepType DEF vars
<1>2. CASE HasMore
  <2>1. pos' \in Nat /\ eof' \in BOOLEAN /\ ret' \in Results /\ alive' = alive
    <3>1. CASE pos = Size
      <4>1. pos' = 0 /\ eof' = FALSE /\ ret' = "no" /\ alive' = alive
        BY <1>2, <3>1 DEF HasMore
      <4> QED  BY <4>1 DEF Results
    <3>2. CASE pos # Size  BY <1>0, <1>2, <3>2 DEF HasMore, Results
    <3> QED  BY <3>1, <3>2
  <2> QED  BY <1>0, <1>2, <2>1, Constants, StepType DEF HasMore, Quiet
<1>3. ASSUME NEW i \in 1 .. Len(Recs), Seek(i)  PROVE TypeOK'
  <2>1. pos' \in Nat /\ eof' \in BOOLEAN /\ ret' \in Results /\ alive' = alive
    BY <1>0, <1>3, RecordShape DEF Seek, Results
  <2> QED  BY <1>0, <1>3, <2>1, Constants, StepType DEF Seek, Quiet
<1>4. ASSUME NEW h \in Handle, NextRecord(h)  PROVE TypeOK'
  <2>1. /\ pos' \in Nat /\ eof' \in BOOLEAN /\ alive' \in BOOLEAN
        /\ ret' \in Results /\ Quiet
    BY <1>4, NextRecordMoves
  <2>2. CASE rec' = rec
    BY <2>1, <2>2, Constants, StepType DEF Quiet
  <2>3. CASE \E i \in 1 .. Len(Recs) :
               LET t == IF Recs[i].kind \in Slow
                          THEN Temp(0, Recs[i].hdr + Recs[i].data, 0) ELSE NoTemp
               IN  rec' = [rec EXCEPT ![h] = Fresh(i, t)]
    <3>1. PICK i \in 1 .. Len(Recs) :
            LET t == IF Recs[i].kind \in Slow
                       THEN Temp(0, Recs[i].hdr + Recs[i].data, 0) ELSE NoTemp
            IN  rec' = [rec EXCEPT ![h] = Fresh(i, t)]
      BY <2>3
    <3> DEFINE t == IF Recs[i].kind \in Slow
                      THEN Temp(0, Recs[i].hdr + Recs[i].data, 0) ELSE NoTemp
    <3>2. t \in [there: BOOLEAN, base: Nat, len: Nat, at: Nat]
      <4>1. Recs[i].hdr + Recs[i].data \in Nat  BY <1>0, RecordShape, SMTT(30)
      <4> QED  BY <4>1, TempType, Constants
    <3>3. Fresh(i, t) \in RecState /\ Fresh(i, t).m # 0
      BY <1>0, <3>2, FreshType, FileShape
    <3> QED  BY <2>1, <3>1, <3>3, Constants, StepType DEF Quiet
  <2> QED  BY <1>4, <2>2, <2>3, NextRecordGives
<1>5. ASSUME NEW h \in Handle, Register(h)  PROVE TypeOK'
  <2>1. /\ pos' \in Nat /\ eof' \in BOOLEAN /\ alive' \in BOOLEAN
        /\ ret' \in Results /\ Quiet /\ rec[h] # NoRec
        /\ \/ rec' = rec
           \/ \E r \in RecState : r.m = rec[h].m /\ rec' = [rec EXCEPT ![h] = r]
    BY <1>5, RegisterGives
  <2>2. rec[h].m # 0  BY <2>1 DEF TypeOK
  <2> QED  BY <2>1, <2>2, Constants, StepType DEF Quiet
<1>6. ASSUME NEW h \in Handle, GetContent(h)  PROVE TypeOK'
  <2> DEFINE t == rec[h].tmp
  <2>1. rec[h] \in RecState  BY DEF TypeOK
  <2>2. t.base \in Nat /\ t.len \in Nat /\ t.at \in Nat /\ rec[h].m \in 0 .. Len(Recs)
    BY <2>1 DEF RecState
  <2>3. Least(t.at, t.len) \in Nat  BY <2>2 DEF Least
  <2>4. heard' \in [m: 0 .. Len(Recs), again: BOOLEAN, from: Nat, to: Nat]
    BY <1>6, <2>2, <2>3, SMTT(30) DEF GetContent
  <2> QED  BY <1>0, <1>6, <2>4, StepType DEF GetContent, Results
<1>7. ASSUME NEW h \in Handle, GetContentNoTemp(h)  PROVE TypeOK'
  BY <1>0, <1>7, Constants, StepType DEF GetContentNoTemp, Abort, Quiet, Results
<1>8. ASSUME NEW h \in Handle, Release(h)  PROVE TypeOK'
  <2>1. NoRec \in RecState /\ NoRec.m = 0  BY Constants DEF NoRec
  <2> QED  BY <1>0, <1>8, <2>1, Constants, StepType DEF Release, Quiet, Results
<1> QED  BY <1>1, <1>2, <1>3, <1>4, <1>5, <1>6, <1>7, <1>8 DEF Next, Content

\* The program begins well typed.
LEMMA TypeInit == Init => TypeOK
<1> SUFFICES ASSUME Init PROVE TypeOK  OBVIOUS
<1>1. file \in Files  BY DEF Init
<1>2. 0 \in 0 .. Len(Recs) /\ 0 \in 0 .. MaxRegister
  BY <1>1, FileShape, ReaderAssumption
<1>3. NoRec \in RecState  BY <1>2 DEF NoRec, NoTemp, RecState
<1>4. Silence \in [m: 0 .. Len(Recs), again: BOOLEAN, from: Nat, to: Nat]
  BY <1>2 DEF Silence
<1> QED  BY <1>1, <1>3, <1>4 DEF Init, TypeOK, Results

\* The reader's state keeps its types (struct WFile and struct WRecord), whatever
\* the file holds and however the calls are mixed.
THEOREM TypeCorrect == Spec => []TypeOK
BY TypeInit, TypeStep, PTL DEF Spec

-----------------------------------------------------------------------------
(* What the temporary files hold, and what getContent gives. *)

\* The file does not change, so neither does what is said of it.
LEMMA SameFile ==
  ASSUME file' = file
  PROVE  /\ Recs' = Recs /\ Size' = Size /\ (Intact <=> Intact')
         /\ (Sound <=> Sound') /\ Boundaries' = Boundaries
BY DEF Recs, Size, Intact, Sound, Unmarked, Boundaries, Compressed

\* Only the record behind one handle changes, and it is as it should be.
LEMMA KeptStep ==
  ASSUME TypeOK, AllKept, file' = file,
         \/ rec' = rec
         \/ \E h \in Handle, r \in RecState :
              (r.m # 0 => Kept(r)) /\ rec' = [rec EXCEPT ![h] = r]
  PROVE  AllKept'
<1> SUFFICES ASSUME NEW g \in Handle, rec'[g].m # 0  PROVE Kept(rec[g])'
  BY DEF AllKept
<1>1. Kept(rec'[g])
  <2>1. CASE rec' = rec  BY <2>1 DEF AllKept
  <2>2. ASSUME NEW h \in Handle, NEW r \in RecState,
               r.m # 0 => Kept(r), rec' = [rec EXCEPT ![h] = r]
        PROVE  Kept(rec'[g])
    <3>1. rec'[g] = IF g = h THEN r ELSE rec[g]  BY <2>2 DEF TypeOK
    <3> QED  BY <2>2, <3>1 DEF AllKept
  <2> QED  BY <2>1, <2>2
<1> QED  BY <1>1, SameFile DEF Kept

\* A fresh record keeps what it should.
LEMMA FreshKept ==
  ASSUME TypeOK, NEW i \in 1 .. Len(Recs)
  PROVE  LET t == IF Recs[i].kind \in Slow
                    THEN Temp(0, Recs[i].hdr + Recs[i].data, 0) ELSE NoTemp
         IN  Fresh(i, t) \in RecState /\ Kept(Fresh(i, t))
<1> DEFINE t == IF Recs[i].kind \in Slow
                  THEN Temp(0, Recs[i].hdr + Recs[i].data, 0) ELSE NoTemp
<1>0. file \in Files  BY DEF TypeOK
<1>1. Recs[i].hdr + Recs[i].data \in Nat  BY <1>0, RecordShape
<1>2. t \in [there: BOOLEAN, base: Nat, len: Nat, at: Nat]
  BY <1>1, TempType, Constants
<1>3. Fresh(i, t) \in RecState  BY <1>2, FreshType
<1>4. CASE Recs[i].kind \in Slow
  <2>1. Fresh(i, t).m = i /\ Fresh(i, t).regs = 0 /\ Fresh(i, t).tmp = t
    BY DEF Fresh
  <2>2. t.there /\ t.base = 0 /\ t.len = Recs[i].hdr + Recs[i].data /\ t.at = 0
    BY <1>4 DEF Temp
  <2>3. Recs[i].kind # "plain" /\ Recs[i].kind # "extra"  BY <1>4 DEF Slow
  <2>4. Kept(Fresh(i, t))
    <3> HIDE DEF t
    <3> QED  BY <2>1, <2>2, <2>3 DEF Kept
  <2> QED  BY <1>3, <2>4
<1>5. CASE Recs[i].kind \notin Slow
  <2>1. Recs[i].kind \in {"plain", "extra"}  BY <1>0, <1>5, RecordShape DEF Slow
  <2> QED  BY <1>3, <1>5, <2>1 DEF Kept, Fresh, NoTemp
<1> QED  BY <1>3, <1>4, <1>5

\* A registered record keeps what it should.
LEMMA RegisteredKept ==
  ASSUME TypeOK, NEW h \in Handle, rec[h] # NoRec, Kept(rec[h]),
         NEW t, RegisterLeaves(h, t),
         NEW r \in RecState, r.m = rec[h].m, r.regs = rec[h].regs + 1, r.tmp = t
  PROVE  Kept(r)
<1> DEFINE m == Recs[rec[h].m]
<1>0. file \in Files  BY DEF TypeOK
<1>1. rec[h].m \in 1 .. Len(Recs) /\ rec[h] \in RecState /\ RecOf(h) = m
  BY HeldRecord
<1>2. rec[h].regs \in Nat  BY <1>1, ReaderAssumption DEF RecState
<1>3. m.hdr \in Nat /\ m.data \in Nat /\ m.kind \in {"plain", "extra", "noextra", "named"}
  BY <1>0, <1>1, RecordShape
<1>4. CASE m.kind = "plain"
  BY <1>1, <1>4 DEF Kept, RegisterLeaves, Slow
<1>5. CASE m.kind = "extra"
  BY <1>1, <1>5 DEF Kept, RegisterLeaves, Slow, NoTemp
<1>6. CASE m.kind \in Slow
  <2> DEFINE old == rec[h].tmp
  <2>1. t = Temp(old.base, old.len, old.at + m.hdr)
    BY <1>1, <1>6 DEF RegisterLeaves, Slow
  <2>2. /\ old.base = 0 /\ old.len = m.hdr + m.data
        /\ rec[h].regs = 0 => old.at = 0
    BY <1>6 DEF Kept, Slow
  <2>3. /\ t.there /\ t.base = 0 /\ t.len = m.hdr + m.data
        /\ rec[h].regs = 0 => t.at = m.hdr
    BY <1>3, <2>1, <2>2 DEF Temp
  <2>4. r.regs # 0 /\ (r.regs = 1 => rec[h].regs = 0)  BY <1>2
  <2> QED  BY <1>6, <2>3, <2>4 DEF Kept, Slow
<1> QED  BY <1>3, <1>4, <1>5, <1>6 DEF Slow

\* Every step keeps what the temporary files hold.
LEMMA AllKeptStep == TypeOK /\ AllKept /\ [Next]_vars => AllKept'
<1> SUFFICES ASSUME TypeOK, AllKept, [Next]_vars  PROVE AllKept'
  OBVIOUS
<1>1. CASE UNCHANGED vars  BY <1>1, KeptStep DEF vars
<1>2. CASE HasMore  BY <1>2, KeptStep DEF HasMore, Quiet
<1>3. ASSUME NEW i \in 1 .. Len(Recs), Seek(i)  PROVE AllKept'
  BY <1>3, KeptStep DEF Seek, Quiet
<1>4. ASSUME NEW h \in Handle, NextRecord(h)  PROVE AllKept'
  <2>1. file' = file  BY <1>4, NextRecordMoves DEF Quiet
  <2>2. CASE rec' = rec  BY <2>1, <2>2, KeptStep
  <2>3. ASSUME NEW i \in 1 .. Len(Recs),
               LET t == IF Recs[i].kind \in Slow
                          THEN Temp(0, Recs[i].hdr + Recs[i].data, 0) ELSE NoTemp
               IN  rec' = [rec EXCEPT ![h] = Fresh(i, t)]
        PROVE  AllKept'
    BY <2>1, <2>3, FreshKept, KeptStep
  <2> QED  BY <1>4, <2>2, <2>3, NextRecordGives
<1>5. ASSUME NEW h \in Handle, Register(h)  PROVE AllKept'
  <2>1. file' = file /\ rec[h] # NoRec  BY <1>5, RegisterGives DEF Quiet
  <2>2. Kept(rec[h])  BY <2>1 DEF AllKept, TypeOK
  <2>3. \/ rec' = rec
        \/ \E r \in RecState : Kept(r) /\ rec' = [rec EXCEPT ![h] = r]
    BY <1>5, <2>1, <2>2, RegisterGives, RegisteredKept
  <2> QED  BY <2>1, <2>3, KeptStep
<1>6. ASSUME NEW h \in Handle, Content(h)  PROVE AllKept'
  BY <1>6, KeptStep DEF Content, GetContent, GetContentNoTemp, Quiet
<1>7. ASSUME NEW h \in Handle, Release(h)  PROVE AllKept'
  <2>1. NoRec \in RecState /\ NoRec.m = 0  BY Constants DEF NoRec
  <2> QED  BY <1>7, <2>1, KeptStep DEF Release, Quiet
<1> QED  BY <1>1, <1>2, <1>3, <1>4, <1>5, <1>6, <1>7 DEF Next

\* What is given of a record that is as it should be.
LEMMA ContentGiven ==
  ASSUME TypeOK, AllKept, NEW h \in Handle, GetContent(h)
  PROVE  ContentOnce'
<1> DEFINE t == rec[h].tmp
           m == Recs[rec[h].m]
<1>0. file \in Files /\ rec[h] \in RecState  BY DEF TypeOK
<1>1. /\ rec[h].regs > 0 /\ t.there /\ file' = file
      /\ heard'.m = rec[h].m /\ heard'.again = (rec[h].regs > 1)
      /\ heard'.from = t.base + Least(t.at, t.len) /\ heard'.to = t.base + t.len
  BY DEF GetContent
<1>2. rec[h].m \in 1 .. Len(Recs)
  <2>1. rec[h].m # 0  BY <1>1 DEF TypeOK, NoRec
  <2> QED  BY <1>0, <2>1, FileShape DEF RecState
<1>3. m.hdr \in Nat /\ m.data \in Nat /\ m.kind \in {"plain", "extra", "noextra", "named"}
  BY <1>0, <1>2, RecordShape
<1>4. /\ t.base \in Nat /\ t.len \in Nat /\ t.at \in Nat /\ rec[h].regs \in Nat
  BY <1>0, ReaderAssumption DEF RecState
<1>5. Kept(rec[h])  BY <1>2, FileShape, <1>0, SMTT(30) DEF AllKept
\* Either it is the data block, or nothing, or given again.
<1>6. \/ heard'.from = m.hdr /\ heard'.to = m.hdr + m.data
      \/ ~Intact /\ heard'.from = heard'.to
      \/ heard'.again /\ m.kind \in Slow
  <2>1. CASE ~Intact /\ t.at = t.len
    BY <1>1, <1>4, <2>1 DEF Least
  <2>2. CASE m.kind = "plain" /\ t = Temp(m.hdr, m.data, 0)
    <3>1. t.base = m.hdr /\ t.len = m.data /\ t.at = 0  BY <2>2 DEF Temp
    <3> QED  BY <1>1, <1>3, <3>1 DEF Least
  <2>3. CASE m.kind = "extra" /\ t = Temp(0, m.hdr + m.data, m.hdr)
    <3>1. t.base = 0 /\ t.len = m.hdr + m.data /\ t.at = m.hdr  BY <2>3 DEF Temp
    <3> QED  BY <1>1, <1>3, <3>1 DEF Least
  <2>4. CASE m.kind \in Slow
    <3>1. /\ t.base = 0 /\ t.len = m.hdr + m.data
          /\ rec[h].regs = 1 => t.at = m.hdr
      BY <1>5, <2>4 DEF Kept, Slow
    <3>2. CASE rec[h].regs = 1
      BY <1>1, <1>3, <3>1, <3>2 DEF Least
    <3>3. CASE rec[h].regs # 1
      <4>1. rec[h].regs > 1  BY <1>1, <1>4, <3>3
      <4> QED  BY <1>1, <2>4, <4>1
    <3> QED  BY <3>2, <3>3
  <2> QED  BY <1>1, <1>3, <1>5, <2>1, <2>2, <2>3, <2>4 DEF Kept, Slow
<1>7. Recs' = Recs /\ (Intact <=> Intact')  BY <1>1, SameFile
<1> QED  BY <1>1, <1>6, <1>7 DEF ContentOnce, HeardExactly

\* Every step keeps ContentOnce.
LEMMA ContentStep ==
  TypeOK /\ AllKept /\ ContentOnce /\ [Next]_vars => ContentOnce'
<1> SUFFICES ASSUME TypeOK, AllKept, ContentOnce, [Next]_vars  PROVE ContentOnce'
  OBVIOUS
<1>1. ASSUME Quiet PROVE ContentOnce'
  BY <1>1 DEF Quiet, ContentOnce, Silence
<1>2. CASE UNCHANGED vars
  BY <1>2, SameFile DEF vars, ContentOnce, HeardExactly
<1>3. CASE HasMore  BY <1>1, <1>3 DEF HasMore
<1>4. ASSUME NEW i \in 1 .. Len(Recs), Seek(i)  PROVE ContentOnce'
  BY <1>1, <1>4 DEF Seek
<1>5. ASSUME NEW h \in Handle, NextRecord(h)  PROVE ContentOnce'
  BY <1>1, <1>5, NextRecordMoves
<1>6. ASSUME NEW h \in Handle, Register(h)  PROVE ContentOnce'
  BY <1>1, <1>6, RegisterGives
<1>7. ASSUME NEW h \in Handle, GetContent(h)  PROVE ContentOnce'
  BY <1>7, ContentGiven
<1>8. ASSUME NEW h \in Handle, GetContentNoTemp(h) \/ Release(h)  PROVE ContentOnce'
  BY <1>1, <1>8 DEF GetContentNoTemp, Release
<1> QED  BY <1>2, <1>3, <1>4, <1>5, <1>6, <1>7, <1>8 DEF Next, Content

\* WRecord_getContent gives the data block of the record, or nothing where the
\* file is damaged, whatever calls came before; a compressed record without the
\* size fields that is registered again is the exception.
THEOREM ContentOnceCorrect == Spec => []ContentOnce
<1>1. Init => AllKept  BY DEF Init, AllKept, NoRec
<1>2. Init => ContentOnce  BY DEF Init, ContentOnce
<1> QED  BY <1>1, <1>2, TypeInit, TypeStep, AllKeptStep, ContentStep, PTL DEF Spec

-----------------------------------------------------------------------------
(* Where FH is. *)

\* Behind a record is the next one, or the end of the file.
LEMMA NextBoundary ==
  ASSUME file \in Files, Intact, NEW i \in 1 .. Len(Recs)
  PROVE  Recs[i].off + Recs[i].len \in Boundaries
<1> DEFINE n == Len(Recs)
<1>1. n \in Nat \ {0}  BY FileShape
<1>2. CASE i = n  BY <1>2 DEF Intact, Boundaries
<1>3. CASE i # n
  <2>1. i + 1 \in 1 .. n /\ i + 1 # 1 /\ (i + 1) - 1 = i  BY <1>1, <1>3
  <2>2. Recs[i + 1].off = Recs[i].off + Recs[i].len
    BY <2>1, FilesAssumption DEF Recs
  <2> QED  BY <2>1, <2>2 DEF Boundaries
<1> QED  BY <1>2, <1>3

\* At a record of an intact file the reader finds one of the file's kind.
LEMMA FindsRecord ==
  ASSUME file \in Files, Intact, pos \in Boundaries, pos # Size
  PROVE  /\ ~Compressed => StartsAt(pos, {"plain"}) # 0
         /\ Compressed => StartsAt(pos, Gzipped) # 0
<1>1. PICK i \in 1 .. Len(Recs) : Recs[i].off = pos  BY DEF Boundaries
<1>2. CASE ~Compressed
  <2>1. Recs[i].kind \in {"plain"}  BY <1>2 DEF Intact
  <2> QED  BY <1>1, <1>2, <2>1, StartsAtComplete
<1>3. CASE Compressed
  <2>1. Recs[i].kind # "plain"  BY <1>3 DEF Intact
  <2>2. Recs[i].kind \in Gzipped  BY <2>1, RecordShape DEF Gzipped, Slow
  <2> QED  BY <1>1, <1>3, <2>2, StartsAtComplete
<1> QED  BY <1>2, <1>3

\* The end of a member is found where it is: no byte before it is taken for the
\* first one of another, and behind it there is one, or the end of the file.
LEMMA SlowEnd ==
  ASSUME file \in Files, Sound, NEW i \in 1 .. Len(Recs), Recs[i].kind \in Slow
  PROVE  Adjusted(Recs[i]) = {Recs[i].off + Recs[i].len}
<1> DEFINE m   == Recs[i]
           end == m.off + m.len
<1>1. Intact /\ (m.kind = "named" => ~m.tail)  BY DEF Sound, Unmarked
<1>2. end \in Nat /\ Size \in Nat /\ end <= Size
  BY <1>1, FileShape, RecordShape, IntactEnd
<1>3. m.kind # "plain"  BY DEF Slow
<1>4. \A j \in 1 .. Len(Recs) : Recs[j].kind # "plain"  BY <1>1, <1>3 DEF Intact
<1>5. StartsAt(end, {"plain"}) = 0
  <2>1. StartsAt(end, {"plain"}) # 0 => FALSE  BY <1>4, StartsAtFinds
  <2> QED  BY <2>1
<1>6. Counted(m) = IF m.kind = "named" THEN end - 1 ELSE end
  <2>1. m.off \in Nat /\ m.len \in Nat  BY RecordShape
  <2> HIDE DEF m
  <2>2. CASE m.kind = "named"  BY <2>1, <2>2 DEF Counted
  <2>3. CASE m.kind # "named"  BY <2>1, <2>3 DEF Counted
  <2> QED  BY <2>2, <2>3
<1>7. ASSUME end < Size PROVE \E j \in 1 .. Len(Recs) : Recs[j].off = end
  <2>1. i # Len(Recs)  BY <1>1, <1>2, <1>7 DEF Intact
  <2>2. i + 1 \in 1 .. Len(Recs) /\ i + 1 # 1 /\ (i + 1) - 1 = i  BY <2>1, FileShape
  <2>3. Recs[i + 1].off = end  BY <2>2, FilesAssumption DEF Recs
  <2> QED  BY <2>2, <2>3
<1> HIDE DEF m, end
<1>8. \A j \in 1 .. Len(Recs) : Recs[j].off \in Nat  BY RecordShape
<1> DEFINE behind == {p \in end .. Size :
                        /\ \A j \in 1 .. Len(Recs) :
                             Recs[j].kind # "plain" => Recs[j].off \notin end .. p - 1
                        /\ p = Size \/ StartsAt(p, {"plain"}) = 0}
<1>9. behind = {end}
  <2>1. end \in behind  BY <1>2, <1>5
  <2>2. ASSUME NEW p \in behind PROVE p = end
    <3>1. CASE end = Size  BY <1>2, <2>2, <3>1
    <3>2. CASE end # Size
      <4>1. end < Size /\ p \in end .. Size  BY <1>2, <2>2, <3>2
      <4>2. PICK j \in 1 .. Len(Recs) : Recs[j].off = end  BY <1>7, <4>1
      <4>3. end \notin end .. p - 1  BY <1>4, <2>2, <4>2
      <4> QED  BY <1>2, <4>1, <4>3
    <3> QED  BY <3>1, <3>2
  <2> HIDE DEF behind
  <2> QED  BY <2>1, <2>2
<1>10. Adjusted(m) = IF Counted(m) >= Size \/ (m.kind = "named" /\ m.tail) THEN {Counted(m)}
                     ELSE behind
  BY DEF Adjusted, end
<1> HIDE DEF behind
<1>11. Adjusted(m) = {end}
  <2>1. CASE m.kind = "named"
    <3>1. ~ (Counted(m) >= Size)  BY <1>2, <1>6, <2>1
    <3> QED  BY <1>1, <1>9, <1>10, <2>1, <3>1
  <2>2. CASE m.kind # "named"  BY <1>6, <1>9, <1>10, <2>2
  <2> QED  BY <2>1, <2>2
<1> QED  BY <1>11 DEF m, end

\* A read at the end of the file stays there.
LEMMA UptoEnd ==
  ASSUME file \in Files, NEW n \in Nat  PROVE Upto(Size, n) = Size
BY FileShape DEF Upto

\* nextRecord goes from the start of record i to its end and gives it, unless it
\* is mute.
PassesOver(h, i) ==
  /\ Recs[i].off = pos /\ pos' = pos + Recs[i].len
  /\ IF i \in Mute THEN NoRecord
     ELSE rec[h] = NoRec /\ \E t : Give(h, Fresh(i, t))

\* nextRecord stays where it is or goes to the next record.
LEMMA NextRecordGoes ==
  ASSUME SmallMembers, TypeOK, Sound, pos \in Boundaries,
         NEW h \in Handle, NextRecord(h)
  PROVE  \/ pos' = pos /\ NoRecord
         \/ \E i \in 1 .. Len(Recs) : PassesOver(h, i)
<1> Intact  BY DEF Sound
<1>0. file \in Files /\ pos \in Nat /\ Size \in Nat /\ Size \in Boundaries
  BY FileShape DEF TypeOK, Boundaries
<1>1. \A n \in Nat : Upto(Size, n) = Size  BY <1>0, UptoEnd
<1>2. \A i \in 1 .. Len(Recs) : Recs[i].reads = "all"  BY DEF Intact
<1>3. CASE NextAtEof(h)  BY <1>3 DEF NextAtEof
<1>4. CASE NextNoTemp(h)  BY <1>4 DEF NextNoTemp
<1>5. CASE NextHangs(h)
  <2> DEFINE i == StartsAt(pos, {"named"})
  <2>1. i # 0 /\ pos + HeaderLen(Recs[i]) > Size
    BY <1>5 DEF NextHangs, CutInName
  <2>2. i \in 1 .. Len(Recs) /\ Recs[i].off = pos /\ Recs[i].kind = "named"
    BY <2>1, StartsAtFinds
  <2>3. /\ Recs[i].off + Recs[i].len <= Size
        /\ HeaderLen(Recs[i]) \in Nat /\ Recs[i].len \in Nat
        /\ HeaderLen(Recs[i]) < Recs[i].len
    BY <1>0, <2>2, IntactEnd, RecordShape
  <2> QED  BY <1>0, <2>1, <2>2, <2>3
<1>6. CASE NextGarbage(h)
  <2>1. pos = Size
    <3> SUFFICES ASSUME pos # Size PROVE FALSE  OBVIOUS
    <3> DEFINE i == StartsAt(pos, {"plain"})
    <3>1. i # 0  BY <1>0, <1>6, FindsRecord DEF NextGarbage
    <3>2. i \in 1 .. Len(Recs) /\ Recs[i].off = pos /\ Recs[i].kind = "plain"
      BY <3>1, StartsAtFinds
    <3>3. pos + Recs[i].hdr > Size  BY <1>6, <3>1 DEF NextGarbage
    <3>4. pos + (Recs[i].hdr + Recs[i].data + TrailerLen) <= Size
      <4>1. Recs[i].off + Recs[i].len <= Size  BY <1>0, <3>2, IntactEnd
      <4>2. Recs[i].len = Recs[i].hdr + Recs[i].data + TrailerLen
        BY <1>0, <3>2, PlainShape
      <4> QED  BY <3>2, <4>1, <4>2
    <3>5. Recs[i].hdr \in Nat /\ Recs[i].data \in Nat /\ TrailerLen \in Nat
      BY <1>0, <3>2, RecordShape, ReaderAssumption
    <3>6. pos \in Nat /\ Size \in Nat  BY <1>0
    <3> HIDE DEF i
    <3> QED  BY <3>3, <3>4, <3>5, <3>6
  <2>2. pos' \in Size .. Size - 1 \/ pos' = Upto(Size, Size)
    BY <1>6, <2>1 DEF NextGarbage
  <2>3. NoRecord  BY <1>6 DEF NextGarbage
  <2> QED  BY <1>0, <1>1, <2>1, <2>2, <2>3
<1>7. CASE NextNoMember(h)
  <2>1. pos = Size
    <3> SUFFICES ASSUME pos # Size PROVE FALSE  OBVIOUS
    <3> DEFINE i == StartsAt(pos, Gzipped)
    <3>1. i # 0  BY <1>0, <1>7, FindsRecord DEF NextNoMember
    <3>2. i \in 1 .. Len(Recs) /\ Recs[i].off = pos /\ Recs[i].kind # "plain"
      BY <3>1, StartsAtFinds DEF Gzipped, Slow
    <3>3. pos + HeaderLen(Recs[i]) > Size  BY <1>7, <3>1 DEF NextNoMember, NoMember
    <3>4. Recs[i].off + Recs[i].len <= Size  BY <1>0, <3>2, IntactEnd
    <3>5. /\ HeaderLen(Recs[i]) \in Nat /\ Recs[i].len \in Nat
          /\ HeaderLen(Recs[i]) < Recs[i].len
      BY <1>0, <3>2, RecordShape
    <3> QED  BY <1>0, <3>2, <3>3, <3>4, <3>5
  <2>2. PICK n \in CheckLen .. GzipHeader : pos' = Upto(Size, n)
    BY <1>7, <2>1 DEF NextNoMember
  <2>3. n \in Nat /\ NoRecord  BY <1>7, ReaderAssumption DEF NextNoMember
  <2> QED  BY <1>0, <1>1, <2>1, <2>2, <2>3
<1>8. CASE NextPlain(h)
  <2> DEFINE i   == StartsAt(pos, {"plain"})
             end == pos + Recs[i].hdr + Recs[i].data
  <2>1. i # 0 /\ pos' = Upto(end, TrailerLen)  BY <1>8 DEF NextPlain
  <2>2. i \in 1 .. Len(Recs) /\ Recs[i].off = pos /\ Recs[i].kind = "plain"
    BY <2>1, StartsAtFinds
  <2>3. Recs[i].off + Recs[i].len = end + TrailerLen
    <3>1. Recs[i].len = Recs[i].hdr + Recs[i].data + TrailerLen
      BY <1>0, <2>2, PlainShape
    <3>2. Recs[i].hdr \in Nat /\ Recs[i].data \in Nat /\ TrailerLen \in Nat
      BY <1>0, <2>2, RecordShape, ReaderAssumption
    <3> QED  BY <1>0, <2>2, <3>1, <3>2, SMTT(30)
  <2>4. end + TrailerLen <= Size  BY <1>0, <2>2, <2>3, IntactEnd
  <2>5. end \in Nat /\ TrailerLen \in Nat \ {0}
    BY <1>0, <2>2, RecordShape, ReaderAssumption, SMTT(30)
  <2>6. Upto(end, TrailerLen) = end + TrailerLen
    BY <1>0, <2>4, <2>5 DEF Upto, Least
  <2>7. IF i \in Mute THEN NoRecord ELSE rec[h] = NoRec /\ Give(h, Fresh(i, NoTemp))
    BY <1>8, <2>2 DEF NextPlain, Ask, Mute, Slow
  <2>8. Recs[i].off = pos /\ pos' = pos + Recs[i].len  BY <2>1, <2>2, <2>3, <2>6
  <2> HIDE DEF i
  <2> QED  BY <2>2, <2>7, <2>8 DEF PassesOver
<1>9. CASE NextFast(h)
  <2> DEFINE i  == StartsAt(pos, {"extra"})
             to == (pos + SizeField(Recs[i].len)) % W64
  <2>1. /\ i # 0 /\ rec[h] = NoRec /\ Recs[i].kind = "extra"
        /\ ~(to >= W64 \div 2)
             => pos' = to /\ IF Recs[i].data = 0 THEN NoRecord
                             ELSE Give(h, Fresh(i, NoTemp))
    <3>1. i # 0  BY <1>9 DEF NextFast
    <3>2. i \in 1 .. Len(Recs) /\ Recs[i].kind = "extra"  BY <3>1, StartsAtFinds
    <3>3. Recs[i].reads = "all"  BY <1>2, <3>2
    <3> QED  BY <1>9, <3>1, <3>2, <3>3 DEF NextFast, Ask
  <2>2. i \in 1 .. Len(Recs) /\ Recs[i].off = pos  BY <2>1, StartsAtFinds
  <2>3. /\ Recs[i].len \in Nat /\ Recs[i].len < W32 \div 2 /\ Size < W64 \div 2
    BY <1>0, <2>2, RecordShape DEF SmallMembers, Recs, Size
  <2>4. SizeField(Recs[i].len) = Recs[i].len
    <3>1. W32 \in Nat \ {0} /\ Recs[i].len < W32 /\ ~(Recs[i].len >= W32 \div 2)
      BY <2>3, ReaderAssumption
    <3>2. Recs[i].len % W32 = Recs[i].len  BY <2>3, <3>1, ModSmall
    <3> QED  BY <3>1, <3>2 DEF SizeField
  <2>5. pos + Recs[i].len <= Size  BY <1>0, <2>2, IntactEnd
  <2>6. to = pos + Recs[i].len
    <3>1. W64 \in Nat \ {0} /\ pos + Recs[i].len \in Nat /\ pos + Recs[i].len < W64
      BY <1>0, <2>3, <2>5, ReaderAssumption
    <3> QED  BY <2>4, <3>1, ModSmall
  <2>7. ~(to >= W64 \div 2)
    <3>1. W64 \in Nat  BY ReaderAssumption
    <3> QED  BY <1>0, <2>3, <2>5, <2>6, <3>1
  <2>8. pos' = pos + Recs[i].len  BY <2>1, <2>6, <2>7
  <2>9. IF i \in Mute THEN NoRecord ELSE rec[h] = NoRec /\ Give(h, Fresh(i, NoTemp))
    BY <2>1, <2>2, <2>7 DEF Mute, Slow
  <2> HIDE DEF i, to
  <2> QED  BY <2>2, <2>8, <2>9 DEF PassesOver
<1>10. CASE NextSlow(h)
  <2> DEFINE i == StartsAt(pos, Slow)
  <2>1. i \in 1 .. Len(Recs) /\ Recs[i].off = pos /\ Recs[i].kind \in Slow
    BY <1>10, StartsAtFinds DEF NextSlow
  <2>2. /\ pos' = pos + Recs[i].len /\ rec[h] = NoRec
        /\ \E t : Give(h, Fresh(i, t))
    <3>1. Adjusted(Recs[i]) = {pos + Recs[i].len}  BY <1>0, <2>1, SlowEnd
    <3>2. i # 0 /\ Recs[i].reads = "all"  BY <1>2, <2>1
    <3> QED  BY <1>10, <3>1, <3>2 DEF NextSlow, Ask
  <2>3. i \notin Mute  BY <2>1 DEF Mute
  <2> HIDE DEF i
  <2> QED  BY <2>1, <2>2, <2>3 DEF PassesOver
<1> QED  BY <1>3, <1>4, <1>5, <1>6, <1>7, <1>8, <1>9, <1>10 DEF NextRecord

\* nextRecord goes from record to record.
LEMMA NextRecordBoundary ==
  ASSUME SmallMembers, TypeOK, Sound, pos \in Boundaries,
         NEW h \in Handle, NextRecord(h)
  PROVE  pos' \in Boundaries
<1>1. CASE pos' = pos  BY <1>1
<1>2. ASSUME NEW i \in 1 .. Len(Recs), PassesOver(h, i)  PROVE pos' \in Boundaries
  <2>1. file \in Files  BY DEF TypeOK
  <2> QED  BY <1>2, <2>1, NextBoundary DEF PassesOver, Sound
<1> QED  BY <1>1, <1>2, NextRecordGoes

\* register brings FH back, or leaves it at the record.
LEMMA RegisterBoundary ==
  ASSUME TypeOK, Intact, pos \in Boundaries, NEW h \in Handle, Register(h)
  PROVE  pos' \in Boundaries
<1>1. rec[h].m \in 1 .. Len(Recs) /\ RecOf(h) = Recs[rec[h].m]
  BY RegisterGives, HeldRecord
<1>2. RecOf(h).reads = "all" /\ RecOf(h).off \in Boundaries
  BY <1>1 DEF Intact, Boundaries
<1>3. pos' = pos \/ pos' = RecOf(h).off
  BY <1>2 DEF Register, RegisterPlain, RegisterPlainNoTemp, RegisterSlow,
              RegisterFast, RegisterFastNoTemp, Abort
<1> QED  BY <1>2, <1>3

\* Every step keeps FH at a record of an intact file.
LEMMA AtRecordStep ==
  ASSUME SmallMembers
  PROVE  TypeOK /\ AtRecord /\ [Next]_vars => AtRecord'
<1> SUFFICES ASSUME TypeOK, AtRecord, [Next]_vars, Sound'
             PROVE  pos' \in Boundaries'
  BY DEF AtRecord
<1>0. file' = file
  <2>1. CASE UNCHANGED vars  BY <2>1 DEF vars
  <2>2. ASSUME NEW h \in Handle, NextRecord(h)  PROVE file' = file
    BY <2>2, NextRecordMoves DEF Quiet
  <2>3. ASSUME NEW h \in Handle, Register(h)  PROVE file' = file
    BY <2>3, RegisterGives DEF Quiet
  <2> QED
    BY <2>1, <2>2, <2>3
    DEF Next, HasMore, Seek, Content, GetContent, GetContentNoTemp, Release, Quiet
<1>1. Sound /\ Intact /\ Boundaries' = Boundaries /\ pos \in Boundaries
  BY <1>0, SameFile DEF AtRecord, Sound
<1>2. file \in Files  BY DEF TypeOK
<1>3. CASE UNCHANGED vars  BY <1>1, <1>3 DEF vars
<1>4. CASE HasMore
  <2>1. 0 \in Boundaries  BY <1>2, FileShape DEF Boundaries
  <2> QED  BY <1>1, <1>4, <2>1 DEF HasMore
<1>5. ASSUME NEW i \in 1 .. Len(Recs), Seek(i)  PROVE pos' \in Boundaries'
  BY <1>1, <1>5 DEF Seek, Boundaries
<1>6. ASSUME NEW h \in Handle, NextRecord(h)  PROVE pos' \in Boundaries'
  BY <1>1, <1>6, NextRecordBoundary
<1>7. ASSUME NEW h \in Handle, Register(h)  PROVE pos' \in Boundaries'
  BY <1>1, <1>7, RegisterBoundary
<1>8. ASSUME NEW h \in Handle, Content(h) \/ Release(h)  PROVE pos' \in Boundaries'
  BY <1>1, <1>8 DEF Content, GetContent, GetContentNoTemp, Release, Abort
<1> QED  BY <1>3, <1>4, <1>5, <1>6, <1>7, <1>8 DEF Next

\* Between calls FH is at a record or at the end of the file, as
\* manwarc.sgml:961 says, in every intact file whose compressed members are
\* smaller than 2^31 bytes, which wgzip.c:374 does not sign-extend, and of which
\* none that has a name ends in 0x1f, which wgzip.c:531 would stop at.
THEOREM AtRecordCorrect == ASSUME SmallMembers PROVE Spec => []AtRecord
<1>1. Init => AtRecord
  <2> SUFFICES ASSUME Init PROVE pos \in Boundaries  BY DEF AtRecord
  <2>1. pos = 0 /\ file \in Files  BY DEF Init
  <2> QED  BY <2>1, FileShape DEF Boundaries
<1> QED  BY <1>1, TypeInit, TypeStep, AtRecordStep, PTL DEF Spec

-----------------------------------------------------------------------------
(* The reader is a cursor over the records: refinement of RecordStream.      *)

Kinds == Gzipped \cup {"plain"}

\* The cursor when FH is at offset p.
CursorAt(p) == IF p = Size THEN Len(Recs) + 1 ELSE StartsAt(p, Kinds)

\* No record is empty.
LEMMA RecordSize ==
  ASSUME file \in Files, NEW i \in 1 .. Len(Recs)
  PROVE  Recs[i].off \in Nat /\ Recs[i].len \in Nat /\ Recs[i].len > 0
<1>1. CASE Recs[i].kind = "plain"
  <2>1. Recs[i].hdr > 0 /\ Recs[i].len = Recs[i].hdr + Recs[i].data + TrailerLen
    BY <1>1, FileShape
  <2>2. /\ Recs[i].hdr \in Nat /\ Recs[i].data \in Nat /\ TrailerLen \in Nat
        /\ Recs[i].off \in Nat
    BY RecordShape, ReaderAssumption
  <2> QED  BY <2>1, <2>2, SMTT(30)
<1>2. CASE Recs[i].kind # "plain"  BY <1>2, RecordShape
<1> QED  BY <1>1, <1>2

\* Records begin at different places.
LEMMA OneStart ==
  ASSUME file \in Files, NEW i \in 1 .. Len(Recs), NEW j \in 1 .. Len(Recs),
         Recs[i].off = Recs[j].off
  PROVE  i = j
<1>1. \A k \in 1 .. Len(Recs) : Recs[k].off \in Nat /\ Recs[k].len \in Nat /\ Recs[k].len > 0
  BY RecordSize
<1>2. \A k, l \in 1 .. Len(Recs) : k < l => Recs[k].off + Recs[k].len <= Recs[l].off
  <2> SUFFICES ASSUME NEW k \in 1 .. Len(Recs), NEW l \in 1 .. Len(Recs), k < l
               PROVE  Recs[k].off + Recs[k].len <= Recs[l].off
    OBVIOUS
  <2>1. l \in k + 1 .. Len(Recs)  BY FileShape
  <2> QED  BY <2>1, LaterBehind
<1>3. ~(i < j)
  <2>1. i < j => Recs[i].off + Recs[i].len <= Recs[j].off  BY <1>2
  <2> QED  BY <1>1, <2>1
<1>4. ~(j < i)
  <2>1. j < i => Recs[j].off + Recs[j].len <= Recs[i].off  BY <1>2
  <2> QED  BY <1>1, <2>1
<1>5. i \in Int /\ j \in Int  BY FileShape
<1> QED  BY <1>3, <1>4, <1>5

\* The cursor is at the record that begins where FH is.
LEMMA CursorAtRecord ==
  ASSUME file \in Files, Intact, NEW i \in 1 .. Len(Recs)
  PROVE  /\ CursorAt(Recs[i].off) = i
         /\ CursorAt(Recs[i].off + Recs[i].len) = i + 1
<1>1. \A k \in 1 .. Len(Recs) : CursorAt(Recs[k].off) = k
  <2> SUFFICES ASSUME NEW k \in 1 .. Len(Recs)  PROVE CursorAt(Recs[k].off) = k
    OBVIOUS
  <2>1. Recs[k].kind \in Kinds  BY RecordShape DEF Kinds, Gzipped, Slow
  <2>2. StartsAt(Recs[k].off, Kinds) # 0  BY <2>1, StartsAtComplete
  <2>3. StartsAt(Recs[k].off, Kinds) = k  BY <2>2, StartsAtFinds, OneStart
  <2>4. Recs[k].off # Size
    <3>1. Recs[k].off + Recs[k].len <= Size  BY IntactEnd
    <3>2. Recs[k].off \in Nat /\ Recs[k].len \in Nat /\ Recs[k].len > 0  BY RecordSize
    <3>3. Size \in Nat  BY FileShape
    <3> QED  BY <3>1, <3>2, <3>3
  <2> QED  BY <2>3, <2>4 DEF CursorAt
<1>2. CASE i = Len(Recs)
  <2>1. Recs[i].off + Recs[i].len = Size  BY <1>2 DEF Intact
  <2> QED  BY <1>1, <1>2, <2>1 DEF CursorAt
<1>3. CASE i # Len(Recs)
  <2>1. i + 1 \in 1 .. Len(Recs) /\ i + 1 # 1 /\ (i + 1) - 1 = i
    BY <1>3, FileShape
  <2>2. Recs[i + 1].off = Recs[i].off + Recs[i].len
    BY <2>1, FilesAssumption DEF Recs
  <2> QED  BY <1>1, <2>1, <2>2
<1> QED  BY <1>1, <1>2, <1>3

\* A step that leaves the file alone moves the cursor by moving FH.
LEMMA CursorMoves ==
  ASSUME file' = file
  PROVE  Cursor = CursorAt(pos) /\ Cursor' = CursorAt(pos')
<1>1. Recs' = Recs /\ Size' = Size  BY SameFile
<1>2. StartsAt(pos, Kinds)' = StartsAt(pos', Kinds)  BY <1>1 DEF StartsAt
<1> QED  BY <1>1, <1>2 DEF CursorAt, Cursor, Kinds

\* Such a step leaves what RecordStream says of the file.
LEMMA SameStreamFile ==
  ASSUME file' = file
  PROVE  /\ Recs' = Recs /\ (Sound <=> Sound') /\ Mute' = Mute
         /\ UNCHANGED Stream!File
<1>1. Recs' = Recs /\ (Sound <=> Sound')  BY SameFile
<1>2. Mute' = Mute  BY <1>1 DEF Mute
<1>3. Sound' = Sound  BY <1>1 DEF Sound, Intact, Unmarked
<1> QED  BY <1>1, <1>2, <1>3 DEF Stream!File

\* A step that leaves the records held.
LEMMA SameHeld == ASSUME rec' = rec PROVE Holding' = Holding
BY DEF Holding

\* The record behind one handle is another.
LEMMA HoldingChanges ==
  ASSUME TypeOK, NEW h \in Handle, NEW r, rec' = [rec EXCEPT ![h] = r]
  PROVE  Holding' = [Holding EXCEPT ![h] = r.m]
<1>1. \A g \in Handle : rec'[g] = IF g = h THEN r ELSE rec[g]  BY DEF TypeOK
<1>2. Holding' = [g \in Handle |-> IF g = h THEN r.m ELSE rec[g].m]
  <2>1. Holding' = [g \in Handle |-> rec'[g].m]  BY DEF Holding
  <2> QED  BY <1>1, <2>1
<1>3. [Holding EXCEPT ![h] = r.m] = [g \in Handle |-> IF g = h THEN r.m ELSE rec[g].m]
  BY DEF Holding
<1> QED  BY <1>2, <1>3

\* A registration leaves the record behind its handle.
LEMMA RegisteredHeld ==
  ASSUME TypeOK, NEW h \in Handle, NEW t, NEW result, Registered(h, t, result)
  PROVE  Holding' = Holding
<1> DEFINE r == [m |-> rec[h].m, regs |-> rec[h].regs + 1, tmp |-> t]
<1>1. rec' = [rec EXCEPT ![h] = r] /\ r.m = rec[h].m  BY DEF Registered
<1>2. Holding' = [Holding EXCEPT ![h] = rec[h].m]
  <2> HIDE DEF r
  <2> QED  BY <1>1, HoldingChanges
<1> QED  BY <1>2 DEF Holding

\* What the reader says of an intact file it says as RecordStream does.
LEMMA Promised ==
  ASSUME SmallMembers, TypeOK, Sound, pos \in Boundaries, Next
  PROVE  file' = file => Stream!Promise
<1> SUFFICES ASSUME file' = file PROVE Stream!Promise  OBVIOUS
<1> Intact  BY DEF Sound
<1> USE DEF Stream!Promise, Stream!Answer
<1>0. file \in Files /\ Len(Recs) \in Nat \ {0}  BY FileShape DEF TypeOK
<1>a. UNCHANGED Stream!File  BY SameStreamFile
<1>b. /\ Cursor = CursorAt(pos) /\ Cursor' = CursorAt(pos')
      /\ pos' = pos => Cursor' = Cursor
  BY CursorMoves
<1>1. CASE HasMore
  <2>1. Holding' = Holding  BY <1>1, SameHeld DEF HasMore
  <2>2. CASE pos = Size
    <3>1. Cursor = Len(Recs) + 1  BY <2>2 DEF Cursor
    <3>2. pos' = Recs[1].off /\ ret' = "no"  BY <1>0, <1>1, <2>2, FileShape DEF HasMore
    <3>3. Cursor' = 1  BY <1>0, <3>2, <1>b, CursorAtRecord
    <3> QED  BY <2>1, <3>1, <3>2, <3>3, <1>a DEF Stream!Over
  <2>3. CASE pos # Size
    <3>1. PICK i \in 1 .. Len(Recs) : pos = Recs[i].off  BY <2>3 DEF Boundaries
    <3>2. Cursor = i  BY <1>0, <3>1, <1>b, CursorAtRecord
    <3>3. Cursor' = Cursor /\ ret' = "yes" /\ Cursor <= Len(Recs)
      BY <1>0, <1>1, <1>b, <2>3, <3>2 DEF HasMore
    <3> QED  BY <2>1, <3>2, <3>3, <1>a DEF Stream!More
  <2> QED  BY <2>2, <2>3
<1>2. ASSUME NEW i \in 1 .. Len(Recs), Seek(i)  PROVE Stream!Promise
  <2>1. Holding' = Holding /\ ret' = "sought" /\ pos' = Recs[i].off
    BY <1>2, SameHeld DEF Seek
  <2>2. Cursor' = i  BY <1>0, <2>1, <1>b, CursorAtRecord
  <2>3. Stream!Seek(i)  BY <2>1, <2>2, <1>a DEF Stream!Seek
  <2> QED  BY <2>3
<1>3. ASSUME NEW h \in Handle, NextRecord(h)  PROVE Stream!Promise
  <2>1. CASE pos' = pos /\ NoRecord
    <3>1. Holding' = Holding /\ ret' = "nil" /\ Cursor' = Cursor
      BY <1>b, <2>1, SameHeld DEF NoRecord
    <3> QED  BY <1>3, <3>1, <1>a DEF Stream!Nothing
  <2>2. ASSUME NEW i \in 1 .. Len(Recs), PassesOver(h, i)  PROVE Stream!Promise
    <3>1. Cursor = i /\ Cursor' = Cursor + 1
      BY <1>0, <2>2, <1>b, CursorAtRecord DEF PassesOver
    <3>2. CASE i \in Mute
      <4>1. Holding' = Holding /\ ret' = "nil"
        BY <2>2, <3>2, SameHeld DEF PassesOver, NoRecord
      <4> QED  BY <1>3, <3>1, <3>2, <4>1, <1>a DEF Stream!Nothing
    <3>3. CASE i \notin Mute
      <4>1. PICK t : Give(h, Fresh(i, t))  BY <2>2, <3>3 DEF PassesOver
      <4>2. rec[h] = NoRec  BY <2>2, <3>3 DEF PassesOver
      <4>3. Holding[h] = 0  BY <1>3, <4>2 DEF Holding, NoRec
      <4>4. Fresh(i, t).m = i  BY DEF Fresh
      <4>5. Holding' = [Holding EXCEPT ![h] = i] /\ ret' = "record"
        BY <1>3, <4>1, <4>4, HoldingChanges DEF Give
      <4>6. Stream!Read(h)  BY <1>3, <3>1, <3>3, <4>3, <4>5, <1>a DEF Stream!Read
      <4> QED  BY <1>3, <4>6
    <3> QED  BY <3>2, <3>3
  <2> QED  BY <1>3, <2>1, <2>2, NextRecordGoes
<1>4. ASSUME NEW h \in Handle, Register(h)  PROVE Stream!Promise
  <2> DEFINE i == rec[h].m
  <2>1. i \in 1 .. Len(Recs) /\ RecOf(h) = Recs[i] /\ Holding[h] = i
    BY <1>4, RegisterGives, HeldRecord DEF Holding
  <2>2. RecOf(h).reads = "all"  BY <2>1 DEF Intact
  <2>3. \/ Abort /\ rec' = rec
        \/ pos' = pos /\ \E t, result : result \in {"ok", "error"} /\ Registered(h, t, result)
        \/ pos' = Recs[i].off /\ \E t : Registered(h, t, "error")
    <3>1. CASE RegisterPlain(h)  BY <3>1 DEF RegisterPlain
    <3>2. CASE RegisterPlainNoTemp(h)  BY <3>2 DEF RegisterPlainNoTemp
    <3>3. CASE RegisterSlow(h)  BY <3>3 DEF RegisterSlow
    <3>4. CASE RegisterFast(h)  BY <2>2, <3>4 DEF RegisterFast
    <3>5. CASE RegisterFastNoTemp(h)  BY <2>1, <3>5 DEF RegisterFastNoTemp
    <3> QED  BY <1>4, <3>1, <3>2, <3>3, <3>4, <3>5 DEF Register
  <2>4. CASE Abort /\ rec' = rec
    <3>1. Holding' = Holding /\ ret' = "aborted" /\ Cursor' = Cursor
      BY <1>b, <2>4, SameHeld DEF Abort
    <3> QED  BY <1>4, <3>1, <1>a DEF Stream!Abort
  <2>5. ASSUME NEW t, NEW result \in {"ok", "error"}, Registered(h, t, result), pos' = pos
        PROVE  Stream!Promise
    <3>1. Holding' = Holding /\ ret' = result /\ Cursor' = Cursor
      BY <1>b, <1>4, <2>5, RegisteredHeld DEF Registered
    <3>2. Holding[h] # 0  BY <1>0, <2>1
    <3>3. Stream!Use(h) \/ Stream!Fail(h)
      BY <1>4, <2>5, <3>1, <3>2, <1>a DEF Stream!Use, Stream!Fail
    <3> QED  BY <1>4, <3>3
  <2>6. ASSUME NEW t, Registered(h, t, "error"), pos' = Recs[i].off
        PROVE  Stream!Promise
    <3>1. Holding' = Holding /\ ret' = "error"
      BY <1>4, <2>6, RegisteredHeld DEF Registered
    <3>2. Cursor' = Holding[h]  BY <1>0, <2>1, <2>6, <1>b, CursorAtRecord
    <3>3. Stream!Fail(h)  BY <1>4, <3>1, <3>2, <1>a DEF Stream!Fail
    <3> QED  BY <1>4, <3>3
  <2> QED  BY <2>3, <2>4, <2>5, <2>6
<1>5. ASSUME NEW h \in Handle, GetContent(h)  PROVE Stream!Promise
  <2>1. Holding' = Holding /\ ret' = "content" /\ Cursor' = Cursor
    BY <1>b, <1>5, SameHeld DEF GetContent
  <2>2. rec[h] # NoRec  BY <1>5 DEF GetContent, NoRec
  <2>3. Holding[h] # 0  BY <1>0, <1>5, <2>2, HeldRecord DEF Holding
  <2>4. Stream!Use(h)  BY <1>5, <2>1, <2>3, <1>a DEF Stream!Use
  <2> QED  BY <1>5, <2>4
<1>6. ASSUME NEW h \in Handle, GetContentNoTemp(h)  PROVE Stream!Promise
  <2>1. Holding' = Holding /\ ret' = "aborted" /\ Cursor' = Cursor
    BY <1>b, <1>6, SameHeld DEF GetContentNoTemp, Abort
  <2> QED  BY <1>6, <2>1, <1>a DEF Stream!Abort
<1>7. ASSUME NEW h \in Handle, Release(h)  PROVE Stream!Promise
  <2>1. Holding' = [Holding EXCEPT ![h] = NoRec.m]  BY <1>7, HoldingChanges DEF Release
  <2>2. Holding' = [Holding EXCEPT ![h] = 0] /\ ret' = "released" /\ Cursor' = Cursor
    BY <1>b, <1>7, <2>1 DEF Release, NoRec
  <2>3. Stream!Release(h)  BY <1>7, <2>2, <1>a DEF Stream!Release
  <2> QED  BY <1>7, <2>3
<1> QED  BY <1>1, <1>2, <1>3, <1>4, <1>5, <1>6, <1>7 DEF Next, Content

\* No call changes the file.
LEMMA FileStays == ASSUME TypeOK, [Next]_vars PROVE file' = file
<1>1. ASSUME NEW h \in Handle, NextRecord(h)  PROVE file' = file
  BY <1>1, NextRecordMoves DEF Quiet
<1>2. ASSUME NEW h \in Handle, Register(h)  PROVE file' = file
  BY <1>2, RegisterGives DEF Quiet
<1> QED
  BY <1>1, <1>2
  DEF vars, Next, HasMore, Seek, Content, GetContent, GetContentNoTemp, Release, Quiet

\* WFile_hasMoreRecords, WFile_nextRecord, WFile_seek and WFile_register are
\* together a cursor over the records of an intact file whose members are below
\* 2^31 bytes, none with a name ending in 0x1f: each is given once, in order, and none
\* but these moves it.
THEOREM StreamCorrect == ASSUME SmallMembers PROVE Spec => StreamSpec
<1>1. Init => Stream!Init
  <2> SUFFICES ASSUME Init PROVE Stream!Init  OBVIOUS
  <2>1. file \in Files /\ pos = 0  BY DEF Init
  <2>2. Len(Recs) \in Nat /\ Recs[1].off = 0  BY <2>1, FileShape
  <2>3. Holding = [h \in Handle |-> 0]  BY DEF Init, Holding, NoRec
  <2>4. Sound \in BOOLEAN /\ Mute \subseteq 1 .. Len(Recs)  BY DEF Sound, Intact, Unmarked, Mute
  <2>5. Cursor = 1
    <3>1. 1 \in 1 .. Len(Recs) /\ Recs[1].kind \in Kinds
      BY <2>1, FileShape, RecordShape DEF Kinds, Gzipped, Slow
    <3>2. StartsAt(pos, Kinds) # 0  BY <2>1, <2>2, <3>1, StartsAtComplete
    <3>3. StartsAt(pos, Kinds) = 1  BY <2>1, <2>2, <3>1, <3>2, StartsAtFinds, OneStart
    <3>4. pos # Size  BY <2>1, FilesAssumption DEF Size
    <3> QED  BY <3>3, <3>4 DEF Cursor, Kinds
  <2> QED  BY <2>2, <2>3, <2>4, <2>5 DEF Stream!Init, Init
<1>2. TypeOK /\ AtRecord /\ [Next]_vars => [Stream!Next]_(Stream!rvars)
  <2> SUFFICES ASSUME TypeOK, AtRecord, [Next]_vars
               PROVE  [Stream!Next]_(Stream!rvars)
    OBVIOUS
  <2>1. file' = file  BY FileStays
  <2>2. CASE UNCHANGED vars
    <3>1. Cursor' = Cursor /\ Holding' = Holding /\ UNCHANGED Stream!File
      BY <2>1, <2>2, CursorMoves, SameHeld, SameStreamFile DEF vars
    <3> QED  BY <2>2, <3>1 DEF vars, Stream!rvars, Stream!File
  <2>3. CASE Next
    <3>1. Sound => Stream!Promise  BY <2>1, <2>3, Promised DEF AtRecord
    <3> QED  BY <3>1 DEF Stream!Next
  <2> QED  BY <2>2, <2>3
<1> QED  BY <1>1, <1>2, TypeCorrect, AtRecordCorrect, PTL DEF Spec, StreamSpec, Stream!Spec

-----------------------------------------------------------------------------
(* The validator: its calls are calls of the reader. *)

\* Its calls are calls that any application may make.
LEMMA ReaderStep == [VNext]_allVars => [Next]_vars
<1>1. VNext => Next
  BY DEF VNext, AskMore, Fetch, RegisterIt, ReadIt, DestroyIt, Next
<1>2. UNCHANGED allVars => UNCHANGED vars  BY DEF allVars, vars
<1> QED  BY <1>1, <1>2

\* The type invariant of the reader, in the validator.
THEOREM ValidatorTypeCorrect == VSpec => []TypeOK
<1>1. VInit => TypeOK  BY TypeInit DEF VInit
<1>2. TypeOK /\ [VNext]_allVars => TypeOK'  BY ReaderStep, TypeStep
<1> QED  BY <1>1, <1>2, PTL DEF VSpec

\* The file stays what it is.
LEMMA FileKept ==
  ASSUME TypeOK, [Next]_vars
  PROVE  file' = file
<1>1. CASE UNCHANGED vars  BY <1>1 DEF vars
<1>2. ASSUME NEW h \in Handle, NextRecord(h) PROVE file' = file
  BY <1>2, NextRecordMoves DEF Quiet
<1>3. ASSUME NEW h \in Handle, Register(h) PROVE file' = file
  BY <1>3, RegisterGives DEF Quiet
<1> QED
  BY <1>1, <1>2, <1>3
  DEF Next, HasMore, Seek, Content, GetContent, GetContentNoTemp, Release, Quiet

-----------------------------------------------------------------------------
(* An undamaged file. *)

NoEmpty == \A i \in 1 .. Len(Recs) : ~Empty(Recs[i])

\* At a record of an undamaged file nextRecord gives one, if a temporary file can be
\* created and the record is not empty.
LEMMA GivesRecord ==
  ASSUME SmallMembers, "nomem" \notin Faults, TypeOK, Intact, NoEmpty,
         pos \in Boundaries, pos # Size, ~eof, NEW h \in Handle, NextRecord(h)
  PROVE  ret' = "record" /\ ~eof'
<1>0. file \in Files /\ pos \in Nat /\ Size \in Nat  BY FileShape DEF TypeOK
<1>1. ~NextAtEof(h) /\ ~NextNoTemp(h)  BY DEF NextAtEof, NextNoTemp
<1>2. ASSUME NextGarbage(h) PROVE FALSE
  <2> DEFINE i == StartsAt(pos, {"plain"})
  <2>1. i # 0 /\ pos + Recs[i].hdr > Size  BY <1>0, <1>2, FindsRecord DEF NextGarbage
  <2>2. i \in 1 .. Len(Recs) /\ Recs[i].off = pos /\ Recs[i].kind = "plain"
    BY <2>1, StartsAtFinds
  <2>3. Recs[i].off + Recs[i].len <= Size  BY <1>0, <2>2, IntactEnd
  <2>4. Recs[i].len = Recs[i].hdr + Recs[i].data + TrailerLen  BY <1>0, <2>2, PlainShape
  <2>5. Recs[i].hdr \in Nat /\ Recs[i].data \in Nat /\ TrailerLen \in Nat
    BY <1>0, <2>2, RecordShape, ReaderAssumption
  <2>6. pos + (Recs[i].hdr + Recs[i].data + TrailerLen) <= Size  BY <2>2, <2>3, <2>4
  <2>7. pos \in Nat /\ Size \in Nat /\ pos + Recs[i].hdr > Size  BY <1>0, <2>1
  <2> HIDE DEF i
  <2> QED  BY <2>5, <2>6, <2>7
<1>3. ASSUME NEW i, i \in 1 .. Len(Recs), Recs[i].off = pos, Recs[i].kind # "plain",
             pos + HeaderLen(Recs[i]) > Size
      PROVE  FALSE
  <2>1. Recs[i].off + Recs[i].len <= Size  BY <1>0, <1>3, IntactEnd
  <2>2. /\ HeaderLen(Recs[i]) \in Nat /\ Recs[i].len \in Nat
        /\ HeaderLen(Recs[i]) < Recs[i].len
    BY <1>0, <1>3, RecordShape
  <2> QED  BY <1>0, <1>3, <2>1, <2>2
<1>4. ASSUME NextHangs(h) PROVE FALSE
  <2> DEFINE i == StartsAt(pos, {"named"})
  <2>1. i # 0 /\ pos + HeaderLen(Recs[i]) > Size  BY <1>4 DEF NextHangs, CutInName
  <2>2. i \in 1 .. Len(Recs) /\ Recs[i].off = pos /\ Recs[i].kind # "plain"
    BY <2>1, StartsAtFinds
  <2> QED  BY <1>3, <2>1, <2>2
<1>5. ASSUME NextNoMember(h) PROVE FALSE
  <2> DEFINE i == StartsAt(pos, Gzipped)
  <2>1. i # 0 /\ pos + HeaderLen(Recs[i]) > Size
    BY <1>0, <1>5, FindsRecord DEF NextNoMember, NoMember
  <2>2. i \in 1 .. Len(Recs) /\ Recs[i].off = pos /\ Recs[i].kind # "plain"
    BY <2>1, StartsAtFinds DEF Gzipped, Slow
  <2> QED  BY <1>3, <2>1, <2>2
<1>6. CASE NextPlain(h)
  <2> DEFINE i   == StartsAt(pos, {"plain"})
             end == pos + Recs[i].hdr + Recs[i].data
  <2>1. /\ i # 0 /\ eof' = Short(end, TrailerLen)
        /\ IF Recs[i].data = 0 THEN NoRecord ELSE Give(h, Fresh(i, NoTemp))
    BY <1>6 DEF NextPlain
  <2>2. i \in 1 .. Len(Recs) /\ Recs[i].off = pos /\ Recs[i].kind = "plain"
    BY <2>1, StartsAtFinds
  <2>3. Recs[i].data # 0  BY <2>2 DEF NoEmpty, Empty, Slow
  <2>4. end + TrailerLen <= Size
    <3>1. Recs[i].len = Recs[i].hdr + Recs[i].data + TrailerLen  BY <1>0, <2>2, PlainShape
    <3>2. Recs[i].hdr \in Nat /\ Recs[i].data \in Nat /\ TrailerLen \in Nat
      BY <1>0, <2>2, RecordShape, ReaderAssumption
    <3>3. Recs[i].off + Recs[i].len <= Size  BY <1>0, <2>2, IntactEnd
    <3> QED  BY <1>0, <2>2, <3>1, <3>2, <3>3
  <2>5. end \in Nat /\ TrailerLen \in Nat
    BY <1>0, <2>2, RecordShape, ReaderAssumption, SMTT(30)
  <2>6. ~Short(end, TrailerLen)
    <3> HIDE DEF end
    <3> QED  BY <1>0, <2>4, <2>5 DEF Short
  <2> QED  BY <2>1, <2>3, <2>6 DEF Give
<1>7. CASE NextFast(h)
  <2> DEFINE i  == StartsAt(pos, {"extra"})
             to == (pos + SizeField(Recs[i].len)) % W64
  <2>1. i # 0  BY <1>7 DEF NextFast
  <2>2. i \in 1 .. Len(Recs) /\ Recs[i].off = pos /\ Recs[i].kind = "extra"
    BY <2>1, StartsAtFinds
  <2>3. Recs[i].reads = "all" /\ Recs[i].data # 0
    BY <2>2 DEF Intact, NoEmpty, Empty, Slow
  <2>4. /\ Recs[i].len \in Nat /\ Recs[i].len < W32 \div 2 /\ Size < W64 \div 2
    BY <1>0, <2>2, RecordShape DEF SmallMembers, Recs, Size
  <2>5. SizeField(Recs[i].len) = Recs[i].len
    <3>1. W32 \in Nat \ {0} /\ Recs[i].len < W32 /\ ~(Recs[i].len >= W32 \div 2)
      BY <2>4, ReaderAssumption
    <3>2. Recs[i].len % W32 = Recs[i].len  BY <2>4, <3>1, ModSmall
    <3> QED  BY <3>1, <3>2 DEF SizeField
  <2>6. pos + Recs[i].len <= Size  BY <1>0, <2>2, IntactEnd
  <2>7. ~(to >= W64 \div 2)
    <3>1. W64 \in Nat \ {0} /\ pos + Recs[i].len \in Nat /\ pos + Recs[i].len < W64 \div 2
          /\ pos + Recs[i].len < W64
      BY <1>0, <2>4, <2>6, ReaderAssumption
    <3>2. to = pos + Recs[i].len  BY <2>5, <3>1, ModSmall
    <3> HIDE DEF i, to
    <3> QED  BY <3>1, <3>2
  <2> QED  BY <1>7, <2>3, <2>7 DEF NextFast, Give
<1>8. CASE NextSlow(h)
  <2> DEFINE i == StartsAt(pos, Slow)
  <2>1. i \in 1 .. Len(Recs)  BY <1>8, StartsAtFinds DEF NextSlow
  <2>2. Recs[i].reads = "all"  BY <2>1 DEF Intact
  <2> QED  BY <1>8, <2>2 DEF NextSlow, Give
<1> QED  BY <1>1, <1>2, <1>4, <1>5, <1>6, <1>7, <1>8 DEF NextRecord

\* In an undamaged file the loop always finds another record, until it is done.
Complete ==
  Sound /\ NoEmpty /\ alive =>
    /\ ~eof
    /\ step = "next" => pos # Size
    /\ verdict = "valid"

LEMMA CompleteStep ==
  ASSUME SmallMembers, "nomem" \notin Faults, TypeOK, AtRecord, Complete, [VNext]_allVars
  PROVE  Complete'
<1>1. file' = file  BY ReaderStep, FileKept
<1>2. /\ Sound' = Sound /\ NoEmpty' = NoEmpty /\ Size' = Size /\ alive \in BOOLEAN
      /\ Sound => Intact
  BY <1>1 DEF Sound, Intact, Unmarked, NoEmpty, Empty, Recs, Size, Compressed, TypeOK
<1> SUFFICES ASSUME Sound, Intact, NoEmpty, alive'
             PROVE  ~eof' /\ (step' = "next" => pos' # Size) /\ verdict' = "valid"
  BY <1>2 DEF Complete
<1>3. alive
  <2>1. CASE UNCHANGED allVars  BY <2>1, SMTT(30) DEF allVars, vars
  <2>2. CASE VNext
    BY <2>2
       DEF VNext, AskMore, Fetch, RegisterIt, ReadIt, DestroyIt, HasMore, NextRecord,
           NextAtEof, NextPlain, NextGarbage, NextFast, NextSlow, NextHangs, NextNoMember,
           NextNoTemp, Ask, Register, RegisterPlain, RegisterPlainNoTemp, RegisterSlow,
           RegisterFast, RegisterFastNoTemp, Registering, Content, GetContent,
           GetContentNoTemp, Release
  <2> QED  BY <2>1, <2>2
<1>4. ~eof /\ (step = "next" => pos # Size) /\ verdict = "valid" /\ pos \in Boundaries
  BY <1>3 DEF Complete, AtRecord
<1>5. CASE AskMore  BY <1>2, <1>4, <1>5 DEF AskMore, HasMore, Call
<1>6. CASE Fetch
  <2>1. step = "next"  BY <1>6 DEF Fetch, Call
  <2>2. ret' = "record" /\ ~eof'  BY <1>4, <1>6, <2>1, GivesRecord DEF Fetch
  <2> QED  BY <1>4, <1>6, <2>2 DEF Fetch, Call
<1>7. CASE RegisterIt
  <2>1. PICK h \in Handle : Register(h)  BY <1>7 DEF RegisterIt
  <2>2. Recs[rec[h].m].reads = "all"
    <3>1. rec[h].m \in 1 .. Len(Recs)  BY <2>1, RegisterGives, HeldRecord
    <3> QED  BY <3>1 DEF Intact
  <2>3. ~eof'
    BY <1>4, <2>1, <2>2
       DEF Register, RegisterPlain, RegisterPlainNoTemp, RegisterSlow, RegisterFast,
           RegisterFastNoTemp, RecOf, Abort
  <2> QED  BY <1>4, <1>7, <2>3 DEF RegisterIt, Call
<1>8. CASE ReadIt
  BY <1>4, <1>8 DEF ReadIt, Content, GetContent, GetContentNoTemp, Abort, Call
<1>9. CASE DestroyIt  BY <1>4, <1>9 DEF DestroyIt, Release, Call
<1>10. CASE UNCHANGED allVars  BY <1>2, <1>4, <1>10 DEF allVars, vars
<1> QED  BY <1>5, <1>6, <1>7, <1>8, <1>9, <1>10 DEF VNext

\* The validator calls a file invalid (warcvalidator.c:127) only if it is damaged, has an
\* empty record or a named member that ends in 0x1f, in every file whose members are smaller
\* than 2^31 bytes, unless a temporary file cannot be created: its own registering and
\* reading never leaves FH where the next record is not found.
THEOREM ValidatorCompleteCorrect ==
  ASSUME SmallMembers, "nomem" \notin Faults
  PROVE  VSpec => []ValidatorComplete
<1>1. VInit => TypeOK /\ AtRecord /\ Complete
  <2> SUFFICES ASSUME VInit PROVE TypeOK /\ AtRecord /\ Complete  OBVIOUS
  <2>1. Init /\ step = "more" /\ verdict = "valid"  BY DEF VInit
  <2>2. file \in Files /\ pos = 0 /\ ~eof  BY <2>1 DEF Init
  <2>3. pos \in Boundaries  BY <2>2, FileShape DEF Boundaries
  <2> QED  BY <2>1, <2>2, <2>3, TypeInit DEF AtRecord, Complete
<1>2. TypeOK /\ AtRecord /\ Complete /\ [VNext]_allVars => (TypeOK /\ AtRecord /\ Complete)'
  BY ReaderStep, TypeStep, AtRecordStep, CompleteStep
<1>3. Complete => ValidatorComplete
  BY DEF Complete, ValidatorComplete, Judged, NoEmpty
<1> QED  BY <1>1, <1>2, <1>3, PTL DEF VSpec

-----------------------------------------------------------------------------
(* An uncompressed file. *)

\* The records are those that begin in the file.
BeginInFile == \A f \in Files : \A i \in 1 .. Len(f.recs) : f.recs[i].off < f.size

\* Where FH is behind a record of an uncompressed file.
Behind(i) ==
  /\ Recs[i].kind = "plain"
  /\ pos = Upto(Recs[i].off + Recs[i].hdr + Recs[i].data, TrailerLen)

\* FH is at the start or behind a record until the verdict, and what is held was
\* read uncompressed; a file found to end has all data.
Noticing ==
  ~Compressed /\ alive /\ verdict = "valid" =>
    /\ \A h \in Handle : rec[h] # NoRec => RecOf(h).kind = "plain"
    /\ step # "done" => pos = 0 \/ \E i \in 1 .. Len(Recs) : Behind(i)
    /\ step = "done" =>
         Recs[Len(Recs)].off + Recs[Len(Recs)].hdr + Recs[Len(Recs)].data <= Size

\* The end of the file is met behind the last record only, and after its data.
LEMMA EndBehindLast ==
  ASSUME BeginInFile, file \in Files, NEW i \in 1 .. Len(Recs), Behind(i), pos = Size
  PROVE  Recs[Len(Recs)].off + Recs[Len(Recs)].hdr + Recs[Len(Recs)].data <= Size
<1> DEFINE end == Recs[i].off + Recs[i].hdr + Recs[i].data
           n == Len(Recs)
<1>1. end \in Nat /\ TrailerLen \in Nat \ {0} /\ Size \in Nat \ {0} /\ n \in Nat \ {0}
  <2>1. Recs[i].off \in Nat /\ Recs[i].hdr \in Nat /\ Recs[i].data \in Nat  BY RecordShape
  <2>2. Size \in Nat \ {0} /\ n \in Nat \ {0}
    BY FileShape, FilesAssumption DEF Size
  <2> QED  BY <2>1, <2>2, ReaderAssumption, SMTT(30)
<1>2. pos = Upto(end, TrailerLen)  BY DEF Behind
<1> HIDE DEF end
<1>3. end <= Size  BY <1>1, <1>2 DEF Upto, Least
<1>4. CASE i = n  BY <1>3, <1>4 DEF end
<1>5. CASE i # n
  <2>1. i + 1 \in 1 .. n /\ i + 1 # 1 /\ (i + 1) - 1 = i  BY <1>1, <1>5
  <2>2. Recs[i + 1].off = Recs[i].off + Recs[i].len
    BY <2>1, FilesAssumption, SMTT(30) DEF Recs
  <2>3. Recs[i].len = Recs[i].hdr + Recs[i].data + TrailerLen  BY PlainShape DEF Behind
  <2>4. Recs[i + 1].off = end + TrailerLen
    <3>1. Recs[i].off \in Nat /\ Recs[i].hdr \in Nat /\ Recs[i].data \in Nat
      BY RecordShape
    <3> QED  BY <1>1, <2>2, <2>3, <3>1, SMTT(30) DEF end
  <2>5. Recs[i + 1].off < Size  BY <2>1 DEF BeginInFile, Recs, Size
  <2> QED  BY <1>1, <1>2, <2>4, <2>5 DEF Upto, Least
<1> QED  BY <1>4, <1>5

\* A record that nextRecord gives of an uncompressed file is the one FH is then behind.
LEMMA PlainRecord ==
  ASSUME TypeOK, ~Compressed, NEW h \in Handle, NextRecord(h), ret' = "record"
  PROVE  \E i \in 1 .. Len(Recs) :
           /\ Recs[i].kind = "plain" /\ rec' = [rec EXCEPT ![h] = Fresh(i, NoTemp)]
           /\ pos' = Upto(Recs[i].off + Recs[i].hdr + Recs[i].data, TrailerLen)
<1>1. NextPlain(h)
  BY DEF NextRecord, NextAtEof, NextGarbage, NextFast, NextSlow, NextHangs, NextNoMember,
         NextNoTemp, NoRecord
<1> DEFINE i == StartsAt(pos, {"plain"})
<1>2. /\ i # 0 /\ pos' = Upto(pos + Recs[i].hdr + Recs[i].data, TrailerLen)
      /\ IF Recs[i].data = 0 THEN NoRecord ELSE Give(h, Fresh(i, NoTemp))
  BY <1>1 DEF NextPlain
<1>3. i \in 1 .. Len(Recs) /\ Recs[i].off = pos /\ Recs[i].kind = "plain"
  BY <1>2, StartsAtFinds
<1>4. rec' = [rec EXCEPT ![h] = Fresh(i, NoTemp)]  BY <1>2 DEF NoRecord, Give
<1> HIDE DEF i
<1> QED  BY <1>2, <1>3, <1>4

LEMMA NoticingStep ==
  ASSUME BeginInFile, TypeOK, Noticing, [VNext]_allVars
  PROVE  Noticing'
<1>0. file' = file /\ Recs' = Recs /\ Size' = Size /\ Compressed' = Compressed
      /\ file \in Files /\ Size \in Nat \ {0}
  <2>1. file' = file /\ file \in Files  BY ReaderStep, FileKept DEF TypeOK
  <2>2. Size \in Nat \ {0}  BY <2>1, FilesAssumption DEF Size
  <2> QED  BY <2>1, <2>2 DEF Recs, Size, Compressed
<1>1. \A i : (Behind(i) /\ pos' = pos) => Behind(i)'  BY <1>0 DEF Behind, Upto, Least
<1> DEFINE Told == Recs[Len(Recs)].off + Recs[Len(Recs)].hdr + Recs[Len(Recs)].data <= Size
           Held == \A h \in Handle : rec[h] # NoRec => RecOf(h).kind = "plain"
           There == pos = 0 \/ \E i \in 1 .. Len(Recs) : Behind(i)
<1> SUFFICES ASSUME ~Compressed, alive', verdict' = "valid"
             PROVE  Held' /\ (step' # "done" => There') /\ (step' = "done" => Told)
  BY <1>0 DEF Noticing
<1>2. CASE UNCHANGED allVars
  <2>1. UNCHANGED <<pos, rec, alive, step, verdict>>  BY <1>2 DEF allVars, vars
  <2>2. Held /\ (step # "done" => There) /\ (step = "done" => Told)
    BY <2>1 DEF Noticing
  <2> QED  BY <1>0, <1>1, <2>1, <2>2 DEF RecOf
<1>3. CASE VNext
  <2>1. alive
    BY <1>3
       DEF VNext, AskMore, Fetch, RegisterIt, ReadIt, DestroyIt, HasMore, NextRecord,
           NextAtEof, NextPlain, NextGarbage, NextFast, NextSlow, NextHangs, NextNoMember,
           NextNoTemp, Ask, Register, RegisterPlain, RegisterPlainNoTemp, RegisterSlow,
           RegisterFast, RegisterFastNoTemp, Registering, Content, GetContent,
           GetContentNoTemp, Release
  <2>2. step # "done" /\ verdict = "valid"
    BY <1>3 DEF VNext, AskMore, Fetch, RegisterIt, ReadIt, DestroyIt, Call
  <2>3. Held /\ There  BY <2>1, <2>2 DEF Noticing
  <2>4. CASE AskMore
    <3>1. Held'  BY <1>0, <2>3, <2>4 DEF AskMore, HasMore, RecOf
    <3>2. CASE pos = Size
      <4>1. step' = "done"  BY <2>4, <3>2 DEF AskMore, HasMore, Call
      <4>2. Told  BY <1>0, <2>3, <3>2, EndBehindLast
      <4> QED  BY <3>1, <4>1, <4>2
    <3>3. CASE pos # Size
      <4>1. step' = "next" /\ pos' = pos  BY <2>4, <3>3 DEF AskMore, HasMore, Call
      <4>2. There'  BY <1>0, <1>1, <2>3, <4>1
      <4> QED  BY <3>1, <4>1, <4>2
    <3> QED  BY <3>2, <3>3
  <2>5. CASE Fetch
    <3>1. PICK h \in Handle : NextRecord(h)  BY <2>5 DEF Fetch
    <3>2. ret' = "record" /\ step' = "register"  BY <2>5 DEF Fetch, Call
    <3>3. PICK i \in 1 .. Len(Recs) :
            /\ Recs[i].kind = "plain" /\ rec' = [rec EXCEPT ![h] = Fresh(i, NoTemp)]
            /\ pos' = Upto(Recs[i].off + Recs[i].hdr + Recs[i].data, TrailerLen)
      BY <3>1, <3>2, PlainRecord
    <3>4. Behind(i)'  BY <1>0, <3>3 DEF Behind, Upto, Least
    <3>5. rec \in [Handle -> RecState]  BY DEF TypeOK
    <3>6. Held'  BY <1>0, <2>3, <3>3, <3>5 DEF RecOf, Fresh
    <3> QED  BY <1>0, <3>2, <3>4, <3>6
  <2>6. CASE RegisterIt
    <3>1. PICK h \in Handle : Register(h)  BY <2>6 DEF RegisterIt
    <3>2. rec[h] # NoRec /\ RecOf(h).kind = "plain"  BY <2>3, <3>1, RegisterGives
    <3>3. RegisterPlain(h)
      BY <2>6, <3>1, <3>2
         DEF Register, RegisterSlow, RegisterFast, RegisterFastNoTemp, RegisterPlainNoTemp,
             Registering, Abort, Slow
    <3>4. pos' = pos /\ \E r : r.m = rec[h].m /\ rec' = [rec EXCEPT ![h] = r]
      BY <3>3 DEF RegisterPlain, Registered
    <3>5. rec \in [Handle -> RecState]  BY DEF TypeOK
    <3>6. Held'  BY <1>0, <2>3, <3>2, <3>4, <3>5 DEF RecOf
    <3>7. step' = "content"  BY <2>6 DEF RegisterIt, Call
    <3> QED  BY <1>0, <1>1, <2>3, <3>4, <3>6, <3>7
  <2>7. CASE ReadIt
    <3>1. UNCHANGED <<pos, rec>> /\ step' = "release"
      BY <2>7 DEF ReadIt, Call, Content, GetContent, GetContentNoTemp, Abort
    <3> QED  BY <1>0, <1>1, <2>3, <3>1 DEF RecOf
  <2>8. CASE DestroyIt
    <3>1. pos' = pos /\ step' = "more" /\ \E h \in Handle : rec' = [rec EXCEPT ![h] = NoRec]
      BY <2>8 DEF DestroyIt, Call, Release
    <3>2. rec \in [Handle -> RecState]  BY DEF TypeOK
    <3>3. Held'  BY <1>0, <2>3, <3>1, <3>2 DEF RecOf
    <3> QED  BY <1>0, <1>1, <2>3, <3>1, <3>3
  <2> QED  BY <1>3, <2>4, <2>5, <2>6, <2>7, <2>8, SMTT(30) DEF VNext
<1> QED  BY <1>2, <1>3

\* An uncompressed file that the validator calls valid has all of every data block
\* (warcvalidator.c:125), although no length is compared with the size of the file: the jump
\* over a cut data block leaves FH beyond the end, and not at it.
THEOREM ValidatorNoticesCorrect ==
  ASSUME BeginInFile
  PROVE  VSpec => []ValidatorNotices
<1>1. VInit => TypeOK /\ Noticing
  BY TypeInit DEF VInit, Init, Noticing
<1>2. TypeOK /\ Noticing /\ [VNext]_allVars => (TypeOK /\ Noticing)'
  BY ReaderStep, TypeStep, NoticingStep
<1>3. Noticing => ValidatorNotices
  BY DEF Noticing, ValidatorNotices, Judged
<1> QED  BY <1>1, <1>2, <1>3, PTL DEF VSpec

=============================================================================
