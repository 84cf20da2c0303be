-------------------------------- MODULE AFile --------------------------------
(***************************************************************************)
(* An ARC file opened for reading and the ARecords taken from it.           *)
(*                                                                          *)
(* All records share one temporary file with the AFile.  Of a compressed    *)
(* ARC, reading a record inflates all of it into that file, and registering *)
(* the record only moves to its data; of an uncompressed ARC, registering   *)
(* copies the data there.  So which bytes a record gives depends on what    *)
(* was done with the other records in between.                              *)
(***************************************************************************)
EXTENDS Integers, Sequences

CONSTANTS
  Arcs,      \* the ARC files to be read: [mode, recs, size]
  Handle,    \* the ARecords the application holds at once
  Disk,      \* subset of {"room", "full"}: whether the temporary disk may fill up
  Flush,     \* WFLUSH_SIZ and CONTENT_BUFSIZ (4096)
  W32        \* 2^32

\* A record: its offset, the length of its header line, the length this line
\* declares, the bytes of data and the line feeds that follow, and what its
\* header is like: "bad" to the parser, "odd" to the setters of a WARC record, or
\* "fine".
ArcType ==
  [off: Nat, head: Nat \ {0}, len: Nat, data: Nat, sep: Nat,
   kind: {"fine", "odd", "bad"}, inflates: BOOLEAN]

\* In the file; of a compressed one only that offsets may be inside a record.
Length(a, r) == IF a.mode = "gzip" THEN 2 ELSE r.head + r.data + r.sep

\* The records follow each other.  A file is cut into records where their headers
\* say so: the length of none leads to a later one than the next, nor that of one
\* that is not the last to the end.
ASSUME ArcAssumption ==
  /\ \A a \in Arcs :
       LET n == Len(a.recs)
           end(i) == a.recs[i].off + Length(a, a.recs[i])
       IN  /\ a.mode \in {"plain", "gzip"} /\ a.recs \in Seq(ArcType) /\ n > 0
           /\ a.recs[1].off = 0 /\ a.size = end(n)
           /\ \A i \in 1 .. n - 1 : a.recs[i + 1].off = end(i)
           /\ a.mode = "plain" =>
                \A i, j \in 1 .. n :
                  a.recs[i].off + a.recs[i].head + (a.recs[i].len % W32) + 1 = a.recs[j].off
                    => j = i + 1
           /\ a.mode = "plain" =>
                \A i \in 1 .. n :
                  a.recs[i].off + a.recs[i].head + (a.recs[i].len % W32) + 1 = a.size => i = n
  /\ Disk \subseteq {"room", "full"}
  /\ Handle # {} /\ Flush \in Nat \ {0} /\ W32 \in Nat \ {0}

VARIABLES
  arc,    \* the ARC file
  disk,   \* "room" or "full"
  fh,     \* offset of FH
  temp,   \* TEMP_FILE: the bytes it holds, its offset, and its error indicator, which
          \* a failing write sets and nothing clears (WTempFile_reset does not)
  filler, \* the record it was last filled with, 0 for none
  arec,   \* the ARecord behind each handle
  given,  \* what was given since a registration, while no other record was
          \* registered, read or given: to whom, and the bytes
  ret     \* what the last call returned

fvars == <<arc, disk, fh, temp, filler, arec, given, ret>>

-----------------------------------------------------------------------------
Recs == arc.recs
Fewer(a, b) == IF a <= b THEN a ELSE b

Size    == arc.size
Start(i) == IF i > Len(Recs) THEN Size ELSE Recs[i].off

\* The record that begins at offset p, else 0.
At(p) ==
  LET found == {i \in 1 .. Len(Recs) : Start(i) = p}
  IN  IF found = {} THEN 0 ELSE CHOOSE i \in found : TRUE

\* The bytes of a record, told apart from each other and from all others.
Bytes(i, from, n) == [k \in 1 .. n |-> <<i, from + k - 1>>]
Whole(i) == Bytes(i, 0, Recs[i].head + Recs[i].data + Recs[i].sep)

\* The byte at offset p of an uncompressed file, and fread of n bytes there.
RecordOf(p) == CHOOSE i \in 1 .. Len(Recs) : Start(i) <= p /\ p < Start(i + 1)
ByteAt(p) == <<RecordOf(p), p - Start(RecordOf(p))>>
FileBytes(from, n) ==
  [k \in 1 .. (IF from >= Size THEN 0 ELSE Fewer(n, Size - from)) |-> ByteAt(from + k - 1)]

\* DATA_LENGTH: what atoi leaves of it.
Declared(i) == Recs[i].len % W32

NoARecord == [of |-> 0, off |-> 0, size |-> 0, cback |-> FALSE, dataf |-> FALSE]
NoTemp == [holds |-> << >>, at |-> 0, failed |-> FALSE]
Nobody == [by |-> {}, bytes |-> << >>]

\* The file is emptied (WTempFile_reset) and bytes are put in.
Filling(bytes, at) == [temp EXCEPT !.holds = bytes, !.at = at]

\* bless (AFile, ...): not for a file without bytes.
FInit ==
  /\ arc \in Arcs /\ disk \in Disk /\ fh = 0
  /\ temp = NoTemp /\ filler = 0
  /\ arec = [h \in Handle |-> NoARecord] /\ given = Nobody /\ ret = "none"

Alive == ret # "aborted"
Same == UNCHANGED <<arc, disk>>

\* Stdio finds out only when the temporary file is flushed, by a seek or a reset,
\* that the disk is full: an assertion fails.
FlushFails ==
  /\ Alive /\ disk = "full" /\ ret' = "aborted"
  /\ Same /\ UNCHANGED <<fh, temp, filler, arec, given>>

\* FAULT: it does not go back to the start.
HasMoreStays ==
  /\ Alive /\ ret' = (IF fh = Size THEN "no" ELSE "yes")
  /\ Same /\ UNCHANGED <<fh, temp, filler, arec, given>>

\* AFile_hasMoreRecords: there are none only exactly at the end of the file.
HasMore ==
  /\ Alive
  /\ IF fh = Size THEN fh' = 0 /\ ret' = "no" ELSE ret' = "yes" /\ UNCHANGED fh
  /\ Same /\ UNCHANGED <<temp, filler, arec, given>>

\* AFile_seek, to the start of a record.
Seek(i) ==
  /\ Alive /\ fh' = Start(i) /\ ret' = "sought"
  /\ Same /\ UNCHANGED <<temp, filler, arec, given>>

-----------------------------------------------------------------------------
(* AFile_nextRecord. *)

Asks(h) == Alive /\ arec[h] = NoARecord /\ Same

\* FAULT: a record without data is given.
GiveAny(h, i, off) ==
  /\ ret' = "record"
  /\ arec' = [arec EXCEPT ![h] = [NoARecord EXCEPT !.of = i, !.off = off,
                                    !.size = Declared(i), !.dataf = arc.mode = "gzip"]]

\* ARecord_setContentSize refuses a record without data, when FH is past it.
Give(h, i, off) ==
  IF Declared(i) = 0 THEN ret' = "nil" /\ UNCHANGED arec
  ELSE /\ ret' = "record"
       /\ arec' = [arec EXCEPT ![h] = [NoARecord EXCEPT !.of = i, !.off = off,
                                         !.size = Declared(i), !.dataf = arc.mode = "gzip"]]

\* FAULT: only the data are jumped over.
NextPlainShort(h) ==
  /\ Asks(h) /\ arc.mode = "plain"
  /\ LET i == At(fh)
     IN  /\ i # 0 /\ Recs[i].kind # "bad"
         /\ fh' = fh + Recs[i].head + Declared(i) /\ Give(h, i, fh + Recs[i].head)
  /\ UNCHANGED <<temp, filler, given>>

\* The header, then a jump over the data and one byte more, perhaps beyond the
\* end of the file.
NextPlain(h) ==
  /\ Asks(h) /\ arc.mode = "plain"
  /\ LET i == At(fh)
     IN  /\ i # 0 /\ Recs[i].kind # "bad"
         /\ fh' = fh + Recs[i].head + Declared(i) + 1 /\ Give(h, i, fh + Recs[i].head)
  /\ UNCHANGED <<temp, filler, given>>

\* There is no header: the parser stops somewhere.  Where it wants to go back it
\* negates an unsigned number and jumps forward by almost 2^32, and where it
\* pushes back a NUL an assertion fails.
NextGarbage(h) ==
  /\ Asks(h) /\ arc.mode = "plain"
  /\ LET i == At(fh) IN i # 0 => Recs[i].kind = "bad"
  /\ IF fh >= Size THEN fh' = fh /\ ret' = "nil"
     ELSE \/ fh' \in fh + 1 .. Size /\ ret' = "nil"
          \/ fh' = fh + W32 /\ ret' = "nil"
          \/ fh' = fh /\ ret' = "aborted"
  /\ UNCHANGED <<temp, filler, arec, given>>

\* The record is inflated and FH moved past it before its header is read; what the
\* parser does with a bad one is as in NextGarbage.
NextGzip(h) ==
  /\ Asks(h) /\ arc.mode = "gzip" /\ ~temp.failed
  /\ LET i == At(fh)
     IN  /\ i # 0 /\ Recs[i].inflates
         /\ fh' = Start(i + 1) /\ filler' = i
         /\ IF Recs[i].kind = "bad"
              THEN /\ ret' \in {"nil", "aborted"} /\ UNCHANGED arec
                   /\ \E k \in (0 .. Len(Whole(i))) \cup {W32} :
                        temp' = Filling(Whole(i), k)
              ELSE /\ temp' = Filling(Whole(i), Recs[i].head)
                   /\ Give(h, i, Recs[i].head)
  /\ given' = Nobody

\* It does not inflate.
NextNotInflated(h) ==
  /\ Asks(h) /\ arc.mode = "gzip"
  /\ LET i == At(fh)
     IN  /\ i # 0 => ~Recs[i].inflates
         /\ fh' \in (IF i = 0 THEN fh ELSE fh + 1) .. Size
         /\ \E k \in 0 .. (IF i = 0 THEN 0 ELSE Len(Whole(i)) - 1) :
              temp' = Filling(Bytes(i, 0, k), k)
  /\ filler' = 0 /\ ret' = "nil" /\ given' = Nobody /\ UNCHANGED arec

\* A write fails, or one failed before.  That arecover stops the inflating is taken
\* for success and FH moved to where this was, within the record; but the parser of
\* the header, which tests the error indicator at each byte, stops at the first one.
NextNotWritten(h) ==
  /\ Asks(h) /\ arc.mode = "gzip" /\ disk = "full"
  /\ LET i == At(fh)
     IN  /\ i # 0 /\ fh' \in fh + 1 .. Start(i + 1) - 1
         /\ \E k \in 0 .. Len(Whole(i)) :
              temp' = [Filling(Bytes(i, 0, k), Fewer(1, k)) EXCEPT !.failed = TRUE]
  /\ filler' = 0 /\ ret' = "nil" /\ given' = Nobody /\ UNCHANGED arec

NextAborts(h) == Asks(h) /\ arc.mode = "gzip" /\ FlushFails

NextRecord(h) ==
  \/ NextPlain(h) \/ NextGarbage(h)
  \/ NextGzip(h) \/ NextNotInflated(h) \/ NextNotWritten(h) \/ NextAborts(h)

-----------------------------------------------------------------------------
(* AFile_register and ARecord_getContent. *)

\* FAULT: the copy is made from where FH is.
RegisteredHere(h) ==
  IF arc.mode = "gzip" THEN {[temp |-> [temp EXCEPT !.at = arec[h].off], done |-> TRUE]}
  ELSE {[temp |-> Filling(FileBytes(fh, arec[h].size), 0), done |-> TRUE]}

\* FAULT: what the temporary file held is written over, not removed.
RegisteredOver(h) ==
  LET all == FileBytes(arec[h].off, arec[h].size)
  IN  IF arc.mode = "gzip" THEN {[temp |-> [temp EXCEPT !.at = arec[h].off], done |-> TRUE]}
      ELSE {[temp |-> Filling(all \o SubSeq(temp.holds, Len(all) + 1, Len(temp.holds)), 0),
             done |-> TRUE]}

\* What a registration leaves in the temporary file.  The copy is made in blocks:
\* one that cannot be read in full is not written, and of one that cannot be
\* written in full some bytes are; after a failed write none is written at all.
Registered(h) ==
  LET all   == FileBytes(arec[h].off, arec[h].size)
      n     == Len(all)
      last  == IF n = arec[h].size THEN n ELSE (n \div Flush) * Flush
      short == IF n < arec[h].size THEN {Filling(SubSeq(all, 1, last), last)} ELSE {}
      full  == IF disk = "full" THEN {[Filling(SubSeq(all, 1, k), k) EXCEPT !.failed = TRUE] :
                                        k \in 0 .. last - 1}
               ELSE {}
  IN  IF arc.mode = "gzip"
        THEN {[temp |-> [temp EXCEPT !.at = arec[h].off], done |-> TRUE]}
        ELSE IF temp.failed THEN {[temp |-> Filling(<< >>, 0), done |-> FALSE]}
        ELSE {[temp |-> t, done |-> FALSE] : t \in short \cup full}
             \cup {[temp |-> t, done |-> TRUE] :
                     t \in IF n = arec[h].size THEN {Filling(all, 0)} ELSE {}}

\* The callback is set whether or not the rest succeeds.
Register(h) ==
  /\ Alive /\ arec[h].of # 0
  /\ \E r \in Registered(h) :
       /\ temp' = r.temp
       /\ filler' = CASE arc.mode = "gzip" -> filler
                      [] arc.mode = "plain" /\ r.done -> arec[h].of
                      [] OTHER -> 0
       /\ ret' = IF r.done THEN "ok" ELSE "error"
       /\ arec' = [arec EXCEPT ![h].cback = TRUE, ![h].dataf = @ \/ r.done]
       /\ given' = IF r.done THEN [by |-> {h}, bytes |-> << >>] ELSE Nobody
  /\ Same /\ UNCHANGED fh

RegisterAborts(h) == arec[h].of # 0 /\ arc.mode = "plain" /\ FlushFails

\* What is left in the temporary file, read in blocks.
Rest(t) == SubSeq(t.holds, t.at + 1, Len(t.holds))

\* The application's callback may stop it after any block; when a write had failed
\* it is never called.
GetContent(h) ==
  /\ Alive /\ arec[h].cback
  /\ LET rest == Rest(temp)
     IN  CASE ~arec[h].dataf -> ret' = "error" /\ UNCHANGED <<temp, given>>
           [] arec[h].dataf /\ temp.failed ->
                /\ temp' = [temp EXCEPT !.at = @ + Fewer(Flush, Len(rest))]
                /\ given' = Nobody /\ ret' = "error"
           [] OTHER ->
                \E n \in {Fewer(k * Flush, Len(rest)) : k \in 1 .. Len(rest) + 1} :
                  /\ given' = IF given.by # {h} THEN Nobody
                              ELSE [given EXCEPT !.bytes = @ \o SubSeq(rest, 1, n)]
                  /\ temp' = [temp EXCEPT !.at = @ + n] /\ ret' = "content"
  /\ Same /\ UNCHANGED <<fh, filler, arec>>

\* destroy (arec).
Release(h) ==
  /\ Alive /\ arec[h].of # 0
  /\ arec' = [arec EXCEPT ![h] = NoARecord] /\ ret' = "released"
  /\ given' = IF given.by = {h} THEN Nobody ELSE given
  /\ Same /\ UNCHANGED <<fh, temp, filler>>

=============================================================================
