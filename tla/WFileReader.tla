----------------------------- MODULE WFileReader -----------------------------
(***************************************************************************)
(* A WFile opened with WARC_FILE_READER and the WRecords taken from it:     *)
(* WFile_hasMoreRecords, WFile_nextRecord with its three ways of reading a  *)
(* record, WFile_seek, WFile_register and WRecord_getContent.               *)
(*                                                                          *)
(* They share one stream FH.  The application may hold several records and  *)
(* register, read and destroy them in any order while it iterates, so every *)
(* property here is about a sequence of calls on that shared position.      *)
(***************************************************************************)
EXTENDS Integers, Sequences

CONSTANTS
  Files,       \* the files to be read: [recs, size]
  Handle,      \* how many records the application holds at once
  Faults,      \* subset of {"nomem"}: a temporary file cannot be created
  TrailerLen,  \* length of CR LF CR LF                                 (4)
  CheckLen,    \* GZIP_STATIC_HEADER_SIZE                              (10)
  GzipHeader,  \* length of a gzip header with EXTRA or a name         (22)
  BufLen,      \* WARC_GZIP_IN_BUFFER_SIZE                          (32768)
  W32, W64,    \* 2^32 and 2^64
  MaxRegister  \* bound on the registrations of one record

\* kind: uncompressed, gzip with the size fields, gzip without, gzip without but
\* with a file name (as gzip writes it); reads: how much of a compressed member
\* inflates: all of it, only its first buffer, nothing; tail: its last byte, the
\* highest of the uncompressed size, is 0x1f, with which a member begins.
StoredType ==
  [kind: {"plain", "extra", "noextra", "named"}, off: Nat, hdr: Nat, data: Nat, len: Nat,
   reads: {"all", "head", "none"}, tail: BOOLEAN]

ASSUME FilesAssumption ==
  \A f \in Files :
    /\ f.size \in Nat \ {0}
    /\ f.recs \in Seq(StoredType) /\ f.recs # << >>
    /\ \A i \in 1 .. Len(f.recs) :
         /\ f.recs[i].off = IF i = 1 THEN 0
                            ELSE f.recs[i - 1].off + f.recs[i - 1].len
         /\ f.recs[i].hdr > 0
         /\ f.recs[i].kind = "plain"
              => f.recs[i].len = f.recs[i].hdr + f.recs[i].data + TrailerLen
         /\ f.recs[i].kind # "plain" => f.recs[i].len > GzipHeader
ASSUME ReaderAssumption ==
  /\ TrailerLen \in Nat \ {0} /\ CheckLen \in Nat \ {0}
  /\ GzipHeader \in Nat /\ CheckLen <= GzipHeader /\ BufLen \in Nat \ {0}
  /\ W32 \in Nat \ {0} /\ W64 \in Nat \ {0} /\ MaxRegister \in Nat
  /\ Faults \subseteq {"nomem"}

VARIABLES
  file,    \* the file behind FH; FSIZE is file.size
  pos,     \* offset of FH
  eof,     \* end-of-file indicator of FH
  rec,     \* the WRecord behind each handle
  heard,   \* what the last call gave of a record: bytes from .. to - 1 of m
  alive,   \* FALSE once an assertion has ended the process, or a call hangs
  ret      \* what the last call returned

vars == <<file, pos, eof, rec, heard, alive, ret>>

-----------------------------------------------------------------------------
Recs == file.recs
Size == file.size

Least(a, b) == IF a <= b THEN a ELSE b

\* A record's temporary file holds bytes base .. base + len - 1 of the record
\* and is positioned at "at".
NoTemp             == [there |-> FALSE, base |-> 0, len |-> 0, at |-> 0]
\* FAULT: the file is left at its start.
TempAtStart(base, len, at) == [there |-> TRUE, base |-> base, len |-> len, at |-> 0]
Temp(base, len, at) == [there |-> TRUE, base |-> base, len |-> len, at |-> at]

NoRec == [m |-> 0, regs |-> 0, tmp |-> NoTemp]
Fresh(i, t) == [m |-> i, regs |-> 0, tmp |-> t]

Silence == [m |-> 0, again |-> FALSE, from |-> 0, to |-> 0]

\* The record that begins at offset p, if it is of one of those kinds; else 0.
StartsAt(p, kinds) ==
  LET found == {i \in 1 .. Len(Recs) : Recs[i].off = p /\ Recs[i].kind \in kinds}
  IN  IF found = {} THEN 0 ELSE CHOOSE i \in found : TRUE

\* Members without the size fields.
Slow == {"noextra", "named"}
Gzipped == Slow \cup {"extra"}

\* COMP, which the constructor takes from the first bytes of the file.
Compressed == Recs[1].kind # "plain"

\* fread of n bytes at offset p: FH ends up at Upto(p, n), and Short tells
\* whether that raised the end-of-file indicator.
Upto(p, n)  == IF p >= Size THEN p ELSE Least(p + n, Size)
Short(p, n) == p + n > Size

\* The length of the gzip header of a member.
HeaderLen(m) == IF m.kind = "noextra" THEN CheckLen ELSE GzipHeader

\* A member that does not inflate: FH is read a buffer at a time, up to one that
\* begins in the member.
StopsIn(m) ==
  LET body  == m.off + HeaderLen(m)
      first == IF m.reads = "head" THEN 2 ELSE 1
  IN  \E k \in first .. m.len :
        /\ k = first \/ body + (k - 1) * BufLen < m.off + m.len
        /\ pos' = Upto(body, k * BufLen) /\ eof' = Short(body, k * BufLen)

\* The member size read back from the EXTRA field: 32 bits, and the top one is
\* taken for a sign when the bytes are put together.
SizeField(n) == IF n % W32 >= W32 \div 2 THEN (n % W32) + W64 - W32 ELSE n % W32

\* An assertion fails.
Abort == alive' = FALSE /\ ret' = "aborted" /\ UNCHANGED <<pos, eof>>

-----------------------------------------------------------------------------
\* bless (WFile, ..., WARC_FILE_READER, WARC_FILE_DETECT_COMPRESSION, ...).
Init ==
  /\ file \in Files
  /\ pos = 0 /\ eof = FALSE
  /\ rec = [h \in Handle |-> NoRec]
  /\ heard = Silence /\ alive = TRUE /\ ret = "none"

Quiet == heard' = Silence /\ UNCHANGED file

\* FAULT: it does not go back to the start.
HasMoreStays ==
  /\ alive
  /\ ret' = (IF pos = Size THEN "no" ELSE "yes")
  /\ Quiet /\ UNCHANGED <<pos, eof, rec, alive>>

\* At the end of the file it says "no" and goes back to the start.
HasMore ==
  /\ alive
  /\ IF pos = Size THEN pos' = 0 /\ eof' = FALSE /\ ret' = "no"
                   ELSE UNCHANGED <<pos, eof>> /\ ret' = "yes"
  /\ Quiet /\ UNCHANGED <<rec, alive>>

\* WFile_seek, to the offset of a record (WRecord_getOffset).
Seek(i) ==
  /\ alive
  /\ pos' = Recs[i].off /\ eof' = FALSE /\ ret' = "sought"
  /\ Quiet /\ UNCHANGED <<rec, alive>>

-----------------------------------------------------------------------------
(* WFile_nextRecord. *)

Ask(h) == alive /\ rec[h] = NoRec /\ Quiet

Give(h, r) == rec' = [rec EXCEPT ![h] = r] /\ ret' = "record" /\ UNCHANGED alive
NoRecord   == ret' = "nil" /\ UNCHANGED <<rec, alive>>

\* At its end of file FH is not read.
NextAtEof(h) == Ask(h) /\ eof /\ NoRecord /\ UNCHANGED <<pos, eof>>

\* FAULT: the trailer is not read.
NextPlainShort(h) ==
  /\ Ask(h) /\ ~eof /\ ~Compressed
  /\ LET i   == StartsAt(pos, {"plain"})
         end == pos + Recs[i].hdr + Recs[i].data
     IN  /\ i # 0 /\ pos + Recs[i].hdr <= Size
         /\ pos' = end /\ eof' = FALSE
         /\ IF Recs[i].data = 0 THEN NoRecord ELSE Give(h, Fresh(i, NoTemp))

\* WFile_nextRecordUncompressed: the header, then a jump over the data.  The
\* check of the trailer passes whatever is there, and an empty record is
\* refused when FH has already moved on.
NextPlain(h) ==
  /\ Ask(h) /\ ~eof /\ ~Compressed
  /\ LET i   == StartsAt(pos, {"plain"})
         end == pos + Recs[i].hdr + Recs[i].data
     IN  /\ i # 0 /\ pos + Recs[i].hdr <= Size
         /\ pos' = Upto(end, TrailerLen) /\ eof' = Short(end, TrailerLen)
         /\ IF Recs[i].data = 0 THEN NoRecord ELSE Give(h, Fresh(i, NoTemp))

\* There is no header: the parser stops somewhere.
NextGarbage(h) ==
  /\ Ask(h) /\ ~eof /\ ~Compressed
  /\ LET i == StartsAt(pos, {"plain"})
     IN  i # 0 => pos + Recs[i].hdr > Size
  /\ \/ pos' \in pos .. Size - 1 /\ eof' = FALSE
     \/ pos' = Upto(pos, Size) /\ eof' = TRUE
  /\ NoRecord

\* WFile_nextRecordGzipCompressedFast: with the sizes in the gzip header only
\* the WARC header is inflated, and FH jumps to the next member, an offset that
\* as an off_t may be negative.
NextFast(h) ==
  /\ Ask(h) /\ ~eof /\ Compressed
  /\ LET i  == StartsAt(pos, {"extra"})
         to == (pos + SizeField(Recs[i].len)) % W64
     IN  /\ i # 0 /\ pos + GzipHeader <= Size
         /\ \/ Recs[i].reads = "none" /\ StopsIn(Recs[i]) /\ NoRecord
            \/ /\ Recs[i].reads # "none"
               /\ IF to >= W64 \div 2 THEN Abort /\ UNCHANGED rec
                  ELSE /\ pos' = to /\ eof' = FALSE
                       /\ IF Recs[i].data = 0 THEN NoRecord ELSE Give(h, Fresh(i, NoTemp))

\* The end of a member as WGzip_decode counts it: the NUL after a name is read,
\* and not counted.
Counted(m) == m.off + m.len - (IF m.kind = "named" THEN 1 ELSE 0)

\* From there WGzip_adjustRecord goes on to the next byte 0x1f: the last one of
\* the member itself, the first one of another member, or any in a plain record
\* but its first; or to the end of the file, unless FH is there already.
Adjusted(m) ==
  LET end == m.off + m.len
  IN  IF Counted(m) >= Size \/ (m.kind = "named" /\ m.tail) THEN {Counted(m)}
      ELSE {p \in end .. Size :
              /\ \A i \in 1 .. Len(Recs) :
                   Recs[i].kind # "plain" => Recs[i].off \notin end .. p - 1
              /\ p = Size \/ StartsAt(p, {"plain"}) = 0}

\* FAULT: FH goes where the count says.
NextSlowCounted(h) ==
  /\ Ask(h) /\ ~eof /\ Compressed
  /\ LET i == StartsAt(pos, Slow)
         m == Recs[i]
     IN  /\ i # 0 /\ pos + HeaderLen(m) <= Size
         /\ \/ /\ m.reads = "all"
               /\ pos' = Counted(m) /\ eof' = FALSE
               /\ Give(h, Fresh(i, Temp(0, m.hdr + m.data, 0)))
            \/ m.reads # "all" /\ StopsIn(m) /\ NoRecord

\* WFile_nextRecordGzipCompressed without the sizes: all of the member is
\* inflated into the record's own temporary file.
NextSlow(h) ==
  /\ Ask(h) /\ ~eof /\ Compressed
  /\ LET i == StartsAt(pos, Slow)
         m == Recs[i]
     IN  /\ i # 0 /\ pos + HeaderLen(m) <= Size
         /\ \/ /\ m.reads = "all"
               /\ pos' \in Adjusted(m) /\ eof' = FALSE
               /\ Give(h, Fresh(i, Temp(0, m.hdr + m.data, 0)))
            \/ m.reads # "all" /\ StopsIn(m) /\ NoRecord

NoMember ==
  LET i == StartsAt(pos, Gzipped)
  IN  i # 0 => pos + HeaderLen(Recs[i]) > Size

\* The member is cut in its file name, whose end is searched for beyond the end
\* of the file.
CutInName ==
  LET i == StartsAt(pos, {"named"})
  IN  i # 0 /\ pos + CheckLen <= Size /\ pos + HeaderLen(Recs[i]) > Size

NextHangs(h) ==
  /\ Ask(h) /\ ~eof /\ Compressed /\ CutInName
  /\ pos' = Size /\ eof' = TRUE
  /\ alive' = FALSE /\ ret' = "hangs" /\ UNCHANGED rec

\* Nothing there that begins like a gzip member.
NextNoMember(h) ==
  /\ Ask(h) /\ ~eof /\ Compressed /\ NoMember /\ ~CutInName
  /\ \E n \in CheckLen .. GzipHeader : pos' = Upto(pos, n) /\ eof' = Short(pos, n)
  /\ NoRecord

\* WRecord_makeDataFile fails, when the sizes are not there.
NextNoTemp(h) ==
  /\ Ask(h) /\ ~eof /\ Compressed /\ "nomem" \in Faults
  /\ NoMember \/ StartsAt(pos, {"extra"}) = 0
  /\ ~CutInName
  /\ NoRecord /\ UNCHANGED <<pos, eof>>

-----------------------------------------------------------------------------
(* WFile_register. *)

RecOf(h) == Recs[rec[h].m]

Registering(h, kind) ==
  /\ alive /\ rec[h] # NoRec /\ rec[h].regs < MaxRegister
  /\ RecOf(h).kind = kind
  /\ Quiet

\* The record's temporary file is now t; the one before it is forgotten.
Registered(h, t, result) ==
  /\ rec' = [rec EXCEPT ![h] = [m |-> @.m, regs |-> @.regs + 1, tmp |-> t]]
  /\ ret' = result /\ UNCHANGED alive

\* The data block is copied, as far as the file has it, and FH goes back.
RegisterPlain(h) ==
  /\ Registering(h, "plain")
  /\ LET m == RecOf(h)
     IN  IF m.off + m.hdr + m.data <= Size
           THEN Registered(h, Temp(m.hdr, m.data, 0), "ok")
           ELSE \E n \in 0 .. m.data - 1 : Registered(h, Temp(m.hdr, n, n), "error")
  /\ eof' = FALSE /\ UNCHANGED pos

\* Without a temporary file FH is sent to offset -1.
RegisterPlainNoTemp(h) ==
  /\ Registering(h, "plain") /\ "nomem" \in Faults
  /\ Abort /\ UNCHANGED rec

\* Nothing is read again: the position in the temporary file moves by the
\* length of the header, from wherever it is.
RegisterSlow(h) ==
  /\ \E kind \in Slow : Registering(h, kind)
  /\ LET t == rec[h].tmp
     IN  Registered(h, Temp(t.base, t.len, t.at + RecOf(h).hdr), "ok")
  /\ UNCHANGED <<pos, eof>>

\* The member is inflated from its start, the trailer cut off, and FH goes back
\* to where it was; if the member does not inflate, FH stays where that showed.
RegisterFast(h) ==
  /\ Registering(h, "extra")
  /\ LET m == RecOf(h)
     IN  \/ /\ m.reads = "all"
            /\ Registered(h, Temp(0, m.hdr + m.data, m.hdr), "ok")
            /\ eof' = FALSE /\ UNCHANGED pos
         \/ /\ m.reads # "all"
            /\ \E n \in 0 .. m.hdr + m.data : Registered(h, Temp(0, n, n), "error")
            /\ StopsIn(m)

\* FH stays at the member.
RegisterFastNoTemp(h) ==
  /\ Registering(h, "extra") /\ "nomem" \in Faults
  /\ Registered(h, NoTemp, "error")
  /\ pos' = RecOf(h).off /\ eof' = FALSE

\* WRecord_getContent of a registered record: the rest of the temporary file
\* goes to the callback, and its position comes back.
GetContent(h) ==
  /\ alive /\ rec[h].regs > 0 /\ rec[h].tmp.there
  /\ LET t == rec[h].tmp
     IN  heard' = [m |-> rec[h].m, again |-> rec[h].regs > 1,
                   from |-> t.base + Least(t.at, t.len), to |-> t.base + t.len]
  /\ ret' = "content"
  /\ UNCHANGED <<file, pos, eof, rec, alive>>

GetContentNoTemp(h) ==
  /\ alive /\ rec[h].regs > 0 /\ ~rec[h].tmp.there
  /\ Abort /\ Quiet /\ UNCHANGED rec

\* FAULT: the temporary file outlives the record.
ReleaseKeepsTemp(h) ==
  /\ alive /\ rec[h] # NoRec
  /\ rec' = [rec EXCEPT ![h].m = 0] /\ ret' = "released"
  /\ Quiet /\ UNCHANGED <<pos, eof, alive>>

\* The record is destroyed, and its temporary file with it.
Release(h) ==
  /\ alive /\ rec[h] # NoRec
  /\ rec' = [rec EXCEPT ![h] = NoRec] /\ ret' = "released"
  /\ Quiet /\ UNCHANGED <<pos, eof, alive>>

-----------------------------------------------------------------------------
NextRecord(h) ==
  \/ NextAtEof(h) \/ NextPlain(h) \/ NextGarbage(h)
  \/ NextFast(h) \/ NextSlow(h) \/ NextHangs(h) \/ NextNoMember(h) \/ NextNoTemp(h)

Register(h) ==
  \/ RegisterPlain(h) \/ RegisterPlainNoTemp(h) \/ RegisterSlow(h)
  \/ RegisterFast(h) \/ RegisterFastNoTemp(h)

Content(h) == GetContent(h) \/ GetContentNoTemp(h)

Next ==
  \/ HasMore
  \/ \E i \in 1 .. Len(Recs) : Seek(i)
  \/ \E h \in Handle : NextRecord(h) \/ Register(h) \/ Content(h) \/ Release(h)

Spec == Init /\ [][Next]_vars

-----------------------------------------------------------------------------
(* Properties. *)

RecState ==
  [m: 0 .. Len(Recs), regs: 0 .. MaxRegister,
   tmp: [there: BOOLEAN, base: Nat, len: Nat, at: Nat]]

Results ==
  {"none", "yes", "no", "sought", "record", "nil", "ok", "error", "content",
   "released", "aborted", "hangs"}

\* The type invariant of the reader's state.
TypeOK ==
  /\ file \in Files /\ pos \in Nat /\ eof \in BOOLEAN /\ alive \in BOOLEAN
  /\ rec \in [Handle -> RecState]
  /\ \A h \in Handle : rec[h].m = 0 => rec[h] = NoRec
  /\ heard \in [m: 0 .. Len(Recs), again: BOOLEAN, from: Nat, to: Nat]
  /\ ret \in Results

\* The file is as one writer meant it to be: complete, and in one mode (nothing
\* keeps a writer from appending to a file that was written in another).
Intact ==
  /\ \A i \in 1 .. Len(Recs) : (Recs[i].kind # "plain") = Compressed
  /\ \A i \in 1 .. Len(Recs) : Recs[i].reads = "all"
  /\ Size = Recs[Len(Recs)].off + Recs[Len(Recs)].len

\* No member that has a name, and not its sizes, ends in the byte 0x1f: WGzip_decode
\* would not get beyond it (wgzip.c:432, 531).
Unmarked == \A i \in 1 .. Len(Recs) : Recs[i].kind = "named" => ~Recs[i].tail

Sound == Intact /\ Unmarked

Boundaries == {Recs[i].off : i \in 1 .. Len(Recs)} \cup {Size}

\* manwarc.sgml:961: "the file descriptor inside the WFile object will allways
\* point to a valid WARC Record in the WARC file or to the end of file".
AtRecord == Sound => pos \in Boundaries

HeardExactly ==
  /\ heard.from = Recs[heard.m].hdr
  /\ heard.to = Recs[heard.m].hdr + Recs[heard.m].data

\* manwarc.sgml:1231: the callback is called "until all the data block will be
\* all given".
ContentExact == heard # Silence /\ Intact => HeardExactly

\* What WRecord_getContent gives (wrecord.c:2193) is the record's data block, or
\* nothing at all where the file is damaged: never a part of it and never its
\* header, whatever was registered and read in between.  A compressed record
\* without the size fields that is registered again is the exception.
ContentOnce ==
  heard # Silence =>
    \/ HeardExactly
    \/ ~Intact /\ heard.from = heard.to
    \/ heard.again /\ Recs[heard.m].kind \in Slow

\* What the temporary file of a record holds: between a registration and the
\* next, the data block, and it is positioned at its start; or, where the file
\* is damaged, something that is positioned at its end.
Kept(r) ==
  LET m == Recs[r.m]
      t == r.tmp
      exact(base, len, at) ==
        t.there => t = Temp(base, len, at) \/ (~Intact /\ t.at = t.len)
  IN  CASE m.kind = "plain" -> exact(m.hdr, m.data, 0)
        [] m.kind = "extra" -> exact(0, m.hdr + m.data, m.hdr)
        [] OTHER -> /\ t.there /\ t.base = 0 /\ t.len = m.hdr + m.data
                    /\ r.regs = 0 => t.at = 0
                    /\ r.regs = 1 => t.at = m.hdr

AllKept == \A h \in Handle : rec[h].m # 0 => Kept(rec[h])

\* The file sizes and member sizes below which no jump goes astray.
SmallMembers ==
  \A f \in Files :
    /\ f.size < W64 \div 2
    /\ \A i \in 1 .. Len(f.recs) : f.recs[i].len < W32 \div 2

\* The records WFile_nextRecord can only pass over: empty, without its own file.
Mute == {i \in 1 .. Len(Recs) : Recs[i].data = 0 /\ Recs[i].kind \notin Slow}

\* The record FH is at, by number.
Cursor == IF pos = Size THEN Len(Recs) + 1 ELSE StartsAt(pos, Gzipped \cup {"plain"})

Holding == [h \in Handle |-> rec[h].m]

\* The reader is a cursor over the records (WFile_hasMoreRecords,
\* WFile_nextRecord, WFile_seek): each is returned once, in order, and reading
\* the content of any of them (WFile_register saves and restores the position
\* of FH) does not disturb that.
Stream ==
  INSTANCE RecordStream
    WITH sound <- Sound, total <- Len(Recs), mute <- Mute, cursor <- Cursor,
         held <- Holding, said <- ret

StreamSpec == Stream!Spec

=============================================================================
