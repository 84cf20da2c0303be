----------------------------- MODULE WFileWriter -----------------------------
(***************************************************************************)
(* A WFile opened with WARC_FILE_WRITER: the constructor, WFile_setMaxSize, *)
(* WFile_storeRecord with its two storage routines, and the destructor, as  *)
(* they act on one WARC file that outlives the objects opened on it.        *)
(*                                                                          *)
(* A store is a sequence of steps, one per group of stdio calls, because a  *)
(* write may fail (short fwrite) and the process may die between any two    *)
(* of them.  Bytes are counted, never listed: the file is the sequence      *)
(* "members" of what each store left in it.                                 *)
(***************************************************************************)
EXTENDS Integers, Sequences

CONSTANTS
  Record,      \* what the application may store: [id, hdr, data, gz, valid]
  MaxSizes,    \* the maximum sizes an application passes
  Comps,       \* subset of {"plain", "gzip", "detect"}: the COMP it passes
  Faults,      \* subset of {"io", "nomem", "crash"}: what may go wrong
  TrailerLen,  \* length of CR LF CR LF                             (4)
  ExtraLen,    \* EXTRA_GZIP_HEADER, the gzip EXTRA field           (12)
  StaticLen,   \* GZIP_STATIC_HEADER_SIZE                           (10)
  W32, W64,    \* 2^32 and 2^64: the width of the integer types
  MaxMembers   \* bound on the number of stores in a behaviour

\* hdr: the bytes that WFile_writeWarcId, ..., WFile_writeAnvls write; data: the
\* content; gz: what the whole record is deflated to; valid: WRecord_check accepts
\* it and the content is as long as the header says.
RecordType == [id: STRING, hdr: Nat, data: Nat, gz: Nat, valid: BOOLEAN]

ASSUME RecordAssumption == Record \subseteq RecordType
ASSUME WidthAssumption ==
  /\ W32 \in Nat \ {0} /\ W64 \in Nat \ {0}
  /\ MaxSizes \subseteq 0 .. W64 - 1
ASSUME LenAssumption ==
  /\ TrailerLen \in Nat \ {0} /\ ExtraLen \in Nat \ {0} /\ StaticLen \in Nat
  /\ MaxMembers \in Nat
ASSUME ModeAssumption ==
  /\ Comps \subseteq {"plain", "gzip", "detect"}
  /\ Faults \subseteq {"io", "nomem", "crash"}

VARIABLES
  members,  \* what each store left in the file, in file order
  flen,     \* length of the file as the stream FH sees it
  synced,   \* length of the prefix that stdio has handed to the system
  open,     \* a WFile object exists
  comp, maxsize, fsize, isfull,   \* COMP, MAXSIZE, FSIZE, ISFULL
  ferr,     \* the error indicator of FH (nothing ever clears it)
  pc,       \* the step WFile_storeRecord has reached, "idle" outside it
  wip,      \* the record being stored: [rec, off, sound]
  ret       \* how the last call ended: "none", "ok" or "error"

file   == <<members, flen, synced>>
object == <<open, comp, maxsize, fsize, isfull>>
vars   == <<members, flen, synced, open, comp, maxsize, fsize, isfull, ferr,
            pc, wip, ret>>

-----------------------------------------------------------------------------
(* The file. *)

MinOf(a, b) == IF a <= b THEN a ELSE b

EndOf(m) == m.off + m.len

\* Where the next member goes: the end of the last one.
FileEnd(ms) == IF ms = << >> THEN 0 ELSE EndOf(ms[Len(ms)])

\* What is left of member m when only its bytes from .. to - 1 are.
Damaged(m, from, to) ==
  [rec |-> m.rec, off |-> from, len |-> to - from,
   whole |-> FALSE, acked |-> m.acked]

\* The file cut to length w: a member that ends beyond w is damaged, and one
\* that loses all its bytes stays as a tombstone of length 0.
CutAt(ms, w) ==
  [i \in 1 .. Len(ms) |->
     IF EndOf(ms[i]) <= w THEN ms[i] ELSE Damaged(ms[i], MinOf(ms[i].off, w), w)]

\* Bytes from .. to - 1 overwritten in place.
Overwritten(ms, from, to) ==
  [i \in 1 .. Len(ms) |->
     IF EndOf(ms[i]) <= from \/ ms[i].off >= to THEN ms[i]
     ELSE Damaged(ms[i], ms[i].off, EndOf(ms[i]))]

\* The member the current store leaves when the file is e bytes long.
Member(e, whole, acked) ==
  [rec |-> wip.rec, off |-> wip.off, len |-> e - wip.off,
   whole |-> whole, acked |-> acked]

\* The numbers of bytes an fwrite of n bytes may write.
Written(n) == IF "io" \in Faults THEN 0 .. n ELSE {n}

Idle  == pc = "idle"
Ready == open /\ Idle

NoWip == [rec |-> "none", off |-> 0, sound |-> FALSE]

-----------------------------------------------------------------------------
(* The object's life. *)

Init ==
  /\ members = << >> /\ flen = 0 /\ synced = 0
  /\ open = FALSE /\ comp = "plain" /\ maxsize = 0 /\ fsize = 0
  /\ isfull = FALSE /\ ferr = FALSE
  /\ pc = "idle" /\ wip = NoWip /\ ret = "none"

\* bless (WFile, ..., WARC_FILE_WRITER, c, ...) on an existing or a new file.
Construct(m, c) ==
  /\ ~open
  /\ m # 0 /\ flen < m
  /\ open' = TRUE /\ comp' = c /\ maxsize' = m
  /\ fsize' = flen /\ isfull' = FALSE /\ ferr' = FALSE
  /\ ret' = "ok"
  /\ UNCHANGED <<file, pc, wip>>

\* No room for a byte, a zero limit, or no memory or temporary file.
ConstructRefused(m) ==
  /\ ~open
  /\ m = 0 \/ flen >= m \/ "nomem" \in Faults
  /\ ret' = "error"
  /\ UNCHANGED <<file, object, ferr, pc, wip>>

Destroy ==
  /\ Ready
  /\ open' = FALSE /\ comp' = "plain" /\ maxsize' = 0 /\ fsize' = 0
  /\ synced' = flen
  /\ ret' = "none"
  /\ UNCHANGED <<members, flen, isfull, ferr, pc, wip>>

SetMaxSize(m) ==
  /\ Ready
  /\ IF maxsize # 0 /\ maxsize < m
       THEN maxsize' = m /\ ret' = "ok"
       ELSE UNCHANGED maxsize /\ ret' = "error"
  /\ UNCHANGED <<file, open, comp, fsize, isfull, ferr, pc, wip>>

-----------------------------------------------------------------------------
(* WFile_storeRecord up to the choice of the storage routine. *)

\* The running total "datalength": the data size is cast to 32 bits.
DataLength(r) == (r.hdr + (r.data % W32)) % W64

\* FAULT (for the mutants): the room for the trailer is forgotten.
NoRoomForTrailer(r) == (maxsize - flen) % W64 < DataLength(r)

\* FAULT: a record that would fill the file exactly is refused.
NoRoomOffByOne(r) == (maxsize - flen) % W64 <= DataLength(r) + TrailerLen

\* The test of WFile_storeRecordUncompressed, in unsigned 64 bits.
NoRoom(r) ==
  LET total == (DataLength(r) + TrailerLen) % W64
  IN  /\ total > DataLength(r)
      /\ (maxsize - flen) % W64 < total

\* seek to the end of FH; an unusable record, an unknown compression mode or a
\* full uncompressed file ends the call there.
StoreRefused(r) ==
  /\ Ready /\ Len(members) < MaxMembers
  /\ \/ /\ ~r.valid \/ comp = "detect"
        /\ UNCHANGED isfull
     \/ /\ r.valid /\ comp = "plain" /\ NoRoom(r)
        /\ isfull' = TRUE
  /\ synced' = flen
  /\ ret' = "error"
  /\ UNCHANGED <<members, flen, open, comp, maxsize, fsize, ferr, pc, wip>>

\* FAULT: the record is appended without a seek to the end of FH.
StoreBeginUnflushed(r, step) ==
  /\ Ready /\ Len(members) < MaxMembers
  /\ r.valid
  /\ \E sound \in IF "io" \in Faults THEN BOOLEAN ELSE {TRUE} :
       wip' = [rec |-> r, off |-> flen, sound |-> sound]
  /\ pc' = step
  /\ ret' = "none"
  /\ UNCHANGED <<members, flen, synced, object, ferr>>

\* The header is written to TEMP_FILE first, and nothing checks that it got
\* there.
StoreBegin(r, step) ==
  /\ Ready /\ Len(members) < MaxMembers
  /\ r.valid
  /\ synced' = flen
  /\ \E sound \in IF "io" \in Faults THEN BOOLEAN ELSE {TRUE} :
       wip' = [rec |-> r, off |-> flen, sound |-> sound]
  /\ pc' = step
  /\ ret' = "none"
  /\ UNCHANGED <<members, flen, object, ferr>>

StorePlain(r) == comp = "plain" /\ ~NoRoom(r) /\ StoreBegin(r, "header")
StoreGzip(r)  == comp = "gzip" /\ StoreBegin(r, "placeholder")

\* k of n bytes reach the end of FH.  Too few: FH failed, which sets its error
\* indicator, or the bytes could not be read from the file copied ("copied").
Put(k, n, copied) ==
  /\ flen' = flen + k
  /\ wip'  = [rec |-> wip.rec, off |-> wip.off, sound |-> wip.sound /\ k = n]
  /\ ferr' \in IF k = n THEN {ferr} ELSE IF copied THEN {ferr, TRUE} ELSE {TRUE}

Return(result) ==
  /\ pc' = "idle" /\ wip' = NoWip /\ ret' = result

-----------------------------------------------------------------------------
(* WFile_storeRecordUncompressed: the results of the writes are dropped. *)

WriteHeader ==
  /\ pc = "header"
  /\ \E k \in Written(wip.rec.hdr) : Put(k, wip.rec.hdr, TRUE)
  /\ pc' = "data"
  /\ UNCHANGED <<members, synced, object, ret>>

\* WFile_writeDataBloc gives up at once when FH's error indicator is set.
WriteData ==
  /\ pc = "data"
  /\ \E k \in IF ferr THEN {0} ELSE Written(wip.rec.data) : Put(k, wip.rec.data, TRUE)
  /\ pc' = "trailer"
  /\ UNCHANGED <<members, synced, object, ret>>

WriteTrailer ==
  /\ pc = "trailer"
  /\ \E k \in Written(TrailerLen) :
       /\ flen' = flen + k
       /\ ferr' = (ferr \/ k # TrailerLen)
       /\ members' = Append(members,
                            Member(flen + k, wip.sound /\ k = TrailerLen, TRUE))
       /\ fsize' = flen + k
  /\ Return("ok")
  /\ UNCHANGED <<synced, open, comp, maxsize, isfull>>

-----------------------------------------------------------------------------
(* WFile_storeRecordGzipCompressed and WGzip_compress. *)

\* Room for the EXTRA field in front of the member, byte by byte; after an
\* error the code goes on to the patch, and so it does after the first byte
\* when FH's error indicator is already set.
WritePlaceholder ==
  /\ pc = "placeholder"
  /\ \E k \in IF ferr THEN {1} ELSE Written(ExtraLen) :
       /\ Put(k, ExtraLen, FALSE)
       /\ pc' = IF k = ExtraLen /\ ~ferr THEN "deflate" ELSE "patch"
  /\ UNCHANGED <<members, synced, object, ret>>

\* FAULT: the failed store is not cut off.
DeflateInitFailsUncut ==
  /\ pc = "deflate" /\ "nomem" \in Faults
  /\ Return("error")
  /\ UNCHANGED <<file, object, ferr>>

\* deflateInit2 fails: the only error WGzip_compress reports.
DeflateInitFails ==
  /\ pc = "deflate" /\ "nomem" \in Faults
  /\ members' = CutAt(members, wip.off)
  /\ flen' = wip.off /\ synced' = wip.off
  /\ Return("error")
  /\ UNCHANGED <<object, ferr>>

\* The compressed bytes; an error ends the loop and is turned into success.
Deflate ==
  /\ pc = "deflate"
  /\ \E k \in Written(wip.rec.gz) : Put(k, wip.rec.gz, TRUE)
  /\ pc' = "patch"
  /\ UNCHANGED <<members, synced, object, ret>>

PatchLen == StaticLen + ExtraLen

\* FAULT: no seek to the end after the patch.
PatchUnflushed ==
  /\ pc = "patch"
  /\ members' = Overwritten(members, wip.off, wip.off + PatchLen)
  /\ flen' = IF flen < wip.off + PatchLen THEN wip.off + PatchLen ELSE flen
  /\ pc' = "limit"
  /\ UNCHANGED <<synced, object, ferr, wip, ret>>

\* FAULT: the patch goes to the start of the file, not of the member.
PatchAtStart ==
  /\ pc = "patch"
  /\ members' = Overwritten(members, 0, PatchLen)
  /\ flen' = IF flen < PatchLen THEN PatchLen ELSE flen
  /\ synced' = flen'
  /\ pc' = "limit"
  /\ UNCHANGED <<object, ferr, wip, ret>>

\* The gzip header moves to the front of the member and the EXTRA field with
\* both sizes follows it, written in place; then back to the end of FH.
Patch ==
  /\ pc = "patch"
  /\ members' = Overwritten(members, wip.off, wip.off + PatchLen)
  /\ flen' = IF flen < wip.off + PatchLen THEN wip.off + PatchLen ELSE flen
  /\ synced' = flen'
  /\ \E good \in IF "io" \in Faults THEN BOOLEAN ELSE {TRUE} :
       /\ wip'  = [rec |-> wip.rec, off |-> wip.off, sound |-> wip.sound /\ good]
       /\ ferr' = (ferr \/ ~good)
  /\ pc' = "limit"
  /\ UNCHANGED <<object, ret>>

\* FAULT: the member that does not fit stays, and the call still fails.
GzipTooBigUncut ==
  /\ pc = "limit" /\ maxsize <= flen
  /\ isfull' = TRUE
  /\ members' = Append(members, Member(flen, wip.sound, FALSE))
  /\ fsize' = flen
  /\ Return("error")
  /\ UNCHANGED <<flen, synced, open, comp, maxsize, ferr>>

\* FAULT: the member's length is taken off its offset, not off the end of FH.
GzipTooBigOvercut ==
  /\ pc = "limit" /\ maxsize <= flen
  /\ isfull' = TRUE
  /\ flen' = wip.off - (flen - wip.off) /\ synced' = flen'
  /\ members' = CutAt(members, flen')
  /\ Return("error")
  /\ UNCHANGED <<open, comp, maxsize, fsize, ferr>>

\* Only now is the size known: a member that does not fit is cut off again.
GzipTooBig ==
  /\ pc = "limit" /\ maxsize <= flen
  /\ isfull' = TRUE
  /\ members' = CutAt(members, wip.off)
  /\ flen' = wip.off /\ synced' = wip.off
  /\ Return("error")
  /\ UNCHANGED <<open, comp, maxsize, fsize, ferr>>

\* FAULT: FSIZE is not refreshed.
GzipStoredStale ==
  /\ pc = "limit" /\ maxsize > flen
  /\ members' = Append(members, Member(flen, wip.sound, TRUE))
  /\ Return("ok")
  /\ UNCHANGED <<flen, synced, object, ferr>>

GzipStored ==
  /\ pc = "limit" /\ maxsize > flen
  /\ members' = Append(members, Member(flen, wip.sound, TRUE))
  /\ fsize' = flen
  /\ Return("ok")
  /\ UNCHANGED <<flen, synced, open, comp, maxsize, isfull, ferr>>

-----------------------------------------------------------------------------
(* The process dies: what stdio still buffers is lost, from any byte on.    *)
(* A compressed member is complete once it has been patched, an uncompressed *)
(* one only when the call has returned.                                      *)

Crash ==
  /\ "crash" \in Faults /\ open
  /\ \E k \in synced .. flen :
       /\ members' = CutAt(IF Idle THEN members
                           ELSE Append(members,
                                  Member(flen, wip.sound /\ pc = "limit", FALSE)),
                           k)
       /\ flen' = k /\ synced' = k
  /\ open' = FALSE /\ comp' = "plain" /\ maxsize' = 0 /\ fsize' = 0
  /\ isfull' = FALSE /\ ferr' = FALSE
  /\ Return("none")

-----------------------------------------------------------------------------
Step == WriteHeader \/ WriteData \/ WriteTrailer
          \/ WritePlaceholder \/ DeflateInitFails \/ Deflate \/ Patch
          \/ GzipTooBig \/ GzipStored

Next ==
  \/ \E m \in MaxSizes, c \in Comps : Construct(m, c)
  \/ \E m \in MaxSizes : ConstructRefused(m) \/ SetMaxSize(m)
  \/ \E r \in Record : StoreRefused(r) \/ StorePlain(r) \/ StoreGzip(r)
  \/ Step
  \/ Destroy
  \/ Crash

Spec == Init /\ [][Next]_vars

-----------------------------------------------------------------------------
(* Properties. *)

MemberType ==
  [rec: Record, off: Nat, len: Nat, whole: BOOLEAN, acked: BOOLEAN]

Steps == {"header", "data", "trailer", "placeholder", "deflate", "patch", "limit"}

\* The type invariant of the writer's state.
TypeOK ==
  /\ members \in Seq(MemberType) /\ flen \in Nat /\ synced \in Nat
  /\ open \in BOOLEAN /\ comp \in {"plain", "gzip", "detect"}
  /\ maxsize \in Nat /\ fsize \in Nat
  /\ isfull \in BOOLEAN /\ ferr \in BOOLEAN
  /\ pc \in Steps \cup {"idle"}
  /\ IF Idle THEN wip = NoWip
             ELSE wip \in [rec: Record, off: Nat, sound: BOOLEAN]
  /\ ret \in {"none", "ok", "error"}

\* Members tile the file from byte 0: no store begins inside an earlier record
\* or leaves a gap, and whenever no store is under way the file ends where its
\* last member does, so a refused store has left no byte behind.
Tiled(ms) ==
  /\ ms # << >> => ms[1].off = 0
  /\ \A i \in 1 .. Len(ms) - 1 : ms[i + 1].off = EndOf(ms[i])

Layout ==
  /\ Tiled(members)
  /\ Idle  => flen = FileEnd(members)
  /\ ~Idle => wip.off = FileEnd(members) /\ wip.off <= flen /\ fsize = wip.off

\* FSIZE is the size of the file between calls, whatever failed before.
SizeKnown == Ready => fsize = flen

\* The maximum size is never exceeded in a file that is open between calls
\* (it needs data sizes below 2^32, see the assumption of the theorem).
SizeLimit == Ready => flen <= maxsize

\* What WFile_storeRecord acknowledged is in the file, complete.
AckedIsWhole == \A i \in 1 .. Len(members) : members[i].acked => members[i].whole

\* No step touches a record but the last: a truncation, a patch of the gzip
\* header or a crash never reaches an earlier one.
EarlierRecordsUntouched ==
  [][/\ Len(members') >= Len(members)
     /\ \A i \in 1 .. Len(members) - 1 : members'[i] = members[i]]_vars

\* A compressed record that was acknowledged is safe from a crash of the
\* process, even the last one: the patch ends with a seek, which flushes FH.
GzipRecordsSurvive ==
  [][comp = "gzip" =>
       \A i \in 1 .. Len(members) : members'[i] = members[i]]_vars

\* A good record is refused for its size only when it really does not fit: an
\* uncompressed one would exceed the maximum size, a compressed one reach it.
RefusedOnlyWhenFull ==
  [][/\ \A r \in Record :
          comp = "plain" /\ r.valid /\ StoreRefused(r)
            => flen + r.hdr + r.data + TrailerLen > maxsize
     /\ pc = "limit" /\ ret' = "error"
          => wip.off + ExtraLen + wip.rec.gz >= maxsize]_vars

-----------------------------------------------------------------------------
(* The inductive invariant behind the safety properties. *)

\* What Tiled says of neighbours, said of any two members.
Ordered(ms) ==
  \A i, j \in 1 .. Len(ms) : i < j => EndOf(ms[i]) <= ms[j].off

\* Between calls only bytes of the last record can still be in stdio's buffer,
\* and none of a compressed one.
Durable ==
  /\ synced <= flen
  /\ ~open => Idle /\ synced = flen /\ comp = "plain" /\ maxsize = 0
  /\ ~Idle => wip.off <= synced
  /\ members # << >> => members[Len(members)].off <= synced
  /\ comp = "gzip" => FileEnd(members) <= synced
  /\ pc \in {"header", "data", "trailer"} => comp = "plain"
  /\ pc = "limit" => synced = flen

\* A store begins within the limit, and the room test has set aside what the
\* remaining writes of an uncompressed one need.
Reserved ==
  /\ maxsize \in 0 .. W64 - 1
  /\ ~Idle => wip.off <= maxsize
  /\ pc = "header"  => flen + wip.rec.hdr + wip.rec.data + TrailerLen <= maxsize
  /\ pc = "data"    => flen + wip.rec.data + TrailerLen <= maxsize
  /\ pc = "trailer" => flen + TrailerLen <= maxsize

\* The sizes for which the room test is exact: no cast or sum wraps around.
NoWrap ==
  \A r \in Record : r.data < W32 /\ r.hdr + r.data + TrailerLen < W64

LayoutInv == TypeOK /\ Layout /\ Ordered(members) /\ Durable /\ SizeKnown
LimitInv  == Reserved /\ SizeLimit

-----------------------------------------------------------------------------
(* Refinement: a store under way has not happened yet, whatever it has       *)
(* already written past the last member.                                     *)

LogOf(ms) == [i \in 1 .. Len(ms) |-> [rec |-> ms[i].rec, whole |-> ms[i].whole]]

Archive ==
  INSTANCE BoundedArchive
    WITH log <- LogOf(members), used <- FileEnd(members), cap <- maxsize,
         result <- ret

\* Every store is atomic, and a crash costs at most the last one.
ArchiveSpec == Archive!Spec

=============================================================================
