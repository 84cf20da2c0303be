------------------------------- MODULE WBloc -------------------------------
(***************************************************************************)
(* The payload of a record: a record of an uncompressed file is read        *)
(* (WHeader, WFile_nextRecord), its data block is registered, given in      *)
(* chunks to b_callback, which drops the HTTP response header, and kept in  *)
(* a temporary file (WRecord_getBloc), which WBloc_next and                 *)
(* WBloc_copyPayloadToTemporary deliver.                                    *)
(*                                                                          *)
(* What reaches the temporary file is a run of consecutive bytes of the     *)
(* data block, so it is held as its two ends.                               *)
(***************************************************************************)
EXTENDS WHeader

CONSTANTS
  Units,     \* values of unit
  Allocs,    \* values of alloc
  MaxCopies  \* bound on the calls of WBloc_copyPayloadToTemporary

ASSUME BlocAssumption ==
  Units \subseteq Nat \ {0} /\ Allocs \subseteq Nat \ {0} /\ MaxCopies \in Nat

VARIABLES
  unit,      \* CONTENT_BUFSIZ, the size of the buffers that getContent reads
  alloc,     \* allocation unit of the WBloc
  uri,       \* target uri of the record: "filedesc", "dns" or "other"
  withhttp,  \* is an HTTP header to be dropped?
  content,   \* the data block, as WFile_register copies it
  read,      \* bytes of it given to b_callback
  act, line, wasCr, fsm, httpCode,
  from, to,  \* what was written to the temporary file: content[from + 1 .. to]
  tpos, eob, lastSize,   \* position in that file; EOB, LASTSIZE
  given,     \* what WBloc_next gave since it last started over
  copied,    \* what the last copy wrote and said
  copies

bvars == <<unit, alloc, uri, withhttp, content, read, act, line, wasCr, fsm, httpCode,
           from, to, tpos, eob, lastSize, given, copied, copies>>
vars == <<hvars, bvars>>
search == <<read, act, line, wasCr, fsm, httpCode, from, to>>
deliver == <<tpos, eob, lastSize, given, copied, copies>>
choices == <<unit, alloc, uri, withhttp>>

NoCopy == [said |-> "none", before |-> << >>, bytes |-> << >>]

Init ==
  /\ HInit
  /\ unit = 0 /\ alloc = 0 /\ uri = "other" /\ withhttp = FALSE
  /\ content = << >> /\ read = 0
  /\ act = "none" /\ line = "empty" /\ wasCr = FALSE /\ fsm = "S1" /\ httpCode = "none"
  /\ from = 0 /\ to = 0 /\ tpos = 0 /\ eob = FALSE /\ lastSize = 0
  /\ given = << >> /\ copied = NoCopy /\ copies = 0

ReadHeader == HNext /\ UNCHANGED bvars

-----------------------------------------------------------------------------
(* From the header to the callback. *)

\* WFile_nextRecord: the data block is what is left of the announced length after the
\* header; a record without one is not given.
NextRecord ==
  /\ pc = "record"
  /\ pc' = IF datalen = at THEN "nil" ELSE "held"
  /\ UNCHANGED <<text, origin, at, state, key, value, comment, fields, datalen, contlen,
                 dropped, bvars>>

Moves(next) ==
  /\ pc' = next
  /\ UNCHANGED <<text, origin, at, state, key, value, comment, fields, datalen, contlen,
                 dropped>>

\* What WFile_register puts before the position of the record's temporary file's
\* reader: all of the block, or nothing when the file ends before it does.
Block == IF at < datalen /\ datalen <= Len(text) THEN SubSeq(text, at + 1, datalen) ELSE << >>

\* WRecord_getBloc up to its call of getContent, for a record with any target uri and
\* an application with any choice of the rest.
GetBloc ==
  /\ pc = "held" /\ Moves("search")
  /\ unit' \in Units /\ alloc' \in Allocs
  /\ uri' \in {"filedesc", "dns", "other"} /\ withhttp' \in BOOLEAN
  /\ httpCode' = CASE uri' = "filedesc" -> "998" [] uri' = "dns" -> "999" [] OTHER -> "none"
  /\ act' = IF uri' = "other" /\ withhttp' THEN "SEARCHING_HTTP" ELSE "WRITEING"
  /\ content' = Block
  /\ UNCHANGED <<read, line, wasCr, fsm, from, to, deliver>>

\* A temporary file of the bloc cannot be created: no WBloc.  One of the record
\* cannot: WRecord_getBloc does not look, and getContent asserts it.
GetBlocFails ==
  /\ pc = "held" /\ Moves("nobloc") /\ UNCHANGED bvars

GetBlocAborts ==
  /\ pc = "held" /\ Moves("aborted") /\ UNCHANGED bvars

-----------------------------------------------------------------------------
(* b_callback, one byte of the buffer at a time. *)

b == content[read + 1]
First == read % unit = 0                   \* the byte begins a buffer
BufferStart == read - (read % unit)

Searches ==
  /\ pc = "search" /\ act = "SEARCHING_HTTP" /\ read < Len(content)
  /\ read' = read + 1
  /\ UNCHANGED <<hvars, choices, content, deliver>>

\* line, with a byte appended.
Longer(l, byte) == IF l = "empty" THEN (IF byte = "h" THEN "http" ELSE "other") ELSE l

\* A byte within a line.  A CR that is not followed by LF belongs to the line, except
\* that of two CR the first is dropped when the second begins a buffer.
SearchLine ==
  /\ Searches /\ ~ (wasCr /\ b = "lf")
  /\ wasCr' = (b = "cr")
  /\ LET before == IF wasCr /\ ~ (b = "cr" /\ First) THEN Longer(line, "cr") ELSE line
     IN  line' = IF b = "cr" THEN before ELSE Longer(before, b)
  /\ UNCHANGED <<act, fsm, httpCode, from, to>>

SearchLineEnd ==
  /\ Searches /\ wasCr /\ b = "lf"
  /\ wasCr' = FALSE
  /\ \/ /\ line = "empty"                  \* no HTTP header: the whole buffer is written
        /\ httpCode' = "997" /\ act' = "WRITEING"
        /\ from' = BufferStart /\ to' = read + 1
        /\ UNCHANGED <<line, fsm>>
     \/ /\ line = "http"
        /\ httpCode' = "http" /\ act' = "IGNORE_ALL" /\ fsm' = "S11"
        /\ UNCHANGED <<line, from, to>>
     \/ /\ line = "other"
        /\ line' = "empty" /\ UNCHANGED <<act, fsm, httpCode, from, to>>

\* The states of the search for CR LF CR LF.
IgnoreNext(s, byte) ==
  CASE s = "S11" /\ byte = "cr" -> "S12"
    [] s = "S12" /\ byte = "lf" -> "S5"
    [] s = "S1"  /\ byte = "cr" -> "S2"
    [] s = "S2"  /\ byte = "lf" -> "S3"
    [] s = "S3"  /\ byte = "cr" -> "S4"
    [] s = "S4"  /\ byte = "lf" -> "S5"
    [] OTHER -> "S1"

\* FAULT: the state is the initial one again in every buffer.
IgnoreAnew ==
  /\ pc = "search" /\ act = "IGNORE_ALL" /\ read < Len(content)
  /\ read' = read + 1
  /\ fsm' = IgnoreNext(IF First THEN "S1" ELSE fsm, b)
  /\ act' = IF fsm' = "S5" THEN "WRITEING" ELSE act
  /\ from' = IF fsm' = "S5" THEN read + 1 ELSE from
  /\ to' = from'
  /\ UNCHANGED <<hvars, choices, content, line, wasCr, httpCode, deliver>>

Ignore ==
  /\ pc = "search" /\ act = "IGNORE_ALL" /\ read < Len(content)
  /\ read' = read + 1
  /\ fsm' = IgnoreNext(fsm, b)
  /\ act' = IF fsm' = "S5" THEN "WRITEING" ELSE act
  /\ from' = IF fsm' = "S5" THEN read + 1 ELSE from
  /\ to' = from'
  /\ UNCHANGED <<hvars, choices, content, line, wasCr, httpCode, deliver>>

Write ==
  /\ pc = "search" /\ act = "WRITEING" /\ read < Len(content)
  /\ read' = read + 1 /\ to' = read + 1
  /\ UNCHANGED <<hvars, choices, content, act, line, wasCr, fsm, httpCode, from, deliver>>

\* The end of the data block: the WBloc is made.
Made ==
  /\ pc = "search" /\ read = Len(content) /\ Moves("bloc")
  /\ UNCHANGED bvars

GetContent == SearchLine \/ SearchLineEnd \/ Ignore \/ Write \/ Made

-----------------------------------------------------------------------------
(* Delivery. *)

Size == to - from
Fewer(m, n) == IF m <= n THEN m ELSE n
Payload(m, n) == SubSeq(content, from + m + 1, from + n)
Chunk == Fewer(alloc, Size - tpos)

Delivers ==
  pc = "bloc" /\ UNCHANGED <<hvars, choices, content, search, copied, copies>>

\* WBloc_next.  The end of the file is met only by a read that wants more than there
\* is, and such a read also sets EOB: the two tests are one.
NextOver ==
  /\ Delivers /\ eob
  /\ eob' = FALSE /\ tpos' = 0 /\ lastSize' = 0 /\ given' = << >>

\* FAULT: the test for the end is the wrong way round.
NextChunkSwapped ==
  /\ Delivers /\ ~ eob
  /\ tpos' = tpos + Chunk /\ lastSize' = Chunk /\ eob' = (Chunk > alloc)
  /\ given' = given \o Payload(tpos, tpos + Chunk)

\* FAULT: the position moves by what was asked for.
NextChunkFull ==
  /\ Delivers /\ ~ eob
  /\ tpos' = tpos + alloc /\ lastSize' = Chunk /\ eob' = (Chunk < alloc)
  /\ given' = given \o Payload(tpos, tpos + Chunk)

\* FAULT: a full buffer that reaches the end of the file is taken for the last but one.
NextChunkEarly ==
  /\ Delivers /\ ~ eob
  /\ tpos' = tpos + Chunk /\ lastSize' = Chunk /\ eob' = (Size - tpos < 2 * alloc)
  /\ given' = given \o Payload(tpos, tpos + Chunk)

NextChunk ==
  /\ Delivers /\ ~ eob
  /\ tpos' = tpos + Chunk /\ lastSize' = Chunk /\ eob' = (Chunk < alloc)
  /\ given' = given \o Payload(tpos, tpos + Chunk)

\* WBloc_copyPayloadToTemporary: all that WBloc_next has not given yet; when it has
\* met the end, the first call starts over, nothing is written and an error returned.
Copied(said, bytes, last) ==
  /\ pc = "bloc" /\ copies < MaxCopies
  /\ copied' = [said |-> said, before |-> given, bytes |-> bytes]
  /\ copies' = copies + 1
  /\ eob' = FALSE /\ tpos' = 0 /\ lastSize' = last /\ given' = << >>
  /\ UNCHANGED <<hvars, choices, content, search>>

CopyOver == eob /\ Copied("error", << >>, 0)

\* FAULT: it starts at the beginning wherever WBloc_next is.
CopyRestRewound ==
  ~ eob /\ Copied("ok", Payload(0, Size), (Size - tpos) % alloc)

CopyRest ==
  ~ eob /\ Copied("ok", Payload(tpos, Size), (Size - tpos) % alloc)

GetBlocNext == NextRecord \/ GetBloc \/ GetBlocFails \/ GetBlocAborts
Deliver == NextOver \/ NextChunk
Copy == CopyOver \/ CopyRest

Next == ReadHeader \/ GetBlocNext \/ GetContent \/ Deliver \/ Copy

\* The process runs, and an application that asks for chunks does so until it is told
\* that there are no more.
Spec ==
  /\ Init /\ [][Next]_vars
  /\ WF_vars(ReadHeader \/ GetBlocNext \/ GetContent) /\ WF_vars(Deliver)

-----------------------------------------------------------------------------
(* Properties. *)

TypeOK ==
  /\ HTypeOK
  /\ pc \in {"version", "header", "record", "held", "search", "bloc", "nil", "nobloc",
            "aborted"}
  /\ content \in Line /\ read \in 0 .. Len(content)
  /\ act \in {"none", "SEARCHING_HTTP", "IGNORE_ALL", "WRITEING"}
  /\ line \in {"empty", "http", "other"} /\ wasCr \in BOOLEAN
  /\ fsm \in {"S1", "S2", "S3", "S4", "S5", "S11", "S12"}
  /\ httpCode \in {"none", "http", "997", "998", "999"}
  /\ from \in 0 .. to /\ to \in 0 .. Len(content)
  /\ tpos \in 0 .. Size /\ lastSize \in 0 .. alloc /\ eob \in BOOLEAN
  /\ given \in Line /\ copies \in 0 .. MaxCopies

\* Where a line of s begins, the first empty one, and whether a line before it is a
\* status line of HTTP.
LineStart(s, k) == k = 1 \/ (k > 2 /\ s[k - 2] = "cr" /\ s[k - 1] = "lf")
Empties(s) == {k \in 1 .. Len(s) - 1 : LineStart(s, k) /\ s[k] = "cr" /\ s[k + 1] = "lf"}
FirstEmpty(s) == CHOOSE k \in Empties(s) : \A j \in Empties(s) : k <= j
HttpBefore(s, e) == \E k \in 1 .. e - 1 : LineStart(s, k) /\ s[k] = "h"

\* The payload, whatever the size of the buffers that the data block comes in: with the
\* HTTP header to be dropped, what follows the first empty line after a status line;
\* else, and when there is no such header, the whole block.  Not covered are a header
\* with two CR in a row, and a block without HTTP header that has no empty line in its
\* first buffer: b_callback drops such a block, or its first buffers.
PayloadExact ==
  pc = "bloc" =>
    LET block == IF origin = NoOne THEN content ELSE origin.content
        plain == uri # "other" \/ ~ withhttp
        e == FirstEmpty(block)
        twoCrs == \E i \in 1 .. e - 1 : block[i] = "cr" /\ block[i + 1] = "cr"
    IN  /\ plain => Payload(0, Size) = block
        /\ ~ plain /\ Empties(block) # {} /\ ~ twoCrs =>
             \/ HttpBefore(block, e) /\ Payload(0, Size) = SubSeq(block, e + 2, Len(block))
             \/ ~ HttpBefore(block, e) /\ e + 1 <= unit /\ Payload(0, Size) = block
             \/ ~ HttpBefore(block, e) /\ e + 1 > unit

\* The chunks of one pass of WBloc_next tile the payload from its start, and the pass is
\* over only when all of it was given, whatever passes and copies came before.
ChunksTile ==
  pc = "bloc" =>
    /\ given = Payload(0, tpos)
    /\ eob => given = Payload(0, Size)

\* What WBloc_copyPayloadToTemporary writes completes what WBloc_next had given before,
\* also when it reports an error, and an error means that nothing was missing.
CopyCompletes ==
  copied.said # "none" =>
    /\ copied.before \o copied.bytes = Payload(0, Size)
    /\ copied.said = "error" => copied.bytes = << >>

\* The reading of a record ends, and an application that takes chunks gets to the end
\* of the payload.
BlocEnds == <>(pc \in {"nil", "nobloc", "aborted"} \/ (pc = "bloc" /\ eob))
=============================================================================
