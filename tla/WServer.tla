------------------------------- MODULE WServer -------------------------------
(***************************************************************************)
(* WServer: one event loop that answers requests for a WARC file, for one   *)
(* of its records, for a list of them, or for those that match a filter.    *)
(*                                                                          *)
(* A handler runs to its end before the loop goes on; its whole reply is    *)
(* queued on the connection and written in later rounds of the loop.  A     *)
(* handler reads the file step by step, and another process (a WFile opened *)
(* for writing) may append to it, or cut it, between two of these steps.    *)
(***************************************************************************)
EXTENDS Integers, Sequences

CONSTANTS
  Client,
  Question,   \* what each of them may ask: [kind, from, local]
  FirstFile,  \* what the file may hold when the server starts
  Mode,       \* subset of {"plain", "gzip"}: what it was written in
  Coming,     \* the records that may be appended: [len, hit, empty]
  MaxBorn,    \* bound on the records ever begun
  Chunk,      \* WSERVER_MAX_CHUNK_SIZE (512)
  HeaderLen,  \* bytes of an uncompressed record that its header takes
  I31         \* 2^31: an offset is a warc_i32_t

\* What is asked for; "wrong" is a request that does not parse, or whose file
\* cannot be opened.
Kind == {"file", "record", "list", "filter", "stop", "wrong"}
\* Whether it matches the filter, and whether its data block is empty.
RecordType == [id: Nat, off: Nat, len: Nat, hit: BOOLEAN, empty: BOOLEAN]

ASSUME ServerAssumption ==
  /\ I31 \in Nat \ {0}
  /\ Question \in [Client -> SUBSET [kind: Kind, from: 0 .. I31 - 1, local: BOOLEAN]]
  /\ Mode \subseteq {"plain", "gzip"}
  /\ Chunk \in Nat \ {0} /\ HeaderLen \in Nat \ {0} /\ MaxBorn \in Nat
  /\ Coming \subseteq [len: 0 .. I31 - 1, hit: BOOLEAN, empty: BOOLEAN]
  /\ \A r \in Coming : r.len > HeaderLen
  /\ \A f \in FirstFile :
       /\ f \in Seq(RecordType) /\ Len(f) \in 1 .. MaxBorn
       /\ \A i \in 1 .. Len(f) :
            /\ f[i].id = i /\ f[i].len \in HeaderLen + 1 .. I31 - 1
            /\ f[i].off = IF i = 1 THEN 0 ELSE f[i - 1].off + f[i - 1].len

VARIABLES
  mode,   \* of the file
  recs,   \* its records, of which the last one may be under way
  acked,  \* how many of them were stored
  size,   \* of the file on disk
  born,   \* how many records were ever begun
  phase,  \* of the process: "serving", "closed", "died", or "stuck" in a handler
  exit,   \* "none"; "asked" by a stop; "last": the round after which it ends
  round,  \* the connections this round of the loop still has to look at
  job,    \* the handler under way
  conn    \* the connections; torn: a read of the file failed in the handler

disk  == <<mode, recs, acked, size, born>>
svars == <<disk, phase, exit, round, job, conn>>

-----------------------------------------------------------------------------
Lesser(a, b) == IF a <= b THEN a ELSE b
EndOf(r) == r.off + r.len
AckedEnd == IF acked = 0 THEN 0 ELSE EndOf(recs[acked])

\* The byte at offset p, told apart from every other byte ever at p.
ByteAt(p) ==
  LET i == CHOOSE i \in 1 .. Len(recs) : recs[i].off <= p /\ p < EndOf(recs[i])
  IN  <<recs[i].id, p - recs[i].off>>

\* fread of n bytes at offset p.
BytesAt(p, n) ==
  [k \in 1 .. (IF p >= size THEN 0 ELSE Lesser(n, size - p)) |-> ByteAt(p + k - 1)]

\* The record WFile_nextRecord gives at offset p, else 0.  Of a record under way
\* an uncompressed one is given once its header is there; a compressed one has
\* no gzip header until it is complete.  One with an empty data block is never
\* given: WRecord_setContentSize refuses it.
RecordAt(p) ==
  LET given(i) == /\ ~recs[i].empty
                  /\ \/ EndOf(recs[i]) <= size
                     \/ mode = "plain" /\ recs[i].off + HeaderLen <= size
      found == {i \in 1 .. Len(recs) : recs[i].off = p /\ given(i)}
  IN  IF found = {} THEN 0 ELSE CHOOSE i \in found : TRUE

\* What a reply consists of, in the order it is written.  A chunk without bytes
\* is, for the client, the end of a chunked reply.
Begun(n)   == [t |-> "head", length |-> n]
Unknown   == -1
Piece(bs) == [t |-> "chunk", bytes |-> bs]
Body(ids) == [t |-> "body", ids |-> ids]
Ended      == [t |-> "last"]
Error     == [t |-> "error"]
Page      == [t |-> "page"]

NoQuestion == [kind |-> "none", from |-> 0, local |-> FALSE]
NoConn  == [q |-> NoQuestion, st |-> "none", out |-> << >>, wire |-> << >>,
            due |-> 0, torn |-> FALSE, gone |-> FALSE]
\* The handler's connection, what it does next, its position in the file, the
\* bytes it still sends from there, the offset after them, FSIZE, and the list.
NoJob   == [of |-> {}, step |-> "idle", at |-> 0, left |-> 0, next |-> 0,
            upto |-> 0, list |-> << >>]

Init ==
  /\ mode \in Mode /\ recs \in FirstFile
  /\ acked = Len(recs) /\ size = EndOf(recs[acked]) /\ born = acked
  /\ phase = "serving" /\ exit = "none" /\ round = {}
  /\ job = NoJob /\ conn = [c \in Client |-> NoConn]

-----------------------------------------------------------------------------
(* The process that writes the file. *)

Written == UNCHANGED <<mode, phase, exit, round, job, conn>>

\* A store begins: some of its bytes are in the file.
Begin ==
  /\ acked = Len(recs) /\ born < MaxBorn
  /\ \E r \in Coming : \E k \in 1 .. r.len :
       /\ recs' = Append(recs, [id |-> born + 1, off |-> size, len |-> r.len, hit |-> r.hit,
                              empty |-> r.empty])
       /\ size' = size + k
  /\ born' = born + 1 /\ Written /\ UNCHANGED acked

Grow ==
  /\ acked < Len(recs) /\ size < EndOf(recs[Len(recs)])
  /\ size' \in size + 1 .. EndOf(recs[Len(recs)])
  /\ Written /\ UNCHANGED <<recs, acked, born>>

Stored ==
  /\ acked < Len(recs) /\ size = EndOf(recs[Len(recs)])
  /\ acked' = Len(recs) /\ Written /\ UNCHANGED <<recs, size, born>>

\* A compressed record that turned out not to fit is cut off.
Withdraw ==
  /\ mode = "gzip" /\ acked < Len(recs) /\ size = EndOf(recs[Len(recs)])
  /\ recs' = SubSeq(recs, 1, acked) /\ size' = AckedEnd
  /\ Written /\ UNCHANGED <<acked, born>>

Writer == Begin \/ Grow \/ Stored \/ Withdraw

-----------------------------------------------------------------------------
(* The handlers. *)

\* shoot_down is not set.
Accepts == exit = "none"

\* The request of c is handled, and the first frames of the reply queued.
Reply(c, frames) ==
  conn' = [conn EXCEPT ![c].st = "handled", ![c].out = @ \o frames, ![c].due = acked]
Queue(c, frames) == conn' = [conn EXCEPT ![c].out = @ \o frames]

Handling(c, kind) ==
  /\ phase = "serving" /\ job = NoJob /\ c \in round
  /\ conn[c].st = "asked" /\ conn[c].q.kind = kind /\ Accepts
  /\ round' = round \ {c} /\ UNCHANGED <<disk, exit>>

From(c) == conn[c].q.from

\* WAccess_callback of a server that is shooting down.
HandleLate(c) ==
  /\ phase = "serving" /\ job = NoJob /\ c \in round
  /\ conn[c].st = "asked" /\ conn[c].q.kind # "stop" /\ ~Accepts
  /\ Reply(c, <<Error>>)
  /\ round' = round \ {c} /\ UNCHANGED <<disk, phase, exit, job>>

\* WServer_parseRequest or the opening of the file fails.
HandleWrong(c) ==
  Handling(c, "wrong") /\ Reply(c, <<Error>>) /\ UNCHANGED <<job, phase>>

\* FAULT: the length is that of the whole file, whatever the offset.
HandleFileWhole(c) ==
  /\ Handling(c, "file")
  /\ LET n == size - From(c)
     IN  \/ n < 0 /\ phase' = "stuck" /\ UNCHANGED <<job, conn>>
         \/ n = 0 /\ Reply(c, <<Begun(0), Ended>>) /\ UNCHANGED <<job, phase>>
         \/ /\ n > 0 /\ Reply(c, <<Begun(size)>>)
            /\ job' = [NoJob EXCEPT !.of = {c}, !.step = "chunks", !.at = From(c), !.left = n]
            /\ UNCHANGED phase

\* WSend_fullResponse: as many bytes as there are now.  An offset beyond the end
\* makes the length wrap, and the loop goes on for 2^64 bytes.
HandleFile(c) ==
  /\ Handling(c, "file")
  /\ LET n == size - From(c)
     IN  \/ n < 0 /\ phase' = "stuck" /\ UNCHANGED <<job, conn>>
         \/ n = 0 /\ Reply(c, <<Begun(0), Ended>>) /\ UNCHANGED <<job, phase>>
         \/ /\ n > 0 /\ Reply(c, <<Begun(n)>>)
            /\ job' = [NoJob EXCEPT !.of = {c}, !.step = "chunks", !.at = From(c), !.left = n]
            /\ UNCHANGED phase

\* WSend_record.
HandleRecord(c) ==
  /\ Handling(c, "record")
  /\ LET i == RecordAt(From(c))
     IN  \/ i = 0 /\ Reply(c, <<Error>>) /\ UNCHANGED job
         \/ /\ i # 0 /\ Reply(c, <<Begun(recs[i].len)>>)
            /\ job' = [NoJob EXCEPT !.of = {c}, !.step = "chunks", !.at = From(c),
                                    !.left = recs[i].len]
  /\ UNCHANGED phase

\* WSend_distantDumpResponse: the list is built before anything is sent.
HandleList(c) ==
  /\ Handling(c, "list")
  /\ job' = [NoJob EXCEPT !.of = {c}, !.step = "list", !.at = From(c), !.upto = size]
  /\ Reply(c, << >>) /\ UNCHANGED phase

\* WSend_distantFilterResponse: success is announced before anything is read.
HandleFilter(c) ==
  /\ Handling(c, "filter")
  /\ job' = [NoJob EXCEPT !.of = {c}, !.step = "filter", !.at = From(c), !.upto = size]
  /\ Reply(c, <<Begun(Unknown)>>) /\ UNCHANGED phase

\* FAULT: the loop is left at once (loopbreak for loopexit).
HandleStopAtOnce(c) ==
  /\ phase = "serving" /\ job = NoJob /\ c \in round
  /\ conn[c].st = "asked" /\ conn[c].q.kind = "stop"
  /\ \/ ~conn[c].q.local /\ Reply(c, <<Error>>) /\ UNCHANGED exit
     \/ conn[c].q.local /\ Reply(c, <<Page>>) /\ exit' = "last"
  /\ round' = round \ {c} /\ UNCHANGED <<disk, phase, job>>

\* WStop_callback, from this host or another.
HandleStop(c) ==
  /\ phase = "serving" /\ job = NoJob /\ c \in round
  /\ conn[c].st = "asked" /\ conn[c].q.kind = "stop"
  /\ \/ ~conn[c].q.local /\ Reply(c, <<Error>>) /\ UNCHANGED exit
     \/ /\ conn[c].q.local /\ Reply(c, <<Page>>)
        /\ exit' = IF exit = "none" THEN "asked" ELSE exit
  /\ round' = round \ {c} /\ UNCHANGED <<disk, phase, job>>

Working(step) ==
  phase = "serving" /\ job.step = step /\ UNCHANGED <<disk, phase, exit, round>>

\* FAULT: a whole chunk is always taken off what is left.
SendWholeChunk ==
  /\ Working("chunks")
  /\ \E c \in job.of :
       LET bs   == BytesAt(job.at, Chunk)
           more == [job EXCEPT !.at = @ + Len(bs), !.left = @ - Chunk]
       IN  IF job.left # Chunk THEN Queue(c, <<Piece(bs)>>) /\ job' = more
           ELSE Queue(c, <<Piece(bs), Ended>>) /\ job' = NoJob

\* One turn of the loop that sends the bytes; at the end of the file it goes on
\* with chunks that are empty.
SendChunk ==
  /\ Working("chunks")
  /\ \E c \in job.of :
       LET n    == Lesser(Chunk, job.left)
           bs   == BytesAt(job.at, n)
           more == [job EXCEPT !.at = @ + Len(bs), !.left = @ - n]
       IN  CASE job.left > n -> Queue(c, <<Piece(bs)>>) /\ job' = more
             [] job.left = n /\ conn[c].q.kind = "filter" ->
                  /\ Queue(c, <<Piece(bs)>>)
                  /\ job' = [more EXCEPT !.step = "filter", !.at = job.next]
             [] OTHER -> Queue(c, <<Piece(bs), Ended>>) /\ job' = NoJob

\* WBuildXmlOutput and its three brothers: a record that cannot be read is
\* answered at once, and then the list as well.
ListNext ==
  /\ Working("list")
  /\ \E c \in job.of :
       LET i     == RecordAt(job.at)
           reply == <<Begun(Len(job.list)), Body(job.list)>>
       IN  CASE job.at = job.upto -> Queue(c, reply) /\ job' = NoJob
             [] job.at # job.upto /\ i = 0 -> Queue(c, <<Error>> \o reply) /\ job' = NoJob
             [] OTHER ->
                  /\ job' = [job EXCEPT !.at = EndOf(recs[i]), !.list = Append(@, recs[i].id)]
                  /\ UNCHANGED conn

\* FAULT: it does not go back to the beginning of a record that matches.
FilterNextAfter ==
  /\ Working("filter") /\ job.at < I31
  /\ \E c \in job.of :
       LET i == RecordAt(job.at)
           after == job.at + recs[i].len
       IN  CASE job.at = job.upto \/ i = 0 -> Queue(c, <<Ended>>) /\ job' = NoJob
             [] OTHER ->
                  /\ job' = [job EXCEPT !.at = after, !.next = after,
                                        !.left = IF recs[i].hit THEN recs[i].len ELSE 0,
                                        !.step = IF recs[i].hit THEN "chunks" ELSE "filter"]
                  /\ UNCHANGED conn

\* FAULT: the offset is not moved over a record that does not match.
FilterNextStays ==
  /\ Working("filter") /\ job.at < I31
  /\ \E c \in job.of :
       LET i == RecordAt(job.at)
       IN  CASE job.at = job.upto \/ i = 0 -> Queue(c, <<Ended>>) /\ job' = NoJob
             [] OTHER ->
                  /\ recs[i].hit
                  /\ job' = [job EXCEPT !.step = "chunks", !.left = recs[i].len,
                                        !.next = job.at + recs[i].len]
                  /\ UNCHANGED conn

\* FAULT: at a bad record it returns without the end of the reply.
FilterNextUnended ==
  /\ Working("filter") /\ job.at < I31
  /\ \E c \in job.of :
       LET i == RecordAt(job.at)
           after == job.at + recs[i].len
       IN  CASE job.at = job.upto -> Queue(c, <<Ended>>) /\ job' = NoJob
             [] job.at # job.upto /\ i = 0 -> job' = NoJob /\ UNCHANGED conn
             [] OTHER ->
                  /\ job' = IF recs[i].hit
                              THEN [job EXCEPT !.step = "chunks", !.left = recs[i].len,
                                               !.next = after]
                              ELSE [job EXCEPT !.at = after]
                  /\ UNCHANGED conn

\* The next record; its bytes are sent if it matches.
FilterNext ==
  /\ Working("filter") /\ job.at < I31
  /\ \E c \in job.of :
       LET i == RecordAt(job.at)
           after == job.at + recs[i].len
       IN  CASE job.at = job.upto \/ i = 0 -> Queue(c, <<Ended>>) /\ job' = NoJob
             [] OTHER ->
                  /\ job' = IF recs[i].hit
                              THEN [job EXCEPT !.step = "chunks", !.left = recs[i].len,
                                               !.next = after]
                              ELSE [job EXCEPT !.at = after]
                  /\ UNCHANGED conn

\* The offset of the next record does not fit a warc_i32_t: with the negative
\* number that it becomes, the seek fails its assertion.
FilterBeyond ==
  /\ phase = "serving" /\ job.step = "filter" /\ job.at >= I31
  /\ phase' = "died" /\ UNCHANGED <<disk, exit, round, job, conn>>

\* The disk fails under fread: the loop that sends the bytes is left, and of a
\* filter the other records are left out as well, since the error indicator of
\* the stream stays set; or WFile_nextRecord gives no record.
ReadFails ==
  /\ \E step \in {"chunks", "filter", "list"} : Working(step)
  /\ \E c \in job.of :
       LET list == <<Error>> \o <<Begun(Len(job.list)), Body(job.list)>>
       IN  conn' = [conn EXCEPT ![c].torn = TRUE,
                      ![c].out = @ \o (IF job.step = "list" THEN list ELSE <<Ended>>)]
  /\ job' = NoJob

\* It fails when WSend_record looks at the record.
RecordUnread(c) ==
  /\ Handling(c, "record")
  /\ conn' = [conn EXCEPT ![c].st = "handled", ![c].out = @ \o <<Error>>, ![c].due = acked,
                          ![c].torn = TRUE]
  /\ UNCHANGED <<job, phase>>

DiskFault == ReadFails \/ \E c \in Client : RecordUnread(c)

Handle(c) ==
  \/ HandleLate(c) \/ HandleWrong(c) \/ HandleFile(c) \/ HandleRecord(c)
  \/ HandleList(c) \/ HandleFilter(c) \/ HandleStop(c)

Work == SendChunk \/ ListNext \/ FilterNext

-----------------------------------------------------------------------------
(* The event loop of libevent. *)

Idle == phase = "serving" /\ job = NoJob

\* evhttp_write: as much as the socket takes.  A client that is gone costs the
\* connection what was left.
Write(c) ==
  /\ Idle /\ c \in round /\ conn[c].out # << >>
  /\ \/ /\ ~conn[c].gone
        /\ \E k \in 1 .. Len(conn[c].out) :
             conn' = [conn EXCEPT ![c].wire = @ \o SubSeq(conn[c].out, 1, k),
                                  ![c].out = SubSeq(@, k + 1, Len(@))]
     \/ conn[c].gone /\ conn' = [conn EXCEPT ![c].out = << >>]
  /\ round' = round \ {c} /\ UNCHANGED <<disk, phase, exit, job>>

\* FAULT: the timer is set anew in every round.
NewRoundAgain ==
  /\ Idle /\ round = {} /\ exit # "last"
  /\ round' = {c \in Client : conn[c].st = "asked" \/ conn[c].out # << >>}
  /\ round' # {} \/ exit = "asked"
  /\ UNCHANGED <<disk, phase, exit, job, conn>>

\* A round of event_base_loop looks at what is ready.  The timer that
\* event_base_loopexit sets goes off in the round after the one it was set in.
NewRound ==
  /\ Idle /\ round = {} /\ exit # "last"
  /\ round' = {c \in Client : conn[c].st = "asked" \/ conn[c].out # << >>}
  /\ round' # {} \/ exit = "asked"
  /\ exit' = IF exit = "asked" THEN "last" ELSE exit
  /\ UNCHANGED <<disk, phase, job, conn>>

\* The loop is left; WServer_stop closes the connections.
Close ==
  /\ Idle /\ round = {} /\ exit = "last"
  /\ phase' = "closed" /\ UNCHANGED <<disk, exit, round, job, conn>>

Die ==
  /\ phase \in {"serving", "stuck"}
  /\ phase' = "died" /\ UNCHANGED <<disk, exit, round, job, conn>>

Server ==
  \/ \E c \in Client : Handle(c) \/ Write(c)
  \/ Work \/ FilterBeyond \/ NewRound \/ Close

=============================================================================
