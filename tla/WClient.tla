------------------------------- MODULE WClient -------------------------------
(***************************************************************************)
(* WClient objects, each with one call under way, and the server they ask.  *)
(* A call sends the request, runs an event loop of its own until a callback *)
(* ends it, and returns success if the counter of its callbacks is not 0.   *)
(***************************************************************************)
EXTENDS WServer, FiniteSets, SequencesExt

CONSTANTS
  WriteSize,   \* WRITESIZE (1024)
  ListText(_), \* the length of the text of a list
  W32          \* 2^32

ASSUME ClientAssumption ==
  /\ WriteSize \in Nat \ {0} /\ W32 \in Nat \ {0}
  /\ \A n \in 0 .. MaxBorn : ListText(n) \in Nat \ {0}

VARIABLE call  \* the call of each client

vars == <<svars, call>>

NoCall == [st |-> "idle", got |-> << >>, count |-> 0, result |-> "none", cut |-> FALSE]

WInit == Init /\ call = [c \in Client |-> NoCall]

Return(c, result) == call' = [call EXCEPT ![c].st = "over", ![c].result = result]
Leave(c) == conn' = [conn EXCEPT ![c].wire = << >>, ![c].gone = TRUE]
Elsewhere == UNCHANGED <<disk, phase, exit, round, job>>

\* "unless (arg . size) return (WARC_TRUE)".
Verdict(n) == IF n = 0 THEN "failed" ELSE "ok"

-----------------------------------------------------------------------------
\* WClient_getWRecord, _getWFile, _getFiltredWFile, _getList, or, for a stop, a
\* browser.
Ask(c) ==
  /\ call[c] = NoCall
  /\ \E q \in Question[c] :
       conn' = [conn EXCEPT ![c].q = q, ![c].st = "asked"]
  /\ phase \in {"serving", "stuck"}
  /\ call' = [call EXCEPT ![c].st = "waiting"]
  /\ Elsewhere

\* No one listens: the callback gets a request without a code.
AskRefused(c) ==
  /\ call[c] = NoCall /\ phase \notin {"serving", "stuck"}
  /\ Return(c, "failed") /\ UNCHANGED conn /\ Elsewhere

Reading(c, st, t) ==
  /\ call[c].st = st /\ conn[c].wire # << >> /\ conn[c].wire[1].t = t
  /\ Elsewhere

Consume(c) == conn' = [conn EXCEPT ![c].wire = Tail(@)]

ReadHead(c) ==
  /\ Reading(c, "waiting", "head")
  /\ call' = [call EXCEPT ![c].st = "reading"] /\ Consume(c)

\* WResponse_callback with another code than 200.
ReadError(c) == Reading(c, "waiting", "error") /\ Return(c, "failed") /\ Leave(c)
ReadPage(c)  == Reading(c, "waiting", "page") /\ Return(c, "ok") /\ Leave(c)

\* FAULT: the file is written from its start each time.
ReadChunkAnew(c) ==
  /\ Reading(c, "reading", "chunk") /\ conn[c].wire[1].bytes # << >>
  /\ LET bs == conn[c].wire[1].bytes
     IN  call' = [call EXCEPT ![c].got = bs, ![c].count = (@ + Len(bs)) % W32]
  /\ Consume(c)

\* WGetChunks_callback: the bytes go to the file.
ReadChunk(c) ==
  /\ Reading(c, "reading", "chunk") /\ conn[c].wire[1].bytes # << >>
  /\ LET bs == conn[c].wire[1].bytes
     IN  call' = [call EXCEPT ![c].got = @ \o bs, ![c].count = (@ + Len(bs)) % W32]
  /\ Consume(c)

\* The end of a chunked reply.  That the number of bytes is not the one that was
\* announced is a debugging message.
ReadLast(c) ==
  /\ \/ Reading(c, "reading", "last")
     \/ Reading(c, "reading", "chunk") /\ conn[c].wire[1].bytes = << >>
  /\ Return(c, Verdict(call[c].count)) /\ Leave(c)

\* The loop of WResponse_callback that writes a list.  When less than WRITESIZE
\* is left, the counter wraps and the next turn writes more than there is: it
\* fails, or ends the process.
ReadBody(c) ==
  /\ Reading(c, "reading", "body")
  /\ LET ids == conn[c].wire[1].ids
         n   == ListText(Len(ids))
     IN  IF n < WriteSize
           THEN \E r \in {"failed", "crashed"} : Return(c, r)
           ELSE call' = [call EXCEPT ![c].st = "over", ![c].got = ids,
                                     ![c].count = n % W32, ![c].result = Verdict(n % W32)]
  /\ Leave(c)

\* The connection is closed: before the head of a reply the callback gets no
\* request at all, and in a list a buffer without bytes.  In a chunked reply
\* this looks like its end.
Dropped(c) ==
  /\ call[c].st \in {"waiting", "reading"}
  /\ phase \in {"closed", "died"} /\ conn[c].wire = << >>
  /\ call' = [call EXCEPT ![c].st = "over", ![c].cut = TRUE,
               ![c].result = IF call[c].st = "waiting" \/ conn[c].q.kind = "list"
                               THEN "crashed" ELSE Verdict(call[c].count)]
  /\ Leave(c) /\ Elsewhere

\* Nothing came for HTTP_READ_TIMEOUT seconds: no request for the callback.
Timeout(c) ==
  /\ call[c].st \in {"waiting", "reading"}
  /\ phase \in {"serving", "stuck"} /\ conn[c].wire = << >>
  /\ Return(c, "crashed") /\ Leave(c) /\ Elsewhere

ClientReads(c) ==
  \/ ReadHead(c) \/ ReadError(c) \/ ReadPage(c) \/ ReadChunk(c) \/ ReadLast(c)
  \/ ReadBody(c) \/ Dropped(c)

ClientStep(c) == Ask(c) \/ AskRefused(c) \/ ClientReads(c) \/ Timeout(c)

Next ==
  \/ (Writer \/ Server \/ DiskFault \/ Die) /\ UNCHANGED call
  \/ \E c \in Client : ClientStep(c)

\* The loops of the server and of the clients run as long as there is something
\* for them; nothing is asked of the writer, of the applications, of a timeout
\* or of the disk.
Spec ==
  /\ WInit /\ [][Next]_vars
  /\ WF_vars(Server /\ UNCHANGED call)
  /\ \A c \in Client : WF_vars(ClientReads(c))

-----------------------------------------------------------------------------
(* Properties. *)

FrameType ==
  [t: {"head"}, length: Nat \cup {Unknown}] \cup [t: {"chunk"}, bytes: Seq(Nat \X Nat)]
    \cup [t: {"body"}, ids: Seq(Nat)] \cup [t: {"last", "error", "page"}]

JobType ==
  [of: SUBSET Client, step: {"idle", "chunks", "list", "filter"}, at: Nat, left: Nat,
   next: Nat, upto: Nat, list: Seq(Nat)]

\* The type invariant of the server and its clients.
TypeOK ==
  /\ mode \in Mode /\ recs \in Seq(RecordType) /\ acked \in 1 .. Len(recs)
  /\ born \in Len(recs) .. MaxBorn
  /\ size \in AckedEnd .. EndOf(recs[Len(recs)]) /\ Len(recs) <= acked + 1
  /\ phase \in {"serving", "closed", "died", "stuck"} /\ exit \in {"none", "asked", "last"}
  /\ round \subseteq Client
  /\ job \in JobType /\ (job.step = "idle") = (job.of = {}) /\ Cardinality(job.of) <= 1
  /\ \A c \in Client :
       /\ conn[c].q \in Question[c] \cup {NoQuestion}
       /\ conn[c].st \in {"none", "asked", "handled"}
       /\ conn[c].out \in Seq(FrameType) /\ conn[c].wire \in Seq(FrameType)
       /\ conn[c].due \in 0 .. acked /\ conn[c].gone \in BOOLEAN /\ conn[c].torn \in BOOLEAN
       /\ call[c].st \in {"idle", "waiting", "reading", "over"}
       /\ call[c].count \in 0 .. W32 - 1 /\ call[c].cut \in BOOLEAN
       /\ call[c].result \in {"none", "ok", "failed", "crashed"}

Frames(c)   == conn[c].wire \o conn[c].out
Has(c, t)   == \E k \in 1 .. Len(Frames(c)) : Frames(c)[k].t = t
Finished(c) == conn[c].st = "handled" /\ c \notin job.of

\* The bytes that frames carry.
BytesOf(f)  == IF f.t = "chunk" THEN f.bytes ELSE << >>
Carried(fs) == FlattenSeq([k \in 1 .. Len(fs) |-> BytesOf(fs[k])])

\* The bytes c was sent so far: received, on the way, or queued.
Stream(c) == call[c].got \o Carried(Frames(c))

\* The bytes of the file from offset p up to offset q.
Between(p, q) == [k \in 1 .. q - p |-> ByteAt(p + k - 1)]

\* A filter goes on only where a record begins, and up to the first one whose data
\* block is empty.
Reached(c, i) ==
  /\ \E j \in 1 .. conn[c].due : recs[j].off = From(c)
  /\ \A j \in 1 .. i : recs[j].off >= From(c) => ~recs[j].empty

\* What record i is in the reply to c.  One whose data block is empty cannot be got.
Wanted(c, i) ==
  LET q == conn[c].q
      r == recs[i]
  IN  CASE q.kind = "record" /\ r.off = q.from /\ ~r.empty -> Between(r.off, EndOf(r))
        [] q.kind = "filter" /\ r.off >= q.from /\ r.hit /\ Reached(c, i) ->
             Between(r.off, EndOf(r))
        [] q.kind = "list" /\ r.off >= q.from -> <<r.id>>
        [] OTHER -> << >>

\* What c asked for, of the records that were stored when its request was
\* handled: the rest of the file, the record, the matching ones before an empty one
\* (at which the filter is ended, wserver.c:2324, though success was announced), or
\* the list.
Promised(c) ==
  IF conn[c].q.kind = "file" THEN Between(From(c), EndOf(recs[conn[c].due]))
  ELSE FlattenSeq([i \in 1 .. conn[c].due |-> Wanted(c, i)])

\* WSend_fullResponse, WSend_record, WSend_distantFilterResponse (wserver.c:698 to
\* 2495) read a file that is being written: what they send begins with all that
\* was asked for and had been stored, in order, each byte once; what was under
\* way can only come after it.  An error is sent only when there is nothing,
\* or a read failed: then what is sent is the beginning of all that.
ReplyHoldsStored ==
  \A c \in Client :
    /\ conn[c].q.kind \in {"file", "record", "filter"} /\ conn[c].st = "handled"
    /\ call[c].st # "over"
    => \/ IsPrefix(Promised(c), Stream(c))
       \/ (~Finished(c) \/ conn[c].torn) /\ IsPrefix(Stream(c), Promised(c))
       \/ Has(c, "error") /\ (exit # "none" \/ Promised(c) = << >>)

\* The length announced in the head of a reply (wserver.c:784, 980) is the number
\* of bytes that follow; they can be fewer when a record was under way or a read
\* failed.
LengthHonest ==
  \A c \in Client :
    Has(c, "head") /\ Frames(c)[1].t = "head" /\ Frames(c)[1].length # Unknown
      /\ conn[c].q.kind # "list"
    => /\ Len(Stream(c)) <= Frames(c)[1].length
       /\ Finished(c) /\ ~conn[c].torn /\ mode = "plain" /\ conn[c].q.kind = "file"
            => Len(Stream(c)) = Frames(c)[1].length

\* A reply is an error, a page, or a head, what it announces, and an end: once,
\* except for a list with an unreadable record, which is sent after the error.
\* No handler leaves a reply without its end.
WellFormed ==
  \A c \in Client :
    conn[c].st = "handled" /\ call[c].st # "over" =>
      LET n == Len(Frames(c))
          f(k) == Frames(c)[k].t
          ends == {"last", "body", "error", "page"}
          begun == call[c].st = "reading" \/ (n > 0 /\ f(1) = "head")
      IN  /\ \A k \in 1 .. n - 1 : f(k) \in ends => conn[c].q.kind = "list" /\ f(k) = "error"
          /\ \A k \in 1 .. n :
               f(k) = "head" => \/ k = 1 /\ call[c].st = "waiting"
                                \/ k > 1 /\ conn[c].q.kind = "list" /\ f(k - 1) = "error"
          /\ Finished(c) => n > 0 /\ f(n) \in ends
          /\ begun /\ conn[c].q.kind # "list" => \A k \in 1 .. n : f(k) \notin {"error", "page"}

\* WStop_callback (wserver.c:2721) queues its own reply after it told the loop to
\* exit: the loop still writes it before it ends.
StopAnswered ==
  phase = "closed" =>
    \E c \in Client :
      /\ conn[c].q.kind = "stop" /\ conn[c].q.local /\ conn[c].st = "handled"
      /\ conn[c].gone \/ conn[c].wire # << >>

\* A call that returns success (wclient.c:282: "@return False if succeeds")
\* and whose connection was not closed under it has written all that it asked for
\* and that was stored, unless a read failed in the server, which does not tell.
OkIsWhole ==
  \A c \in Client :
    call[c].result = "ok" /\ ~call[c].cut /\ ~conn[c].torn
      => IsPrefix(Promised(c), call[c].got)

\* Every call returns, unless someone asked for an offset beyond the file.
CallsReturn ==
  \A c \in Client :
    call[c].st = "waiting" ~> (call[c].st = "over" \/ phase = "stuck")

\* A server that is told to stop does (wserver.c:2721).
StopEnds == exit # "none" ~> phase \in {"closed", "died"}

=============================================================================
