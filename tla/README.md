# A verification project for warc-tools

warc-tools is a C library (`src/lib/private`) and a set of programs (`src/app`)
for WARC files: archives of web resources, made of records one after the other,
each either plain text and data or one gzip member. The modules here model the
code as it is, TLC checks them on small instances, and TLAPS proves the central
results for every value of the constants. `PROJECT.json` lists the runs, the
source lines behind every definition, the findings, the hazards and the theorems.

Run them in this directory: `tlc -config Reader.cfg MCWFileReader.tla`,
`tlapm WFileWriter_proofs.tla`.

## 1. Inventory

| Component | State it keeps | Operations | Talks to |
|---|---|---|---|
| `WFile`, writing (`wfile.c`) | stream FH, COMP, MAXSIZE, FSIZE, ISFULL | constructor, setMaxSize, storeRecord (plain or gzip), destructor | WRecord (check, header strings, data), WGzip (compress), stdio |
| `WFile`, reading (`wfile.c`) | stream FH with its position and end-of-file flag, COMP, FSIZE | hasMoreRecords, nextRecord (three ways), seek, register | WHeader, WRecord, WGzip (analyzeHeader, uncompress), WTempFile |
| `WRecord` (`wrecord.c`) | header, offset, content source (a file, a temporary file, an ARC record), registered callback | set/get of fields, setContentFrom..., getContent, getBloc, check, destroy | WFile, WBloc, ARecord |
| `WGzip` (`wgzip.c`) | none between calls | compress, uncompress, analyzeHeader, check | FH of the caller, zlib, callbacks |
| `WTempFile` (`os/wmktmp.c`) | a file and its name | create, handle, destroy | WRecord, WFile, AFile |
| `WBloc` (`wbloc.c`) | EOB, LASTSIZE, a buffer, a temporary file with the payload | next, copyPayloadToTemporary | WRecord (`getBloc`, `b_callback`), WTempFile |
| `WHeader`, `WFsmANVL` (`wheader.c`, `wfsmanvl.c`) | header fields, the sum of their lengths; the automaton's state | extractFromWarcFile, run | WFile |
| `WList`, `WAnvl`, `WKV`, `WHash`, `WString` | linked lists, pairs, tables, strings | push, pop, shift, unshift, get, set, remove | everything |
| `AFile`, `ARecord`, `AFsmHDL` | stream FH; one temporary file for all records; ARC header | hasMoreRecords, nextRecord (two ways), seek, register, getContent, transferContent | WRecord, WGzip |
| `arc2warc` | a WFile for writing, an AFile | conversion loop, exit codes | AFile, ARecord, WFile |
| `warcvalidator` | a verdict | loop over a file | WFile, WRecord |
| `WServer` (`wserver.c`) | the event loop, a flag that it is shooting down | dispatch of requests: file, record, four lists, four filters, stop | WFile, libevent |
| `WClient` (`wclient.c`) | a connection, a file, a counter of bytes | getWRecord, getWFile, getFiltredWFile, getList | WServer, libevent |
| other programs, WClass, WUUID, WEndian, WRegexp, WGetOpt | little | pure functions, command lines | the above |
| `plugin/`, bindings | third-party code (zlib, libevent, regex, ...) | not the program's own logic | |

What is hard in it:

* **One shared position.** All that reads a WARC file shares FH. The application
  iterates, holds records, registers them and asks for their content in any
  order; each of these moves FH and should bring it back. What makes it correct:
  between calls FH is at a record or at the end of the file; each record is
  returned once, in order; a record's content is its data block, whatever was
  done in between.
* **Stores in several steps.** A record is appended by many writes, each of which
  may be short, and a gzip member is patched in place and, when it turns out not
  to fit, cut off again. What makes it correct: a store is all or nothing; it
  never touches an earlier record; the maximum size holds; FSIZE is right.
* **Crashes.** Nothing is flushed on purpose. What makes it correct: a crash costs
  at most the last record.
* **Damaged files.** A reader must end on a cut or badly compressed file, and the
  validator must say what it is.
* **Integer widths.** Sizes go through 32- and 64-bit, signed and unsigned, types.
* **Chunks.** The HTTP header is searched, and data blocks are given, chunk by
  chunk (`WRecord`, `WBloc`): boundaries must not matter.
* **Counters next to structures.** `WList` keeps its length apart from its nodes.
* **Replies under way.** A server replies in chunks, announces success first, and
  can be told to stop meanwhile. What makes it correct: what was stored when the
  request came is sent, each byte once; every reply ends; a client that reports
  success has it all.
* **Two processes on one file.** A server reads files that a writer appends to, and
  cuts.
* **A length that is computed twice.** Where a record ends is summed from the header
  fields by one component and relied on by another.

The library has no threads; the "actors" are the application, which may call
anything at any time, the operating system, which may fail or cut the program
short, the contents of the files, and, for the server, the clients and another
process that writes.

## 2. Plan

Modules, in order of importance:

| # | Modules | Status |
|---|---|---|
| 1 | `BoundedArchive` (abstract), `WFileWriter`, `MCWFileWriter`, `WFileWriter_proofs` | done |
| 2 | `RecordStream` (abstract), `WFileReader`, `MCWFileReader`, `WFileReader_proofs` | done |
| 3 | `WarcValidator`, `MCWarcValidator` (composes the reader); its theorems are at the end of `WFileReader_proofs` | done |
| 4 | `WServer`, `WClient` (composes the server, a process that writes its file, and clients), `MCWClient`, `WClient_proofs`, `WClientReplies_proofs` | done |
| 5 | `AFile`; `Arc2Warc`, which composes it with `BoundedArchive`; `MCArc2Warc`; `AFile_proofs`, `Arc2Warc_proofs` | done |
| 6 | `WHeader` (with `WFsmANVL`), `WBloc` (with `WRecord_getBloc`, `b_callback`), which extends it; `MCRecord`; `WBloc_proofs` for both | done |
| 7 | the life of a `WRecord`'s content, from its setters to the destructor | open |
| 8 | the buffer loops of `WGzip`, `Z_BUF_ERROR` included | open |

`WList` against a sequence was in an earlier plan. It was dropped: what its flaws are
can be said in a line (section 10), no program meets them, and a model would be as
long as the code.

`SequenceFacts` has what several of the proof modules need: a set of numbers with 0 and,
with each number, the next one, has all numbers (`Induction`); prefixes of sequences; and what
`FlattenSeq`, the concatenation of any number of sequences, and its beginnings (`Part`)
are. An induction is made with a set that is written out (`T == {n \in Nat : ...}`),
since the provers cannot instantiate an operator.

Every safety property and every refinement that a run shows to hold is also a
theorem. What is left of proofs is the other half of the modules that are open.

## 3. The writer

### `WFileWriter` and the code

A file is the sequence `members`: what each store left in it, with its offset,
its length, whether it is complete (`whole`) and whether the call said so
(`acked`). Bytes are counted, never listed. `flen` is the length of the file as
FH sees it, `synced` how much of that stdio has given to the system, and `ferr`
the error indicator of FH. `comp`, `maxsize`, `fsize` and `isfull` are the
object's fields. A store is a sequence of steps (`pc`), because a write can fail
and the process can die between two of them; `wip` is the record under way.

| Actions | Code |
|---|---|
| `Construct`, `ConstructRefused`, `Destroy`, `SetMaxSize` | `WFile_constructor` (writer part), `WFile_destructor`, `WFile_setMaxSize` |
| `StoreRefused`, `StorePlain`, `StoreGzip` | `WFile_storeRecord` up to the storage routine, with the room test of the plain one |
| `WriteHeader`, `WriteData`, `WriteTrailer` | `WFile_storeRecordUncompressed`, `WFile_flushTemporary`, `WFile_writeDataBloc` |
| `WritePlaceholder`, `DeflateInitFails`, `Deflate`, `Patch` | `WGzip_compress` |
| `GzipTooBig`, `GzipStored` | the end of `WFile_storeRecordGzipCompressed` |
| `Crash` | the process dies |

Abstractions:

* A record is its sizes: header, data, and compressed size, and whether
  `WRecord_check` accepts it. A record that has no content at all, for which the
  code asserts, is not stored.
* `synced` moves where the code seeks, truncates or closes. What `fflush` inside
  the deflate loop gives to the system is not counted, so `Crash` may lose more
  than the code can. A crash cuts the file anywhere between `synced` and `flen`.
* An I/O error that shows only when stdio flushes makes an assertion fail: this is
  `Crash`. Lost writes to the temporary file of the header, which nothing checks,
  make the record unsound from the beginning.
* When the placeholder of a compressed record could not be written, the code calls
  `deflateEnd` on a stream never initialised: either it goes on (`Patch`) or it
  ends the process (`Crash`).
* There is no liveness property here: a call is a loop-free sequence of steps, and
  nothing obliges an application to make one.

`BoundedArchive` is what an application relies on: an append-only log below a
limit, each store all or nothing. The refinement mapping (`Archive`) lets a store
under way not have happened yet.

### Runs

| Run | Question |
|---|---|
| `writer_crash` | Without failing writes, but with crashes, failed allocations and every call, in all three modes: does the writer implement the log (`ArchiveSpec`), do acknowledged compressed records survive a crash (`GzipRecordsSurvive`), is a record refused only when it does not fit (`RefusedOnlyWhenFull`)? Yes. |
| `writer_faults` | With short writes and errors too: does the layout hold, is FSIZE right, does the limit hold, are earlier records untouched? Yes. |
| `writer_short_write` | Is what the call acknowledged complete ("False if succeeds")? **No**: all write results of the plain routine are dropped, and `WGzip_compress` turns its errors into success. |
| `writer_large` | Does the limit hold for a record of 2^32 bytes? **No**: its size is cast to 32 bits before the room test. |

Bounds: lengths are scaled down (trailer 2 for 4, EXTRA field 2 for 12, static
gzip header 1 for 10, widths 2^3 and 2^6 for 2^32 and 2^64), since the code only
adds and compares them. Three stores (`MaxMembers`) give a first, a middle and a
last record, and a further store after a torn one; the limits 7, 9 and 14 let a
record fit exactly, by one byte, or not, and the limit be raised. Deadlock is
checked: the application can always do something, since it can always open or
close the file.

### What is proved (`WFileWriter_proofs`)

For all constants that satisfy the assumptions of the module: any records, limits,
modes, lengths, any number of stores, any faults.

| Theorem | Statement |
|---|---|
| `LayoutInvariant` | `Spec => []LayoutInv`, the inductive invariant |
| `TypeCorrect`, `LayoutCorrect`, `SizeKnownCorrect` | `TypeOK`, `Layout` and `SizeKnown` always hold |
| `EarlierRecordsSafe` | no step changes a member other than the last |
| `GzipRecordsSafe` | while the file is open for compressed records, no step changes any member |
| `DurableCorrect` | `Durable` always holds |
| `SizeLimitCorrect` | `SizeLimit` always holds if `NoWrap`: data sizes below 2^32, sums below 2^64 |
| `RefusedOnlyWhenFullCorrect` | `Spec => RefusedOnlyWhenFull` if `GzipHeaders`: what a record is deflated to is no shorter than gzip's static header |
| `ArchiveCorrect` | `Spec => ArchiveSpec` if `NoWrap` and writes do not fail: the writer implements `BoundedArchive` |

`Layout` alone is not inductive. To know that a truncation at the start of the
store (`CutAt`), a patch (`Overwritten`) or a crash leaves earlier members alone,
one needs that any two members are in order (`Ordered`; lemmas give it from the
neighbours), that the store under way began where the last member ends, that a
patch starts there, and that what is not yet flushed (`synced .. flen`) begins in
the last member (`Durable`): each store begins with a seek, which flushes all
members before it. `SizeKnown` is needed for the same reason: a store that fails
goes back to `wip.off`, which must be FSIZE. The limit has its own invariant,
`Reserved`: after the room test, what is still to be written fits. Each proof has
one step per action. `TypeOK` is one of the conjuncts, not a separate induction.

That a good record is refused only if it does not fit needs no `NoWrap`: a wrap-around
makes the sums of the room test smaller, never larger (`PlainRefused`); a compressed
record has never written more than `Sized` says when its size is tested.

The refinement needs three more facts, together `StoreSound`: without failing writes
the store under way is sound, so that what is acknowledged is whole; its call has not been
answered; and a patched member has some length, so that a store makes the file longer.
Every action is one of the archive (`Construct` is `Open`, the start of a store is `Call`,
its successful end `Accept`, see `StoreAccepted`) or leaves the members alone
(`SameLog`). A crash between calls damages the last entry or none, one in a store
adds the entry for what it had written (`CrashLeaves`). With failing writes the
refinement is false: this is what `writer_short_write` shows.

The assumption `NoWrap` is what `writer_large` violates: with it the theorem, without
it the counterexample.

## 4. The reader

### `WFileReader` and the code

`file` is what is on disk: the records `recs`, with kind, offset, sizes and how much
of a compressed member inflates (`reads`), and the `size`, which a cut makes smaller
than the records say. `pos` and `eof` are FH's; `rec[h]` is the record behind the
application's handle `h`, with the temporary file that holds its content: which
bytes of the record it holds (`base`, `len`) and where it is positioned (`at`).
`heard` is the part of a record that the last call gave to the callback.

| Actions | Code |
|---|---|
| `HasMore`, `Seek` | `WFile_hasMoreRecords`, `WFile_seek` |
| `NextAtEof`, `NextPlain`, `NextGarbage` | `WFile_nextRecord`, `WFile_nextRecordUncompressed` |
| `NextFast` | `WFile_nextRecordGzipCompressedFast`: sizes in the EXTRA field |
| `NextSlow`, `NextHangs`, `NextNoMember`, `NextNoTemp` | `WFile_nextRecordGzipCompressed` |
| `RegisterPlain`, `RegisterSlow`, `RegisterFast`, and the two `...NoTemp` | `WFile_register` |
| `GetContent`, `GetContentNoTemp`, `Release` | `WRecord_getContent`, the destructor of `WRecord` |

Four kinds of record are distinguished because the code treats them differently:
`plain`; `extra` (gzip with both sizes, as this library writes it); `noextra`
(without them); `named` (without them, with the file name that `gzip` adds).

Abstractions:

* The header parser is taken to find the length of the header; data that looks like
  a header at an offset where no record starts is left out. What the parser reads
  where no record starts is any number of bytes (`NextGarbage`).
* Of the loop that inflates, what matters here is where FH stops when a member does
  not inflate: at the end of some buffer that begins in the member (`StopsIn`).
  A member of which only the first buffer inflates still gives its header.
* An empty record gives no `WRecord` in the plain and fast ways (`setContentSize`
  refuses 0) but in the slow one; FH has moved on.
* A member of the slow way has no size in its header: the code counts what it read, but
  not the NUL that ends a name (`Counted`), and then goes on to the next byte 0x1f, the
  first one of a member (`Adjusted`). Of the bytes of a member only the last one
  matters here, and whether it is 0x1f (`tail`); a plain record has no 0x1f at its beginning
  and may have one anywhere else.
* The callback takes what it is given; one that stops early gets a prefix, which
  is its own choice. The application asks for the content of registered records
  only, as the documentation requires, and does not use a destroyed one.
* A failed assertion ends the process (`alive`). A call that never returns does too.

`RecordStream` is what an application relies on: a cursor over the records. It
promises nothing for a damaged file, for one written in two modes (`Intact`), or for one
with a named member whose last byte is 0x1f (`Sound`).

### Runs

| Run | Question |
|---|---|
| `reader` | Two records held at once, calls in any order, all the files, failing temporary files: is FH at a record in an intact file, but for a name and 0x1f at the end of a member (`AtRecord`), is what is given the data block or nothing (`ContentOnce`), is it a cursor over the records (`StreamSpec`)? Yes. |
| `reader_again` | Is all of the data block given? **No**: a record of the slow way that is registered twice loses its beginning, and `WRecord_getBloc` registers on each call. |

Bounds: trailer 2 for 4, gzip header 3 for 22 of which 2 for 10 are checked, buffer
4 for 32768, widths 2^6 and 2^12. The files are: intact ones of each kind and mixed,
with an empty record in the middle, with a named member that ends in 0x1f; all cuts of two-record files of each kind, at
every byte; files with a member that inflates only in part or not at all, before
another one; files to which records were appended in another mode, which the writer
allows and the reader, which takes the mode from the first record, does not expect. Two handles are enough for one record to disturb another; two
registrations per record (`MaxRegister`) for the second to differ from the first.
Deadlock is not checked, since an aborted process stops.

### What is proved (`WFileReader_proofs`)

For all sets of files, any number of handles, of registrations and of calls.

| Theorem | Statement |
|---|---|
| `TypeCorrect` | `Spec => []TypeOK` |
| `ContentOnceCorrect` | `Spec => []ContentOnce` |
| `AtRecordCorrect` | `Spec => []AtRecord` if `SmallMembers`: members below 2^31 bytes, files below 2^63 |
| `StreamCorrect` | `Spec => StreamSpec` if `SmallMembers`: the reader implements `RecordStream` |

`ContentOnce` speaks of what a call gave; its inductive strengthening `AllKept` speaks
of what every temporary file holds and where it is positioned, from one registration to
the next. One lemma says what `nextRecord` leaves behind a handle (`NextRecordGives`),
one what `register` does (`RegisterGives`), and `RegisteredKept` puts the second on
top of what was there. `AtRecord` needs that the jump over a record ends at the next
one (`NextBoundary`) and that the search for 0x1f ends there too (`Unmarked` is needed for
this), that no record of an intact file goes beyond its end (`IntactEnd`),
and so that where no record is found FH is at the end (`FindsRecord`). Without
`SmallMembers` it does not hold (section 10). `FilesAssumption` says of records only that
each begins where the one before it ends; that it does not begin before the end of any
earlier one is an induction (`LaterBehind`).

The refinement rests on both. In an intact file FH is at a record or at the end
(`AtRecord`), so the number of the record there (`Cursor`) is well defined (`CursorAt`:
no two records begin at one place, `OneStart`); each action moves it to the same place
or to the next record (`CursorMoves`, `PassesOver`). A handle holds what it was given
(`HoldingChanges`), also after it was registered, which goes back to the record
(`RegisteredHeld`).

No fairness and no liveness: the application calls, and each call returns, but for
the one which `alive` marks.

## 5. The validator

`WarcValidator` extends the reader with the main loop of `app/warcvalidator.c`
(`step`, `verdict`): each action of it is one call to the reader and the branch the
program takes on its result. The specification has weak fairness of the next-state
relation: the program is a single thread that runs until it ends.

| Run | Question |
|---|---|
| `validator` | Does it end (`ValidatorEnds`), does it call an undamaged file invalid only when it has an empty record or a named member that ends in 0x1f (`ValidatorComplete`), does it notice data missing from an uncompressed file (`ValidatorNotices`)? Yes, on files not cut in the name of a gzip header. |
| `validator_verdict` | Is a file called valid undamaged? **No**: the check of the trailer compares a count of items with a count of bytes and never fails, and the result of the registration is not looked at. |
| `validator_hangs` | Does it end on every file? **No**: the search for the end of the name does not look for the end of the file. |

Temporary files do not fail here (`Faults` is empty): a failure aborts the program.

### What is proved (at the end of `WFileReader_proofs`)

For every set of files, on top of the reader's theorems: a step of the validator is a
step of the reader (`ReaderStep`).

| Theorem | Statement |
|---|---|
| `ValidatorTypeCorrect` | the reader's `TypeOK` always holds under the validator |
| `ValidatorCompleteCorrect` | `VSpec => []ValidatorComplete`, if lengths fit their fields (`SmallMembers`) and temporary files can be created |
| `ValidatorNoticesCorrect` | `VSpec => []ValidatorNotices`, if every listed record begins in the file (`BeginInFile`) |

The first verdict rests on `Complete`: in a sound file without empty records the
loop meets neither an end of file nor a position without a record, so `NextRecord` can
only take its successful branches (`GivesRecord`). The second rests on `Noticing`: while
nothing was found wrong, FH is at the beginning or behind a plain record, also when
that is beyond the end of the file; `hasMoreRecords` says no only exactly at the end, and
a position that is both is behind the last record, with its data within the file.

## 6. The server and its clients

### `WServer`, `WClient` and the code

The server is one event loop. A handler (a libevent callback) runs to its end
before the loop goes on; everything it sends is queued on the connection and
written in later rounds. `job` is the handler under way: what it does next
(`step`), its position in the file, what is left to send, FSIZE as it was when it
opened the file. `conn[c]` is the connection of client `c`: its request, what is
queued (`out`) and what was written and not yet read (`wire`). `round` is what this
round of the loop still has to look at, `exit` how far a stop has come. The file
is `recs`, of which the last may be under way in another process, with `size` of it
on disk; `acked` records were stored. A byte is known by its record and its place
in it, so that what a client holds can be compared with what was stored.

| Actions | Code |
|---|---|
| `HandleFile`, `HandleRecord`, `HandleList`, `HandleFilter` | `WAccess_callback` up to the first read: `WSend_fullResponse`, `WSend_record`, `WSend_distantDumpResponse`, `WSend_distantFilterResponse` |
| `HandleWrong`, `HandleLate` | a request that cannot be parsed or whose file cannot be opened; a request after a stop |
| `HandleStop` | `WStop_callback`, from this host and from another |
| `SendChunk`, `ListNext`, `FilterNext` | one turn of the loops in those functions |
| `ReadFails`, `RecordUnread` | a read of the file fails: the exits of those loops, and an error instead of a record |
| `FilterBeyond` | the running offset of a filter is beyond 2^31 bytes: an assertion ends the server |
| `Write`, `NewRound`, `Close` | libevent: writing to a socket, a round of the loop, the exit that `event_base_loopexit` asks for |
| `Begin`, `Grow`, `Stored`, `Withdraw` | the other process, as `WFileWriter` shows it to a reader: a record grows, is complete, or (compressed) is cut off |
| `Ask`, `AskRefused` | the four calls of a `WClient` |
| `ReadHead`, `ReadError`, `ReadPage`, `ReadChunk`, `ReadLast`, `ReadBody` | `WResponse_callback`, `WGetChunks_callback`, and the loop that writes a list |
| `Dropped`, `Timeout` | the connection is closed, or silent for `HTTP_READ_TIMEOUT` seconds |
| `Die` | the process of the server dies |

Abstractions:

* A handler is interleaved with the writing process only; the loop waits for it, as
  in the code.
* All replies with a code other than 200 are one frame, `Error`. Which record
  matches a filter is a bit of the record (`hit`). The four forms of a list are one.
* An offset beyond the end of the file makes the length of `WSend_fullResponse`
  wrap and its loop go on for 2^64 bytes: the server is `stuck`. The offset of a request
  is below 2^31 (`I31`), since it is parsed into a `warc_i32_t`; the file may be longer.
* `WFile_nextRecord` gives nothing for a record with an empty data block (`RecordAt`), as
  in section 4: a request for it is answered with an error, a list says an error and
  itself, and a filter that meets it is ended, although success was announced.
* When the disk fails in the middle of a reply (`torn`) the loop is left and the reply
  ended as usual, which the client cannot tell from the end. No other state of the handler
  depends on it: each has its own stream.
* That memory runs out (`evbuffer_add`, `wmalloc`) is left out.
* A chunk without bytes is, on the wire, the end of a chunked reply: `ReadLast` takes
  it for one.
* The disk of the client does not fail, and SIGPIPE is not sent.

### The run `server`

Two clients: one asks for one of eleven things (from inside a record, at the start of
one, of an empty one, at the end, beyond it; from another host), the other one, on the
host of the server, stops it. One file has two records of 3 and 2 bytes and may get one more;
the other has an empty record between two others, and an end that is no longer an offset
(`I31` is 8). Chunks are 3 bytes: a reply takes one, exactly or not, or more. Reads may
fail at any turn.
More clients would only add replies that do not touch each other: one handler runs
at a time and each has its own position.

| Property | What it says |
|---|---|
| `ReplyHoldsStored` | the bytes sent begin with all that was asked for and stored when the request was handled, up to the first empty record for a filter, in order and once; an error is sent only if that is nothing; when a read failed, it is the beginning of all that |
| `LengthHonest` | no more bytes follow than announced, and for a whole uncompressed file exactly those |
| `WellFormed` | a reply is an error, a page, or a head with what it announces and one end; the exception is a list with an unreadable record, which is sent after the error |
| `StopAnswered` | a server that stopped has written the reply to the one that stopped it, although `event_base_loopexit` was called before the reply was queued |
| `OkIsWhole` | a call that reports success has all of that, unless its connection was cut or a read failed in the server |
| `CallsReturn` | every call of a client returns, unless someone asked for an offset beyond the file |
| `StopEnds` | a server told to stop does |

Fairness: of the server's loop as a whole, and of each client's loop when there is
something to read. Both are single threads that libevent runs as long as an event
is ready. Nothing is assumed of the other process, of the applications, nor of a
timeout. Deadlock is not checked: the system may come to rest.

### What is proved (`WClient_proofs`, `WClientReplies_proofs`)

For any number of clients, questions, records and chunks.

| Theorem | Statement |
|---|---|
| `TypeCorrect` | `Spec => []TypeOK` |
| `WellFormedCorrect` | `Spec => []WellFormed` |
| `StopAnsweredCorrect` | `Spec => []StopAnswered` |
| `ReplyingHolds` | `Spec => []Replying`, the inductive invariant of replies |
| `ReplyHoldsStoredCorrect` | `Spec => []ReplyHoldsStored` |
| `LengthHonestCorrect` | `Spec => []LengthHonest` |
| `OkIsWholeCorrect` | `Spec => []OkIsWhole` |

`TypeOK` is not inductive. `Types` adds what it needs: the records are a chain
(`Chained`), so that every byte below `size` belongs to one (`InSomeRecord`) and a
list that is being built has at most one record for each that was ever begun
(`JobTyped`), also when the writing process withdraws a record that is in it already
and begins another one in its place.

`WellFormed` speaks of what is on the wire and queued together (`Frames`), which a
`Write` only moves (`FormedWrite`). `Form` is its strengthening: it also says
that a busy handler has sent no end, that a list is sent only at the end of its handler,
that an error before the end is the first frame and not yet read, and that a stop
is answered by nothing with a head. It is preserved by the client's end of the sequence
(`FormTail`) and by the server's (`FormMore`, `FormLastChunk`, `FormEnded`). `Formed` adds
what a reply needs to begin from nothing: a request that is not yet handled has no
frames, and a client that left has ended its call.

`StopAnswered` rests on `Stopping`: as soon as `exit` is set some client from this host
is `Answering`, that is, its answer is with it or, in the last round, still to be
looked at. The step that needs `Form` is a read: what is on the wire of a stop
is never a head or a chunk, so reading it ends the call.

The last three speak of a reply that is complete, or a call that has ended. `Replying`
says what holds before:

* `Announced`: the bytes a client has, those queued or on their way (`Stream`) and those
  the handler has still to send (`ToCome`) are together no more than the announced length,
  and exactly that for a whole uncompressed file, of which what was there stays there.
* `Sent`: whatever ends a reply stands behind all of what was promised (`Marks`), unless
  a read failed, and then behind the beginning of it; and as
  long as none does, what the handler will read from its position is what was
  promised and not sent (`Owes`: a case for each kind of request). This is not a matter of lengths:
  of a compressed file the last record may be withdrawn and another one begun in its place
  while the handler is between two turns, so each case says where the handler is among
  the records, and that those that were stored when the request came (`due`) do not change
  (`Lasting`, `Between`).
* `Succeeded`: a call that has returned success, and was not cut, has what was promised.

A step about another client changes nothing of it (`StartedKept`, `AnnouncedKept` and the
like); of the steps about the client itself a write moves a frame from one sequence to the
other, a read moves bytes to what it has got, and a turn of a loop appends a chunk, which is
where `FlattenSeq` grows by one (`FlattenMore`).

## 7. From ARC to WARC

### `AFile`, `Arc2Warc` and the code

`AFile` has the state of the code: `fh`, one temporary file `temp` with its position
for all the records, and the `ARecord`s the application holds (`arec`). `filler`
and `given` are history: which record the temporary file was filled with, and what
was given to one record while no other was touched. `Arc2Warc` adds the main loop of
`app/arc2warc.c` (`pc`, `exit`), with `wrec` for the content of the WARC record that is
being made. The WARC file is an instance of `BoundedArchive`, the abstract
specification that `writer_crash` shows the writer to implement. In place of
the program there may be another application, which holds two records and calls
anything in any order (`Other`).

| Actions | Code |
|---|---|
| `HasMore`, `Seek` | `AFile_hasMoreRecords`, `AFile_seek` |
| `NextPlain`, `NextGarbage` | `AFile_nextRecord`, uncompressed |
| `NextGzip`, `NextNotInflated`, `NextNotWritten`, `NextAborts` | the same, compressed |
| `Register`, `RegisterAborts`, `GetContent`, `Release` | `AFile_register`, `ARecord_getContent`, the destructor |
| `Transfer`, `TransferAborts` | `ARecord_transferContent` with `temp_writer` |
| `OpenWarc`, `Loop`, `NextOfArc`, `SetFields`, `TransferOfArc`, `Store`, `FreeIn`, `FreeOut` | `main` |
| `Die` | `arc2warc` is killed |

Abstractions: a header is good, unparsable (`bad`), or good with a field that a setter
of `WRecord` refuses (`odd`); the setters' exit codes 7 to 12 are 7, and the codes 4
and 6, for memory, do not occur. The WARC file is new. `NextGarbage` stops anywhere,
jumps by almost 2^32 (a negated unsigned number) or aborts, as the parser may.
`AFile_getContentSize` is left out. A member is taken to be counted exactly: that
the NUL of a name is not, and the search for 0x1f after it (section 4), are left out here.

A full disk shows in two ways. Stdio notices only when it flushes, by a seek or by
`WTempFile_reset`: an assertion fails (`FlushFails`). Or `fwrite` itself comes back
short. Then `arecover` stops the inflating, `WGzip_decode` takes this for success
(`wgzip.c:636`), and `AFile_nextRecord` moves FH to a place within the member
(`NextNotWritten`) and goes on to parse what the temporary file has. It gives no record,
because the error indicator of that file is set: neither a seek nor `WTempFile_reset`
(`fflush`, `ftruncate`, `fseek`; no `rewind`, no `clearerr`) clears it, and
`AFsmHDL_run` tests it at each byte (`afsmhdl.c:812`), so it stops at the first one. The
indicator, `temp.failed`, stays set for the life of the `AFile`: from then on each
registration of an uncompressed record fails after its reset, `getContent` fails before
its callback is called, and no compressed record is given any more.

### The run `conversion`

Regular ARC files of three records, and two-record files with an empty record, a bad
header, a header with an odd field, data that are cut, too many or too few
line feeds, more data than declared, a member that does not inflate; uncompressed and
compressed; disks with room and disks that fill up at any byte; a WARC limit that is
reached. Data are up to 3 bytes and blocks 2, so that there is a last block that is not
full. Six calls of another application are enough for two records to be read,
registered and given in every order.

| Property | What it says |
|---|---|
| `OwnContent` | a registered record gives its own data, each byte once; of a compressed ARC only the one read last, because the temporary file is shared |
| `ConvertedExactly` | whatever fails, the WARC file holds the first records of the ARC file, none left out, each with exactly its data |
| `ZeroIsAll` | exit code 0 means that all were converted |
| `RegularIsConverted` | a regular ARC is converted when there is room |
| `StreamSpec` | to any application, when there is room, an `AFile` implements `RecordStream`, the specification that a `WFile` implements too |
| `Ends` | `arc2warc` ends on every file |

`ConvertedExactly` is not obvious: `transferContent` drops the results of
`getContent` and of the writes of `temp_writer`, and only the later comparison of
sizes in `WFile_storeRecord` stops a record that is incomplete. Fairness: weak, of the
program, which is a single thread; of another application, none.

### What is proved (`AFile_proofs`, `Arc2Warc_proofs`)

For all ARC files that `ArcAssumption` admits, with any number of records of any size, all
sizes of blocks, limits, numbers of held records and of calls.

| Theorem | Statement |
|---|---|
| `CInvCorrect` | `Spec => []CInv`, the inductive invariant |
| `TypeCorrect`, `ZeroIsAllCorrect` | `TypeOK` and `ZeroIsAll` always hold |
| `OwnContentCorrect`, `ConvertedExactlyCorrect`, `RegularIsConvertedCorrect` | `OwnContent`, `ConvertedExactly` and `RegularIsConverted` always hold if `SmallRecords`: the declared lengths are below 2^32 |
| `StreamCorrect` | `Spec => StreamSpec`: an `AFile` implements `RecordStream`, under `arc2warc` and under any other application |

`SmallRecords` is needed, because DATA_LENGTH keeps 32 bits of a declared length
(`Declared`): of a longer record only the beginning would be converted, and
FH would be inside the record afterwards. `ArcAssumption` excludes the
files where such a jump leads exactly to the start of another record.

The invariant has two layers. `FInv`, of the file alone, says whose bytes the shared
temporary file holds: of a compressed ARC all of the record `filler` (`Filled`), of an
uncompressed one the data of the record being given, and that what was given is what
precedes the position (`Giving`), and that only a full disk sets its error indicator, with
which nothing of it is relied on (`FailedFull`); `OwnContent` follows because what was given, followed
by what is left, is all of it (`GivenAndRest`). `Progress`, of the converter, says where
FH is: `Follows(n)`, where the record after the first n begins, or the file ends after
them, or no record begins. With it the record that `AFile_nextRecord` gives is the one after
those stored (`NextFollows`), and the end of the file is met only after the last.
`Content` and `OnTrack` are added to it for the last two theorems. That a transfer is
exact although its errors are dropped is `TransferredData`: if `temp_writer` holds as many
bytes as were declared, they are the data of the record.

The refinement needs, as that of the `WFile` reader, that FH is at a record or at the end of a
regular file between calls, so that the cursor is well defined: no two records begin
at one place, by an induction on the records (`InOrder`).

## 8. From a header to a payload

### `WHeader`, `WBloc` and the code

`WHeader` writes the header of a record (`StoreRecord`) and reads it back, one byte of
the file at a time, with the automaton of `wfsmanvl.c` (`state`, `key`, `value`,
`comment`), summing `datalen` from the fields it delivers. `WBloc` goes on from
there: the record is given (`NextRecord`), its data block registered and passed in
buffers of `unit` bytes to `b_callback`, which looks for an HTTP header and drops it
(`act`, `line`, `wasCr`, `fsm`), and the rest is kept in a temporary file from which
`WBloc_next` and `WBloc_copyPayloadToTemporary` deliver (`tpos`, `eob`, `given`,
`copied`).

| Actions | Code |
|---|---|
| `Version`, `Truncated`, `Parse` (by state: `KeyFirst` ... `EndLf`) | `WHeader_extractFromWarcFile`, `WFsmANVL_run` |
| `TakeField` | the end of a field: its value is set, its length counted |
| `NextRecord`, `GetBloc`, `GetBlocFails`, `GetBlocAborts` | `WFile_nextRecordUncompressed`, `WRecord_getBloc` |
| `SearchLine`, `SearchLineEnd`, `Ignore`, `Write`, `Made` | `b_callback`, and the end of `WRecord_getBloc` |
| `NextOver`, `NextChunk`, `CopyOver`, `CopyRest` | `WBloc_next`, `WBloc_copyPayloadToTemporary` |

Abstractions: a byte is its class; the version is one byte, and so is the status line
`HTTP/1.1 200` (`h`) in a data block, and a known field's name. The known fields are three: `K`,
whose setter takes every value, `B`, whose setter refuses every value, and `L`,
Content-Length. What `printf` writes for a number and `strtoull` reads from digits is a
constant, `Numeral`, a function from sequences of digits to numbers, of which the theorems
assume no more than that the length of each written data block has one: these may be of any
length. In the run it is all decimal numbers of one and of two digits. A stretch of the data block is held as its two
ends. Writes to the temporary file do not fail.

### The run `record`

Written records with every data block of up to four bytes of a status line, text,
CR and LF, longer ones after a status line, one of ten bytes, and headers whose values contain spaces,
colons, CR and continuations; and texts from elsewhere, made of up to three lines of every
form (empty values, continuations, comments, bad lines) and cut at several places.
Buffers of 2, 3 and 8 bytes put every boundary of a buffer everywhere in a
separator, chunks of 2 and 3 divide a payload exactly and not.

| Property | What it says |
|---|---|
| `Counted` | the summed length is that of the bytes taken, but for those of comments |
| `WrittenIsRead` | a written header is read back field by field, and the reader knows where the data block begins and the record ends |
| `PayloadExact` | the payload does not depend on how the data block comes in buffers: without the HTTP header it is what follows the first empty line after a status line. The exceptions are in the statement |
| `ChunksTile` | the chunks of every pass are the payload from its start, without gap or overlap, and all of it when the pass ends |
| `CopyCompletes` | a copy completes what the pass before it gave, also when it reports an error |
| `BlocEnds` | reading ends, and so does a pass |

Fairness: weak, of the reading (a call runs until it returns), and of an application
that takes chunks until there are no more. It may copy in between, at most `MaxCopies`
times: one that copies for ever starts over for ever.

### What is proved (`WBloc_proofs`)

For all texts, written records with data blocks of any length, buffers, chunks, and any
number of passes and copies.

| Theorem | Statement |
|---|---|
| `BlocInvariant` | `Spec => []BInv`, the inductive invariant |
| `TypeCorrect`, `CountedCorrect`, `ChunksTileCorrect`, `CopyCompletesCorrect` | `TypeOK`, `Counted`, `ChunksTile` and `CopyCompletes` always hold |
| `WrittenIsReadCorrect` | `WrittenIsRead` always holds if `ProperFields` |
| `PayloadExactCorrect` | `PayloadExact` always holds if `ProperFields` |

`ProperFields` is about the values and names that are written: each value is on one line
and does not end in CR, each name is text, and not that of a field known by name. Nothing in
the code sees to it: `WFile_storeRecord` writes what it is given. A value
that ends in CR swallows the next line, so without it `WrittenIsRead` is false. The values of
the run contain CR, LF, spaces and colons but satisfy it, which TLC evaluates
(`WrittenIsProper`). `PayloadExact` needs it only to know that the data block is what was
written; for a text from elsewhere it holds without.

`Counted` speaks of the end of a header. Its strengthening `Counting` says, for every
state of the automaton, what the position of FH is beyond `datalen`: the bytes
collected in `key` and `value` plus the separators that the state has seen and not
delivered. `TakeField` moves them from one side to the other. For the delivery,
`Writing` says that what was written ends where the reading is, and `Delivery` that
`given` is the payload up to `tpos` and that `eob` is set only at its end; that a part
of a sequence followed by the next part is the part of both is one lemma
(`PayloadJoin`).

What is read back is a third layer, `ReadBack`: the text is that of `origin`, the fields
delivered so far are the first ones written (`Heads`), FH is where the line of the next one
begins plus what the automaton has taken of it, and `key` and `value` are the beginnings of
its name and of what follows its colon (`Reads`: `InKey`, `InValue`). So each byte that
the automaton sees is known (`NextByte`: it is a byte of a line, `NextInLine`, or of the
empty line behind the last, `NextAfterAll`), and there is one lemma for each group of its states
(`KeyFirstReads`, `KeyReads`, `ValueReads`, `SpaceReads`, `EndLfReads`). That a text
written as one concatenation is read as a sequence of lines, whose number is not
bounded, is `HeaderShape` with `LinesAfter`, an induction; `AtLine` and `AtEnd` say what
byte stands where.

For the payload `Sought` says, for each state of `b_callback`, what is behind it in the data
block: while it looks for a status line (`Searching`), where the present line began,
whether it is empty or a status line, and that no earlier one is; then (`Ignoring`) what the
state of the automaton says of the last bytes (`Stage`); then (`Found`) where the payload
begins. None of them mentions the buffers: that their boundaries do not matter is what is
proved, and the only place where they do is a block without status line, whose first buffer
is written from its beginning (`FirstBuffer`).

## 9. Only model-checked, and why

* Liveness (`ValidatorEnds`, `CallsReturn`, `StopEnds`, `Ends`, `BlocEnds`): TLAPS does not
  prove liveness under fairness.
* Deadlock freedom, in the runs that check it: it is about ENABLED.

All the safety properties, action properties and refinements of the passing runs are proved.
The runs remain the evidence that the hypotheses of the theorems can be met, that the actions
happen, and that each property can be broken by a change of the code.

## 10. Disagreements that are not runs

Met while modelling, and visible in the code, or in the exceptions that a property names:

* `wgzip.c:374`: the size of a compressed member is read back sign-extended, so that
  after a member of 2^31 bytes FH is nowhere (`SmallMembers` in `AtRecordCorrect`).
* `wfile.c:1947` and `1995`: the comments say no more records could be added once
  ISFULL is set, but only `WFile_isFull` reads it, smaller records are still stored,
  and raising the maximum does not clear it.
* `doc/userguide/manwarc.sgml` near 880: the example of a writer passes the compression
  mode that detects, with which every `storeRecord` fails; near 868 and 912 the example
  of a reader passes 0 as the maximum size, which the constructor refuses.
* `os/wcsafe.c` near 331: `w_check_digital_string` joins its two comparisons by "or",
  so it accepts everything.
* `wgzip.c:619`: `Z_BUF_ERROR`, which inflate may return when output and input run out
  together, is treated as damage.
* An undamaged file with an empty record is called invalid (`ValidatorComplete` names
  the exception). A server answers a request for it with an error, and ends a filter that
  meets it with success, without the matching records behind (`wserver.c:2324`; `Reached`).
* `wserver.c:842`, `1014`, `2453`: when a read fails in a reply under way it is ended as if it
  were whole, and the client reports success (`ReplyHoldsStored` and `OkIsWhole` name
  `torn`).
* `wserver.c:2427`: the running offset of a filter is 32 bits wide and signed; behind 2^31
  bytes it is negative and an assertion of the seek ends the server (`FilterBeyond`).
* `wgzip.c:432` and `531`: the NUL of a name is not counted, and the search for the next
  0x1f makes up for it, but not when the last byte of the member, the highest one of its
  inflated size (so from 31 times 2^24 bytes on), is 0x1f (`Unmarked`).
* `wgzip.c:636`: a callback that stops the inflating is taken for success, also when
  it stops because its write failed (section 7).
* `wserver.c`, the four lists: a record that cannot be read is answered with an error,
  and then the list is sent as well (`WellFormed` names the exception).
* `wclient.c:126`: a list whose text is shorter than 1024 characters makes the call
  fail or the process end, since an unsigned counter wraps. A call whose connection is
  cut in a chunked reply reports success (`OkIsWhole` names it).
* `wheader.c:2119`: comment lines in a header are not counted, so that the record is
  taken to end earlier (`Counted` names `dropped`).
* A filter request with an offset inside a record is answered with success and nothing,
  where a request for a record at that offset is answered with an error (`Wanted` says
  `starts`).
* `b_callback` (`wrecord.c:168`): of a record that is not HTTP although a header is to
  be dropped, everything before the buffer with the first empty line is lost; of two
  CR, one at the end of a buffer, one is dropped (`PayloadExact` names both).
* `wbloc.c:138`: a copy after the end of a pass reports an error although nothing was
  missing, and LASTSIZE stays that of the copy.
* `wrecord.c:271`: a failing write in `b_callback` destroys the line that
  `WRecord_getBloc` then destroys again.
* `wlist.c:498`: `WList_remove` does not decrement the counter; `wlist.c:379`: an index
  equal to the counter is accepted. No program meets them.
* A written value that ends in CR swallows the next line when it is read back.

## 11. Not modelled

* The setters of a record's content and their destructor (`wrecord.c:1925`), the field
  masks of `WRecord_check`: planned (7 above).
* The loops over buffers inside inflate and deflate: planned (8 above); the modules
  let them stop anywhere.
* `WList`, `WAnvl`, `WKV`, `WHash`, `WString`, `WClass`, `WUUID`, `WEndian`, `WRegexp`,
  `WGetOpt`: containers and pure functions, without behaviour across calls that a
  property could be about.
* `warcfilter`, `warcdump`, `wrecordbody`, `arcopen`: command lines over the same loop as
  the validator's; `warcclient`, `warcserver`: over the calls that `WClient` and
  `WServer` model.
* The parsing of a request, file names, temporary directories; memory that runs out, but
  for the cases that `Faults` names.
* `plugin/` (zlib, libevent, regex, CUnit, and others), the bindings and the modules for
  web servers: third-party code, or the same calls again. With the tests of the
  library, and the accessors of a header's fields, they are most of the lines that
  `map` does not name.
