------------------------------- MODULE Arc2Warc -------------------------------
(***************************************************************************)
(* The converter arc2warc: it takes the records of an AFile one by one and  *)
(* stores each in a WARC file, of which only the promise (BoundedArchive)   *)
(* is used here.  Instead of it there may be any other application of AFile, *)
(* which holds several records and calls the functions in any order.        *)
(***************************************************************************)
EXTENDS AFile

CONSTANTS
  Program,     \* subset of {"arc2warc", "other"}
  Limit,       \* WARC_MAX_SIZE
  HeaderSizes, \* the lengths that the header of a WARC record may have
  MaxCalls     \* bound on the calls of another application

ConverterAssumption ==
  /\ Program \subseteq {"arc2warc", "other"}
  /\ Limit \in Nat \ {0} /\ MaxCalls \in Nat /\ HeaderSizes \subseteq Nat \ {0}
ASSUME ConverterAssumption

VARIABLES
  pc,      \* of main: "open", "loop", "next", "set", "transfer", "store",
           \* "free_in", "free_out", "end"; "free" for another application
  exit,    \* the exit code of main, -1 before
  wrec,    \* the content of the WRecord that is being made
  calls,   \* how many calls another application made
  log, used, cap, result  \* the WARC file, as in BoundedArchive

wvars == <<log, used, cap, result>>
vars  == <<fvars, pc, exit, wrec, calls, wvars>>

\* A WARC record is known by its content.
Warc == INSTANCE BoundedArchive WITH Record <- Seq(Nat \X Nat)

Idle == [size |-> 0, bytes |-> << >>]

Init ==
  /\ FInit /\ Warc!Init
  /\ pc \in {IF p = "other" THEN "free" ELSE "open" : p \in Program}
  /\ exit = -1 /\ wrec = Idle /\ calls = 0

-----------------------------------------------------------------------------
(* main. *)

\* The single record that main holds.
TheOne == CHOOSE h \in Handle : TRUE

Main(from, to) == pc = from /\ pc' = to /\ UNCHANGED <<exit, calls>>
Exit(from, code) == pc = from /\ pc' = "free_out" /\ exit' = code /\ UNCHANGED calls

\* The ARC file is open; the WARC file is opened, or is not.
OpenWarc ==
  /\ \/ Main("open", "loop") /\ Warc!Open(Limit)
     \/ Exit("open", 3) /\ UNCHANGED wvars
  /\ UNCHANGED <<fvars, wrec>>

Loop ==
  /\ pc = "loop" /\ HasMore /\ UNCHANGED <<wrec, wvars>>
  /\ \/ ret' = "yes" /\ Main("loop", "next")
     \/ ret' = "no" /\ Exit("loop", 0)

\* FAULT: without a record the loop ends as if there were none left.
NextOfArcEnds ==
  /\ pc = "next" /\ NextRecord(TheOne) /\ UNCHANGED <<wrec, wvars>>
  /\ \/ ret' = "record" /\ Main("next", "set")
     \/ ret' # "record" /\ Exit("next", 0)

\* FAULT: without a record the loop goes on.
NextOfArcGoesOn ==
  /\ pc = "next" /\ NextRecord(TheOne) /\ UNCHANGED <<wrec, wvars>>
  /\ \/ ret' = "record" /\ Main("next", "set")
     \/ ret' # "record" /\ Main("next", "loop")

\* The process ends without closing the WARC file: at most the last entry suffers.
Crashed ==
  /\ pc' = "end" /\ exit' = -1 /\ UNCHANGED calls
  /\ cap' = 0 /\ result' = "none" /\ UNCHANGED used
  /\ \/ UNCHANGED log
     \/ log # << >> /\ log' = [log EXCEPT ![Len(log)].whole = FALSE]

\* "corrupted ARC".
NextOfArc ==
  /\ pc = "next" /\ NextRecord(TheOne) /\ UNCHANGED wrec
  /\ \/ ret' = "record" /\ Main("next", "set") /\ UNCHANGED wvars
     \/ ret' = "nil" /\ Exit("next", 5) /\ UNCHANGED wvars
     \/ ret' = "aborted" /\ Crashed

\* The fields of the header: exit codes 7 to 12 in the code.
SetFields ==
  /\ pc = "set" /\ UNCHANGED <<fvars, wrec, wvars>>
  /\ \/ Recs[arec[TheOne].of].kind = "fine" /\ Main("set", "transfer")
     \/ Recs[arec[TheOne].of].kind = "odd" /\ Exit("set", 7)

-----------------------------------------------------------------------------
(* ARecord_transferContent: the record is registered with temp_writer, which *)
(* writes no more than its size, and its content given; that this fails is   *)
(* not noticed, nor that temp_writer could not write all.                    *)

Transferred(h, bytes) ==
  LET cut == SubSeq(bytes, 1, Fewer(Len(bytes), arec[h].size))
  IN  {SubSeq(cut, 1, k) : k \in (IF disk = "full" THEN 0 ELSE Len(cut)) .. Len(cut)}

\* What getContent hands on, and how much it reads for this.
Handed(t) == IF t.failed THEN << >> ELSE Rest(t)
Taken(t)  == IF t.failed THEN Fewer(Flush, Len(Rest(t))) ELSE Len(Rest(t))

Transfer(h) ==
  /\ Alive /\ arec[h].of # 0
  /\ \E r \in Registered(h) :
       IF ~r.done
         THEN /\ ret' = "error" /\ given' = Nobody /\ UNCHANGED wrec
              /\ temp' = r.temp /\ filler' = 0
              /\ arec' = [arec EXCEPT ![h].cback = TRUE]
         ELSE /\ ret' = "ok"
              /\ temp' = [r.temp EXCEPT !.at = @ + Taken(r.temp)]
              /\ given' = IF r.temp.failed THEN Nobody
                          ELSE [by |-> {h}, bytes |-> Rest(r.temp)]
              /\ \E b \in Transferred(h, Handed(r.temp)) :
                   wrec' = [size |-> arec[h].size, bytes |-> b]
              /\ filler' = IF arc.mode = "gzip" THEN filler ELSE arec[h].of
              /\ arec' = [arec EXCEPT ![h].cback = TRUE, ![h].dataf = TRUE]
  /\ Same /\ UNCHANGED fh

\* The one temporary file or the other, that of the WARC record, cannot be flushed.
TransferAborts(h) == arec[h].of # 0 /\ FlushFails /\ UNCHANGED wrec

TransferOfArc ==
  /\ pc = "transfer"
  /\ \/ /\ Transfer(TheOne)
        /\ \/ ret' = "ok" /\ Main("transfer", "store") /\ Warc!Call
           \/ ret' = "error" /\ Exit("transfer", 13) /\ UNCHANGED wvars
     \/ TransferAborts(TheOne) /\ Crashed

\* WFile_storeRecord: not of a record whose content is not of the size that was
\* set; else it stores it, or refuses it.
Store ==
  /\ pc = "store"
  /\ \/ /\ Len(wrec.bytes) = wrec.size
        /\ \E n \in HeaderSizes : used' = used + n + wrec.size
        /\ Warc!Accept(wrec.bytes) /\ Main("store", "free_in")
     \/ Warc!Refuse /\ Exit("store", 14)
  /\ UNCHANGED <<fvars, wrec>>

\* Both records are destroyed.
FreeIn ==
  /\ Main("free_in", "loop") /\ Release(TheOne)
  /\ wrec' = Idle /\ UNCHANGED wvars

\* The files are closed.
FreeOut ==
  /\ Main("free_out", "end") /\ UNCHANGED <<fvars, wrec>>
  /\ IF cap = 0 THEN UNCHANGED wvars ELSE Warc!Close

Convert ==
  \/ OpenWarc \/ Loop \/ NextOfArc \/ SetFields \/ TransferOfArc \/ Store \/ FreeIn
  \/ FreeOut

-----------------------------------------------------------------------------
\* Another application.
Other ==
  /\ pc = "free" /\ calls < MaxCalls /\ calls' = calls + 1
  /\ UNCHANGED <<pc, exit, wvars>>
  /\ \/ /\ \/ HasMore
           \/ \E i \in 1 .. Len(Recs) : Seek(i)
           \/ \E h \in Handle :
                NextRecord(h) \/ Register(h) \/ RegisterAborts(h) \/ GetContent(h) \/ Release(h)
        /\ UNCHANGED wrec
     \/ \E h \in Handle : Transfer(h) \/ TransferAborts(h)

\* arc2warc is killed between two stores.
Die == pc \notin {"open", "end", "free"} /\ Crashed /\ UNCHANGED <<fvars, wrec>>

Next == Convert \/ Other \/ Die

\* main runs on; nothing is asked of another application.
Spec == Init /\ [][Next]_vars /\ WF_vars(Convert)

-----------------------------------------------------------------------------
(* Properties. *)

\* The data of a record, as its header declares them.
Data(i) ==
  IF arc.mode = "plain" THEN FileBytes(Start(i) + Recs[i].head, Recs[i].len)
  ELSE Bytes(i, Recs[i].head, Fewer(Recs[i].len, Recs[i].data + Recs[i].sep))

\* The type invariant of the ARC reader and the converter.
TypeOK ==
  /\ arc \in Arcs /\ disk \in Disk /\ fh \in 0 .. Size + 2 * W32
  /\ temp.holds \in Seq(Nat \X Nat) /\ temp.at \in Nat /\ temp.failed \in BOOLEAN
  /\ filler \in 0 .. Len(Recs) /\ given.by \subseteq Handle
  /\ \A h \in Handle :
       \/ arec[h] = NoARecord
       \/ /\ arec[h].of \in 1 .. Len(Recs) /\ arec[h].size \in 1 .. W32 - 1
          /\ arec[h].off \in 0 .. Size + Len(Whole(arec[h].of))
  /\ pc \in {"open", "loop", "next", "set", "transfer", "store", "free_in", "free_out",
             "end", "free"}
  /\ exit \in {-1, 0, 3, 5, 7, 13, 14} /\ wrec.size \in Nat /\ used \in 0 .. Limit

\* A record that is registered gives its own data, each byte once and in order,
\* however the application splits the reading (afile.c:399, arecord.c:407); of a
\* compressed ARC only the one that was read last does (afile.c:448), and what
\* follows its data as well.
OwnContent ==
  \A h \in given.by :
    LET i == arec[h].of
    IN  arc.mode = "plain" \/ filler = i =>
          given.bytes \o Rest(temp) =
            IF arc.mode = "plain" THEN Data(i)
            ELSE SubSeq(Whole(i), Recs[i].head + 1, Len(Whole(i)))

\* Whatever fails, and wherever (arc2warc.c:219), the WARC file holds the first
\* records of the ARC file, none left out, with exactly the data of each.
ConvertedExactly ==
  pc # "free" =>
    /\ Len(log) <= Len(Recs)
    /\ \A k \in 1 .. Len(log) : log[k].rec = Data(k) /\ Len(log[k].rec) = Recs[k].len
    /\ \A k \in 1 .. Len(log) - 1 : log[k].whole
    /\ exit # -1 => \A k \in 1 .. Len(log) : log[k].whole

\* arc2warc says 0 (arc2warc.c:301) only when all records were converted.
ZeroIsAll == exit = 0 => Len(log) = Len(Recs)

Regular(i) ==
  /\ Recs[i].kind = "fine" /\ Recs[i].inflates /\ Recs[i].len = Recs[i].data
  /\ Recs[i].len % W32 # 0 /\ Recs[i].sep = 1

\* And a regular ARC is converted when there is room.
RegularIsConverted ==
  (\A i \in 1 .. Len(Recs) : Regular(i)) /\ disk = "room" => exit \in {-1, 0, 3, 14}

\* arc2warc ends, also at an offset beyond the end of the ARC, where
\* AFile_hasMoreRecords (afile.c:114) never says no.
Ends == pc = "loop" ~> pc = "end"

-----------------------------------------------------------------------------
(* Refinement: to an application an AFile is a stream of records, as a WFile *)
(* is.                                                                       *)

Sound ==
  /\ disk = "room"
  /\ \A i \in 1 .. Len(Recs) :
       /\ Recs[i].kind # "bad"
       /\ IF arc.mode = "plain"
            THEN Recs[i].len = Recs[i].data /\ Recs[i].sep = 1 /\ Recs[i].len < W32
            ELSE Recs[i].inflates

\* The records that AFile_nextRecord can only pass over.
Mute == {i \in 1 .. Len(Recs) : Declared(i) = 0}

\* The record FH is at, by number.
Cursor ==
  IF \E i \in 1 .. Len(Recs) + 1 : Start(i) = fh
    THEN CHOOSE i \in 1 .. Len(Recs) + 1 : Start(i) = fh ELSE 0

Holding == [h \in Handle |-> arec[h].of]

Stream ==
  INSTANCE RecordStream
    WITH sound <- Sound, total <- Len(Recs), mute <- Mute, cursor <- Cursor,
         held <- Holding, said <- ret

\* A regular ARC is read record by record, whatever is done with the records.
StreamSpec == Stream!Spec

=============================================================================
