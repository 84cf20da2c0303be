---------------------------- MODULE MCWFileReader ----------------------------
(***************************************************************************)
(* Instances of WFileReader for TLC, with lengths scaled down: a trailer of *)
(* 2 bytes, a gzip header of 3 of which 2 are checked first, a buffer of 4. *)
(***************************************************************************)
EXTENDS WFileReader

Plain(off, hdr, data) ==
  [kind |-> "plain", off |-> off, hdr |-> hdr, data |-> data,
   len |-> hdr + data + TrailerLen, reads |-> "all", tail |-> FALSE]

Gzip(kind, off, hdr, data, len, reads) ==
  [kind |-> kind, off |-> off, hdr |-> hdr, data |-> data, len |-> len,
   reads |-> reads, tail |-> FALSE]
Tailed(m) == [m EXCEPT !.tail = TRUE]

File(recs, size) == [recs |-> recs, size |-> size]

PlainRecs == <<Plain(0, 2, 3), Plain(7, 2, 0), Plain(11, 1, 1)>>
GzipRecs  == <<Gzip("extra", 0, 2, 3, 5, "all"), Gzip("noextra", 5, 2, 2, 6, "all"),
               Gzip("extra", 11, 1, 0, 5, "all"), Gzip("named", 16, 1, 1, 5, "all")>>

\* Without an empty record.
PlainPair == <<Plain(0, 1, 2), Plain(5, 2, 2)>>
FastPair  == <<Gzip("extra", 0, 1, 1, 5, "all"), Gzip("extra", 5, 2, 9, 10, "all")>>
SlowPair  == <<Gzip("noextra", 0, 1, 1, 5, "all"), Gzip("named", 5, 2, 9, 10, "all")>>

\* The name's NUL is not counted: the reader stops at the last byte of a member,
\* and one without a name is not concerned.
TailPairs ==
  {<<Tailed(Gzip("named", 0, 1, 1, 5, "all")), Tailed(Gzip(k, 5, 1, 1, 5, "all"))>> :
     k \in {"named", "noextra"}}

EndOfLast(recs) == recs[Len(recs)].off + recs[Len(recs)].len

IntactFiles ==
  {File(recs, EndOfLast(recs)) :
     recs \in {PlainRecs, GzipRecs, PlainPair, FastPair, SlowPair} \cup TailPairs}

\* The file cut to n bytes, with what then inflates of its last member.
Cut(recs, n, reads) ==
  LET kept == SelectSeq(recs, LAMBDA m : m.off < n)
      last == Len(kept)
  IN  File([kept EXCEPT ![last].reads = IF EndOfLast(kept) <= n THEN "all" ELSE reads], n)

TornFiles ==
  {Cut(PlainPair, n, "all") : n \in 1 .. 10}
    \cup {Cut(p, n, "none") : p \in {FastPair, SlowPair}, n \in 1 .. 13}
    \cup {Cut(p, n, "head") : p \in {FastPair, SlowPair}, n \in 12 .. 13}
    \cup {Cut(p, 14, "all") : p \in {FastPair, SlowPair}}

\* Members that were written short, with others after them.
ShortFiles ==
  {File(<<Gzip(a, 0, 2, 9, 10, "head"), Gzip(b, 10, 1, 1, 5, "all")>>, 15) :
     a, b \in {"extra", "noextra"}}
    \cup {File(<<Gzip(a, 0, 1, 1, 4, "none"), Gzip("noextra", 4, 1, 1, 4, "all")>>, 8) :
            a \in {"extra", "noextra"}}

\* Files to which records were appended in another mode.
MixedFiles ==
  {File(<<Plain(0, 1, 2), Gzip("extra", 5, 1, 1, 5, "all"), Plain(10, 2, 2)>>, 16),
   File(<<Gzip("extra", 0, 1, 1, 5, "all"), Plain(5, 2, 2),
         Gzip("noextra", 11, 1, 1, 5, "all")>>, 16),
   File(<<Gzip("named", 0, 1, 1, 5, "all"), Plain(5, 1, 1), Gzip("extra", 9, 1, 1, 5, "all")>>, 14)}

SomeFiles == IntactFiles \cup TornFiles \cup ShortFiles \cup MixedFiles

=============================================================================
