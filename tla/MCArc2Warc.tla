----------------------------- MODULE MCArc2Warc -----------------------------
(***************************************************************************)
(* Instances of Arc2Warc for TLC: data of up to 3 bytes, blocks of 2.       *)
(***************************************************************************)
EXTENDS Arc2Warc, SequencesExt

CONSTANTS h1, h2

Rec(head, len, data, sep, kind, inflates) ==
  [off |-> 0, head |-> head, len |-> len, data |-> data, sep |-> sep, kind |-> kind,
   inflates |-> inflates]
Fine(head, n) == Rec(head, n, n, 1, "fine", TRUE)

\* The offsets are filled in.
Arc(mode, recs) ==
  LET before(i) == SubSeq(recs, 1, i - 1)
      sizes(rs) == FoldLeft(LAMBDA n, r : n + Length([mode |-> mode], r), 0, rs)
  IN  [mode |-> mode, size |-> sizes(recs),
       recs |-> [i \in 1 .. Len(recs) |-> [recs[i] EXCEPT !.off = sizes(before(i))]]]
Both(recs) == {Arc("plain", recs), Arc("gzip", recs)}

RegularArcs == Both(<<Fine(1, 3), Fine(2, 1), Fine(1, 2)>>)

\* An empty record; a bad header; a header that the setters refuse; data that
\* are cut, at the end or not; more than one line feed, or none; more data than
\* declared.
IrregularArcs ==
  UNION {Both(<<Fine(1, 2), r>>) :
           r \in {Fine(1, 0), Rec(1, 2, 2, 1, "bad", TRUE), Rec(1, 2, 2, 1, "odd", TRUE),
                  Rec(1, 3, 2, 0, "fine", TRUE), Rec(1, 2, 2, 0, "fine", TRUE),
                  Rec(1, 2, 2, 2, "fine", TRUE), Rec(1, 2, 3, 1, "fine", TRUE)}}
    \cup UNION {Both(<<r, Fine(1, 2)>>) :
           r \in {Fine(1, 0), Rec(1, 3, 2, 1, "fine", TRUE), Rec(1, 1, 2, 1, "fine", TRUE)}}
    \cup {Arc("gzip", <<Fine(1, 1), Rec(1, 2, 2, 1, "fine", FALSE), Fine(1, 1)>>)}

SomeArcs == RegularArcs \cup IrregularArcs

=============================================================================
