---------------------------- MODULE MCWFileWriter ----------------------------
(***************************************************************************)
(* Instances of WFileWriter for TLC.  Lengths are scaled down (a trailer of *)
(* 2 bytes, an EXTRA field of 2 after a static header of 1), the integer    *)
(* widths too, so that the cases at their limits are reached.               *)
(***************************************************************************)
EXTENDS WFileWriter

Rec(id, hdr, data, gz, valid) ==
  [id |-> id, hdr |-> hdr, data |-> data, gz |-> gz, valid |-> valid]

\* A record, an empty one, and one that WRecord_check rejects.
SmallRecords ==
  {Rec("a", 2, 2, 3, TRUE), Rec("e", 1, 0, 2, TRUE), Rec("bad", 1, 1, 2, FALSE)}

\* One record, for the runs in which writes fail.
FewRecords == {Rec("a", 2, 2, 3, TRUE), Rec("bad", 1, 1, 2, FALSE)}

\* A record whose data size does not fit into W32.
LargeRecords == {Rec("a", 1, 1, 2, TRUE), Rec("big", 1, 9, 6, TRUE)}

=============================================================================
