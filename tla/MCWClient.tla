------------------------------ MODULE MCWClient ------------------------------
(***************************************************************************)
(* Instances of WClient and WServer for TLC: records of 2 to 4 bytes,      *)
(* sent in chunks of 3.                                                    *)
(***************************************************************************)
EXTENDS WClient

CONSTANTS c1, c2

Rec(id, off, len, hit) ==
  [id |-> id, off |-> off, len |-> len, hit |-> hit, empty |-> FALSE]
Empty(r) == [r EXCEPT !.empty = TRUE]

\* A file to which a record may be added, and one with an empty record in the
\* middle, whose end is not an offset below I31.
Files ==
  {<<Rec(1, 0, 3, TRUE), Rec(2, 3, 2, FALSE)>>,
   <<Rec(1, 0, 2, TRUE), Empty(Rec(2, 2, 2, FALSE)), Rec(3, 4, 4, TRUE)>>}
Appended == {[len |-> 2, hit |-> TRUE, empty |-> FALSE]}

Q(kind, from, local) == [kind |-> kind, from |-> from, local |-> local]

\* One client asks for data, for an offset beyond the file, or, from another
\* host, for a stop; the other one stops the server.
Asked ==
  (c1 :> {Q("file", 1, FALSE), Q("file", 7, FALSE), Q("record", 3, FALSE),
          Q("record", 5, FALSE), Q("record", 2, FALSE), Q("list", 0, FALSE),
          Q("list", 3, FALSE), Q("filter", 0, FALSE), Q("filter", 4, FALSE),
          Q("stop", 0, FALSE), Q("wrong", 0, FALSE)})
    @@ (c2 :> {Q("stop", 0, TRUE)})

\* The text of a list: less than WriteSize, exactly that, or more.
Text(n) == 2 + n

=============================================================================
