--------------------------- MODULE MCWarcValidator ---------------------------
(***************************************************************************)
(* The instances of MCWFileReader for the validator.                        *)
(***************************************************************************)
EXTENDS WarcValidator, MCWFileReader

\* Without the files that are cut in the name of a gzip header.
EndingFiles == {f \in SomeFiles : \A i \in 1 .. Len(f.recs) :
                  f.recs[i].kind = "named" => f.size >= f.recs[i].off + GzipHeader}

=============================================================================
