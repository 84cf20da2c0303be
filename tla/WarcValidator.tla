---------------------------- MODULE WarcValidator ----------------------------
(***************************************************************************)
(* The main loop of app/warcvalidator.c over a WFile open for reading: while *)
(* there are more records, take one, register it, have its content given to  *)
(* an empty callback, destroy it.  The result of the registration is not     *)
(* looked at.                                                               *)
(***************************************************************************)
EXTENDS WFileReader

VARIABLES
  step,     \* the call the loop makes next
  verdict   \* what the program will print

allVars == <<vars, step, verdict>>

VInit == Init /\ step = "more" /\ verdict = "valid"

\* The call made at step "at" goes on to step "to", if it returns at all.
Call(at, to, v) ==
  /\ step = at
  /\ IF alive' THEN step' = to /\ verdict' = v ELSE UNCHANGED <<step, verdict>>

AskMore ==
  /\ HasMore
  /\ Call("more", IF ret' = "yes" THEN "next" ELSE "done", verdict)

\* FAULT: a file that does not give its next record is not called invalid.
FetchQuietly ==
  /\ \E h \in Handle : NextRecord(h)
  /\ Call("next", IF ret' = "record" THEN "register" ELSE "done", verdict)

\* FAULT: the loop goes on when there is no record.
FetchAgain ==
  /\ \E h \in Handle : NextRecord(h)
  /\ IF ret' = "record" THEN Call("next", "register", verdict)
                        ELSE Call("next", "more", "invalid")

Fetch ==
  /\ \E h \in Handle : NextRecord(h)
  /\ IF ret' = "record" THEN Call("next", "register", verdict)
                        ELSE Call("next", "done", "invalid")

RegisterIt == (\E h \in Handle : Register(h)) /\ Call("register", "content", verdict)
ReadIt     == (\E h \in Handle : Content(h)) /\ Call("content", "release", verdict)
DestroyIt  == (\E h \in Handle : Release(h)) /\ Call("release", "more", verdict)

VNext == AskMore \/ Fetch \/ RegisterIt \/ ReadIt \/ DestroyIt

\* The program is one thread: it goes on until it ends.
VSpec == VInit /\ [][VNext]_allVars /\ WF_allVars(VNext)

-----------------------------------------------------------------------------
(* Properties. *)

Judged(v) == step = "done" /\ alive /\ verdict = v

\* manwarc.sgml:142: "checks if a WARC file is valid or not": a file called
\* valid is one that was not damaged.
ValidatorSound == Judged("valid") => Intact

\* A record whose data block is empty, in a form the reader returns no record
\* for (WRecord_setContentSize refuses 0, wrecord.c:2169).
Empty(r) == r.data = 0 /\ r.kind \notin Slow

\* An undamaged file without such a record, and without a named member that ends
\* in 0x1f, is called valid (warcvalidator.c:127-140): registering and reading each
\* record leaves FH where the next one is found.
ValidatorComplete ==
  Judged("invalid") => ~Sound \/ \E i \in 1 .. Len(Recs) : Empty(Recs[i])

\* An uncompressed file that is called valid lacks nothing of any data block,
\* although no check in the reader compares a length with the size of the file
\* (wfile.c:817-830): at most the last trailer is missing.
ValidatorNotices ==
  LET last == Recs[Len(Recs)]
  IN  Judged("valid") /\ ~Compressed => last.off + last.hdr + last.data <= Size

\* manwarc.sgml:142 again: the program gives its verdict, or an assertion ends
\* it.
ValidatorEnds == <>(step = "done" \/ ret = "aborted")

=============================================================================
