--------------------------- MODULE BoundedArchive ---------------------------
(***************************************************************************)
(* What a WARC file open for writing promises the application that stores   *)
(* records in it: an append-only log within a size limit.  A store is one   *)
(* step: it appends the whole record and says "ok", or it changes nothing   *)
(* and says "error".  WFileWriter implements it.                            *)
(***************************************************************************)
EXTENDS Integers, Sequences

CONSTANT Record

VARIABLES
  log,     \* the entries [rec, whole], in the order of their stores
  used,    \* bytes they occupy
  cap,     \* the limit, 0 when no one has the file open
  result   \* of the last call; "none" while one is under way

avars == <<log, used, cap, result>>

Init == log = << >> /\ used = 0 /\ cap = 0 /\ result = "none"

Open(c) ==
  /\ cap = 0 /\ used < c
  /\ cap' = c /\ result' = "ok" /\ UNCHANGED <<log, used>>

Close ==
  /\ cap # 0
  /\ cap' = 0 /\ result' = "none" /\ UNCHANGED <<log, used>>

Raise(c) ==
  /\ cap # 0 /\ cap < c
  /\ cap' = c /\ result' = "ok" /\ UNCHANGED <<log, used>>

Call   == cap # 0 /\ result' = "none" /\ UNCHANGED <<log, used, cap>>
Refuse == result' = "error" /\ UNCHANGED <<log, used, cap>>

\* One call appends at most one entry, within the limit.
Accept(r) ==
  /\ cap # 0 /\ result = "none"
  /\ log' = Append(log, [rec |-> r, whole |-> TRUE])
  /\ used < used' /\ used' <= cap
  /\ result' = "ok" /\ UNCHANGED cap

\* A crash costs at most the last entry, or leaves the one being stored.
Crash ==
  /\ cap # 0
  /\ cap' = 0 /\ result' = "none"
  /\ \/ UNCHANGED <<log, used>>
     \/ /\ log # << >>
        /\ log' = [log EXCEPT ![Len(log)] = [rec |-> log[Len(log)].rec, whole |-> FALSE]]
        /\ used' <= used
     \/ /\ \E r \in Record, w \in BOOLEAN : log' = Append(log, [rec |-> r, whole |-> w])
        /\ used <= used'

Next ==
  \/ \E c \in {cap'} : Open(c) \/ Raise(c)
  \/ Close \/ Call \/ Refuse
  \/ \E r \in Record : Accept(r)
  \/ Crash

Spec == Init /\ [][Next]_avars

=============================================================================
