---------------------------- MODULE RecordStream ----------------------------
(***************************************************************************)
(* What a WARC file open for reading promises the application: a cursor     *)
(* over its records in file order, which only asking for a record, seeking  *)
(* and the end of the file move.  Of a damaged file nothing is promised.    *)
(* WFileReader implements it.                                               *)
(***************************************************************************)
EXTENDS Integers

CONSTANT Handle

VARIABLES
  sound,    \* the file is as it was written, and can be read as that
  total,    \* number of records in it
  mute,     \* those that can only be passed over
  cursor,   \* the record to be read next, total + 1 at the end
  held,     \* the record behind each handle, 0 if none
  said      \* what the last call returned

rvars == <<sound, total, mute, cursor, held, said>>

File == <<sound, total, mute>>

Init ==
  /\ sound \in BOOLEAN /\ total \in Nat /\ mute \subseteq 1 .. total
  /\ cursor = 1
  /\ held = [h \in Handle |-> 0]
  /\ said = "none"

Answer(s) == said' = s /\ UNCHANGED File

Read(h) ==
  /\ Answer("record")
  /\ held[h] = 0 /\ cursor \in (1 .. total) \ mute
  /\ cursor' = cursor + 1
  /\ held' = [held EXCEPT ![h] = cursor]

\* No record: because there is none left, because it is mute, or for want of
\* a temporary file.
Nothing ==
  /\ Answer("nil") /\ UNCHANGED held
  /\ \/ cursor' = cursor
     \/ cursor \in mute /\ cursor' = cursor + 1

More == Answer("yes") /\ cursor <= total /\ UNCHANGED <<cursor, held>>

\* Asked at the end of the file, it says so and starts over.
Over == Answer("no") /\ cursor = total + 1 /\ cursor' = 1 /\ UNCHANGED held

Seek(i) == Answer("sought") /\ cursor' = i /\ UNCHANGED held

\* Registering, giving content: the cursor stays.
Use(h) ==
  /\ \E s \in {"ok", "content"} : Answer(s)
  /\ held[h] # 0 /\ UNCHANGED <<cursor, held>>

\* A failed registration may leave the cursor at the record.
Fail(h) ==
  /\ Answer("error")
  /\ cursor' \in {cursor, held[h]} /\ UNCHANGED held

Release(h) ==
  /\ Answer("released")
  /\ held' = [held EXCEPT ![h] = 0] /\ UNCHANGED cursor

\* The process ends.
Abort == Answer("aborted") /\ UNCHANGED <<cursor, held>>

Promise ==
  \/ \E h \in Handle : Read(h) \/ Use(h) \/ Fail(h) \/ Release(h)
  \/ \E i \in 1 .. total : Seek(i)
  \/ More \/ Over \/ Nothing \/ Abort

Next == sound => Promise

Spec == Init /\ [][Next]_rvars

=============================================================================
