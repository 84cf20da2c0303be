------------------------------ MODULE WHeader ------------------------------
(***************************************************************************)
(* The header of a record, as WFile_storeRecord writes it and as            *)
(* WHeader_extractFromWarcFile reads it back with the automaton WFsmANVL,   *)
(* one byte of the file at a time.                                          *)
(*                                                                          *)
(* The length of a record is not taken from the file: it is summed from the *)
(* lengths of the fields the automaton delivers, so every byte that the     *)
(* automaton takes and does not deliver moves the end of the record.        *)
(*                                                                          *)
(* A byte is its class: "id" stands for the version, "K" for the name of a  *)
(* known field, "L" for Content-Length, "B" for a known field whose setter  *)
(* refuses every value, "t" for other text, "0" to "9" for digits,          *)
(* "p" for punctuation and control characters, "h" for "HTTP/1.1 200" in a  *)
(* data block.                                                              *)
(***************************************************************************)
EXTENDS Integers, Sequences, FiniteSets, SequencesExt

CONSTANTS
  Written,  \* records given to WFile_storeRecord: [id, anvls, content]
  Foreign,  \* texts of records from elsewhere
  Numeral   \* the numbers that printf writes and strtoull reads, by their digits

Digits == {"0", "1", "2", "3", "4", "5", "6", "7", "8", "9"}
Text == {"id", "K", "L", "B", "t", "h"} \cup Digits           \* WFsmANVL_isText
Class == Text \cup {"sp", "cr", "lf", ":", "#", "p"}
Line == Seq(Class)
Field == [key: Line, value: Line]

ASSUME HeaderAssumption ==
  /\ \A w \in Written : /\ w.id \in Line \ {<< >>} /\ w.anvls \in Seq(Field)
                        /\ w.content \in Line
                        /\ \E s \in DOMAIN Numeral : Numeral[s] = Len(w.content)
  /\ Foreign \subseteq Line
  /\ \A s \in DOMAIN Numeral : s \in Seq(Digits) \ {<< >>} /\ Numeral[s] \in Nat

VARIABLES
  text,     \* the file, from the start of the record
  origin,   \* the record it was written from, if it was
  pc,       \* where the reading of the record is
  at,       \* bytes of the text taken: the position of FH
  state,    \* STATE of the automaton
  key, value, comment,          \* what it has collected
  fields,   \* the fields of the WHeader, in the order they were read
  datalen, contlen,             \* datalen; CONT_LENGTH
  dropped   \* bytes of comments so far: nothing in the code knows it

hvars == <<text, origin, pc, at, state, key, value, comment, fields, datalen,
           contlen, dropped>>

-----------------------------------------------------------------------------
(* Writing. *)

Crlf == <<"cr", "lf">>
Number(n) == CHOOSE s \in DOMAIN Numeral : Numeral[s] = n

\* Concatenation of the lines of the fields that are not known by name.
WriteAnvls(anvls) ==
  FlattenSeq([n \in 1 .. Len(anvls) |-> anvls[n].key \o <<":">> \o anvls[n].value \o Crlf])

WriteHeader(w) ==
  <<"id">> \o Crlf
    \o <<"K", ":", "sp">> \o w.id \o Crlf
    \o <<"L", ":", "sp">> \o Number(Len(w.content)) \o Crlf
    \o WriteAnvls(w.anvls)
    \o Crlf

StoreRecord(w) == WriteHeader(w) \o w.content \o Crlf \o Crlf

-----------------------------------------------------------------------------
(* The automaton. *)

c == text[at + 1]
NoOne == [id |-> << >>, anvls |-> << >>, content |-> << >>]

HInit ==
  /\ \/ \E w \in Written : origin = w /\ text = StoreRecord(w)
     \/ origin = NoOne /\ text \in Foreign
  /\ pc = "version" /\ at = 0 /\ state = "KEYFIRST"
  /\ key = << >> /\ value = << >> /\ comment = << >> /\ fields = << >>
  /\ datalen = 0 /\ contlen = 0 /\ dropped = 0

Refuse ==
  /\ pc' = "nil"
  /\ UNCHANGED <<text, origin, at, state, key, value, comment, fields, datalen,
                 contlen, dropped>>

\* The version is compared, the two bytes after it are not looked at.
Version ==
  /\ pc = "version"
  /\ LET compatible == text # << >> /\ Head(text) = "id" IN
     \/ ~ compatible /\ Refuse
     \/ /\ compatible
        /\ at' = IF Len(text) < 3 THEN Len(text) ELSE 3
        /\ datalen' = 3 /\ pc' = "header"
        /\ UNCHANGED <<text, origin, state, key, value, comment, fields, contlen, dropped>>

Takes(next) ==
  /\ at' = at + 1 /\ state' = next
  /\ UNCHANGED <<text, origin, pc, fields, datalen, contlen>>

SetKey(next) == Takes(next) /\ key' = Append(key, c) /\ UNCHANGED <<value, comment, dropped>>
SetValue(next) == Takes(next) /\ value' = Append(value, c) /\ UNCHANGED <<key, comment, dropped>>
Skip(next) == Takes(next) /\ UNCHANGED <<key, value, comment, dropped>>
SetComment(next) ==
  /\ Takes(next) /\ comment' = Append(comment, c) /\ dropped' = dropped + 1
  /\ UNCHANGED <<key, value>>

KeyFirst ==
  /\ state = "KEYFIRST"
  /\ \/ c \in Text /\ SetKey("KEY")
     \/ c = "cr" /\ Skip("ENDLF")
     \/ /\ c = "#" /\ Takes("COMMENT") /\ dropped' = dropped + 1
        /\ UNCHANGED <<key, value, comment>>
     \/ c \notin Text \cup {"cr", "#"} /\ Refuse

Key ==
  /\ state = "KEY"
  /\ \/ c \in Text \cup {"#"} /\ SetKey("KEY")
     \/ c = ":" /\ Skip("VALUE")
     \/ c \notin Text \cup {"#", ":"} /\ Refuse

Value ==
  /\ state = "VALUE"
  /\ \/ c = "cr" /\ SetValue("LF")
     \/ c # "cr" /\ SetValue("VALUE")

\* FAULT: a CR alone ends the line.
LfLoose == state = "LF" /\ SetValue("SPACE")

Lf ==
  /\ state = "LF"
  /\ \/ c = "lf" /\ SetValue("SPACE")
     \/ c # "lf" /\ SetValue("VALUE")

\* WHeader_jumpFirstSpaces, for the fields known by name.
JumpFirstSpaces(v) ==
  SubSeq(v, 1 + Cardinality({i \in DOMAIN v : \A j \in 1 .. i : v[j] = "sp"}), Len(v))

\* w_atou: white space is skipped, a text that is no number is 0.
ReadAt(v, s, i) ==
  /\ \A j \in 1 .. i : v[j] \in {"sp", "cr", "lf"}
  /\ i + Len(s) <= Len(v) /\ SubSeq(v, i + 1, i + Len(s)) = s
  /\ i + Len(s) < Len(v) => v[i + Len(s) + 1] \notin Digits

Atou(v) ==
  LET begun == {s \in DOMAIN Numeral : \E i \in 0 .. Len(v) : ReadAt(v, s, i)}
  IN  IF begun = {} THEN 0 ELSE Numeral[CHOOSE s \in begun : TRUE]

Delivered == SubSeq(value, 1, Len(value) - 2)      \* WFsmANVL_transform

\* FAULT: the space before a value is not counted.
TakeFieldStripped ==
  /\ key # <<"B">>
  /\ LET v == IF key \in {<<"K">>, <<"L">>} THEN JumpFirstSpaces(Delivered) ELSE Delivered
     IN  /\ fields' = Append(fields, [key |-> key, value |-> v])
         /\ datalen' = datalen + Len(key) + Len(v) + 3
  /\ contlen' = IF key = <<"L">> THEN Atou(Delivered) ELSE contlen
  /\ key' = << >> /\ value' = << >> /\ comment' = << >> /\ state' = "KEYFIRST"
  /\ UNCHANGED <<text, origin, pc, at, dropped>>

\* The next line does not continue the value: its first byte is pushed back, the
\* field is taken and a new automaton begins.
TakeField ==
  /\ key # <<"B">>
  /\ fields' = Append(fields,
       [key   |-> key,
        value |-> IF key \in {<<"K">>, <<"L">>} THEN JumpFirstSpaces(Delivered) ELSE Delivered])
  /\ datalen' = datalen + Len(key) + Len(Delivered) + 3
  /\ contlen' = IF key = <<"L">> THEN Atou(Delivered) ELSE contlen
  /\ key' = << >> /\ value' = << >> /\ comment' = << >> /\ state' = "KEYFIRST"
  /\ UNCHANGED <<text, origin, pc, at, dropped>>

Space ==
  /\ state = "SPACE"
  /\ \/ c = "sp" /\ SetValue("TEXT")
     \/ c # "sp" /\ c # "p" /\ TakeField
     \/ c # "sp" /\ c # "p" /\ key = <<"B">> /\ Refuse
     \/ c = "p" /\ Refuse

Continued ==                                       \* WANT_ANVL_TEXT
  /\ state = "TEXT"
  /\ \/ c # "sp" /\ SetValue("VALUE")
     \/ c = "sp" /\ Refuse

Comment ==
  /\ state = "COMMENT"
  /\ \/ c = "cr" /\ SetComment("COMMENTLF")
     \/ c \notin {"cr", "p"} /\ SetComment("COMMENT")
     \/ c = "p" /\ Refuse

CommentLf ==
  /\ state = "COMMENTLF"
  /\ \/ c = "lf" /\ SetComment("KEYFIRST")
     \/ c \notin {"lf", "p"} /\ SetComment("COMMENT")
     \/ c = "p" /\ Refuse

\* An automaton that delivers no key ends the header.
EndLf ==
  /\ state = "ENDLF"
  /\ \/ /\ c = "lf" /\ at' = at + 1
        /\ datalen' = datalen + 2 + contlen
        /\ pc' = "record"
        /\ UNCHANGED <<text, origin, state, key, value, comment, fields, contlen, dropped>>
     \/ c # "lf" /\ Refuse

Parse ==
  /\ pc = "header" /\ at < Len(text)
  /\ \/ KeyFirst \/ Key \/ Value \/ Lf \/ Space \/ Continued \/ Comment \/ CommentLf \/ EndLf

Truncated == pc = "header" /\ at >= Len(text) /\ Refuse

HNext == Version \/ Parse \/ Truncated

-----------------------------------------------------------------------------
(* Properties. *)

HTypeOK ==
  /\ text \in Line /\ at \in 0 .. Len(text)
  /\ state \in {"KEYFIRST", "KEY", "VALUE", "LF", "SPACE", "TEXT", "ENDLF", "COMMENT",
                "COMMENTLF"}
  /\ key \in Line /\ value \in Line /\ comment \in Line
  /\ fields \in Seq(Field)
  /\ datalen \in Nat /\ contlen \in Nat /\ dropped \in Nat

\* However the lines of a header are continued, spaced or repeated, the length that
\* WHeader_extractFromWarcFile sums from its fields is that of the bytes it took,
\* but for those of comments, and the data block it announces follows them: the
\* jump to the next record goes to the end of the record.
Counted == pc = "record" => datalen + dropped = at + contlen

\* A value on one line: it has no CR LF, and no CR at its end.
OneLine(v) ==
  /\ v # << >> => v[Len(v)] # "cr"
  /\ \A i \in 1 .. Len(v) - 1 : ~ (v[i] = "cr" /\ v[i + 1] = "lf")

\* A name that the automaton takes as one, of a field that is not known by name.
Named(k) ==
  /\ k # << >> /\ k[1] \in Text /\ \A i \in 1 .. Len(k) : k[i] \in Text \cup {"#"}
  /\ k \notin {<<"K">>, <<"L">>, <<"B">>}

\* The values and names of WrittenIsRead: neither the setters nor WFile_storeRecord look
\* at them, and the automaton takes other ones for more or for fewer fields.
ProperFields ==
  \A w \in Written :
    /\ OneLine(w.id) /\ w.id[1] # "sp"
    /\ \A i \in 1 .. Len(w.anvls) : Named(w.anvls[i].key) /\ OneLine(w.anvls[i].value)

\* A header that WFile_storeRecord wrote is read back with the fields, in their
\* order and with their values, and the content length that were written, and the
\* reader is where the data block begins and knows where the next record does.
WrittenIsRead ==
  origin # NoOne =>
    /\ pc # "nil" \/ origin.content = << >>
    /\ pc = "record" =>
         /\ fields = << [key |-> <<"K">>, value |-> origin.id],
                        [key |-> <<"L">>, value |-> Number(Len(origin.content))] >>
                     \o origin.anvls
         /\ contlen = Len(origin.content)
         /\ at = Len(WriteHeader(origin))
         /\ datalen + 4 = Len(text)
=============================================================================
