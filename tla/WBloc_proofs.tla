----------------------------- MODULE WBloc_proofs -----------------------------
(***************************************************************************)
(* Proofs about the reading of a header, for every text, and of the data     *)
(* block behind it: for every size of the buffers and of the chunks, and any *)
(* passes and copies.                                                        *)
(***************************************************************************)
EXTENDS WBloc, FiniteSetTheorems, SequenceFacts

-----------------------------------------------------------------------------
(* Sequences of bytes. *)

\* A line with one byte more.
LEMMA AppendLine ==
  ASSUME NEW s \in Line, NEW x \in Class
  PROVE  Append(s, x) \in Line /\ Len(Append(s, x)) = Len(s) + 1
BY DEF Line

\* A stretch of a line that does not go beyond its end.
LEMMA SubLine ==
  ASSUME NEW s \in Line, NEW m \in Nat \ {0}, NEW n \in 0 .. Len(s)
  PROVE  /\ SubSeq(s, m, n) \in Line
         /\ Len(SubSeq(s, m, n)) = IF m <= n THEN n - m + 1 ELSE 0
         /\ \A i \in 1 .. n - m + 1 : SubSeq(s, m, n)[i] = s[m + i - 1]
<1>1. m \in Int /\ n \in Int /\ \A i \in m .. n : s[i] \in Class  BY DEF Line
<1> HIDE DEF Class
<1> QED  BY <1>1, SubSeqProperties DEF Line

\* The value without its CR LF.
LEMMA DeliveredLine ==
  ASSUME value \in Line, Len(value) >= 2
  PROVE  Delivered \in Line /\ Len(Delivered) = Len(value) - 2
<1>1. Len(value) \in Nat  BY DEF Line
<1>2. Len(value) - 2 \in 0 .. Len(value) /\ 1 \in Nat \ {0}  BY <1>1
<1>3. Len(Delivered) = IF 1 <= Len(value) - 2 THEN Len(value) - 2 - 1 + 1 ELSE 0
  BY <1>2, SubLine DEF Delivered
<1> DEFINE n == Len(value) - 2
<1>6. n \in Nat  BY <1>1
<1>7. Len(Delivered) = IF 1 <= n THEN n - 1 + 1 ELSE 0  BY <1>3
<1>8. \A k \in Nat : (IF 1 <= k THEN k - 1 + 1 ELSE 0) = k  OBVIOUS
<1>4. Len(Delivered) = Len(value) - 2
  <2> HIDE DEF n
  <2>1. Len(Delivered) = n  BY <1>6, <1>7, <1>8
  <2> QED  BY <2>1 DEF n
<1>5. Delivered \in Line  BY <1>2, SubLine DEF Delivered
<1> QED  BY <1>4, <1>5

\* WHeader_jumpFirstSpaces gives a part of the value.
LEMMA JumpLine ==
  ASSUME NEW v \in Line
  PROVE  JumpFirstSpaces(v) \in Line
<1> DEFINE Spaces == {i \in DOMAIN v : \A j \in 1 .. i : v[j] = "sp"}
<1>1. DOMAIN v = 1 .. Len(v) /\ Len(v) \in Nat  BY DEF Line
<1>2. IsFiniteSet(1 .. Len(v))  BY <1>1, FS_Interval
<1>3. Spaces \subseteq 1 .. Len(v)  BY <1>1
<1>4. Cardinality(Spaces) \in Nat  BY <1>2, <1>3, FS_Subset, FS_CardinalityType
<1>5. 1 + Cardinality(Spaces) \in Nat \ {0} /\ Len(v) \in 0 .. Len(v)  BY <1>1, <1>4
<1> QED  BY <1>5, SubLine DEF JumpFirstSpaces

\* w_atou gives a number for any text.
LEMMA AtouNat ==
  ASSUME NEW v \in Line
  PROVE  Atou(v) \in Nat
<1> DEFINE begun == {s \in DOMAIN Numeral : \E i \in 0 .. Len(v) : ReadAt(v, s, i)}
<1>1. \A s \in DOMAIN Numeral : Numeral[s] \in Nat  BY HeaderAssumption
<1>2. begun \subseteq DOMAIN Numeral  OBVIOUS
<1>3. Atou(v) = IF begun = {} THEN 0 ELSE Numeral[CHOOSE s \in begun : TRUE]  BY DEF Atou
<1> HIDE DEF begun
<1>4. CASE begun = {}  BY <1>3, <1>4
<1>5. CASE begun # {}
  <2>1. (CHOOSE s \in begun : TRUE) \in begun  BY <1>5
  <2> QED  BY <1>1, <1>2, <1>3, <1>5, <2>1
<1> QED  BY <1>4, <1>5

-----------------------------------------------------------------------------
(* What is written. *)

\* The number of a content length is digits, one at least, and none of them ends a line
\* or is a space.
LEMMA NumberShape ==
  ASSUME NEW w \in Written
  PROVE  /\ Number(Len(w.content)) \in DOMAIN Numeral
         /\ Numeral[Number(Len(w.content))] = Len(w.content)
         /\ Number(Len(w.content)) \in Line /\ Number(Len(w.content)) # << >>
         /\ \A i \in 1 .. Len(Number(Len(w.content))) :
              Number(Len(w.content))[i] \notin {"sp", "cr", "lf"}
<1> DEFINE d == CHOOSE s \in DOMAIN Numeral : Numeral[s] = Len(w.content)
<1>1. d \in DOMAIN Numeral /\ Numeral[d] = Len(w.content)  BY HeaderAssumption
<1>2. Number(Len(w.content)) = d  BY DEF Number
<1> HIDE DEF d
<1>3. d \in Seq(Digits) /\ d # << >>  BY <1>1, HeaderAssumption
<1>4. Digits \subseteq Class  BY DEF Class, Text
<1>5. "sp" \notin Digits /\ "cr" \notin Digits /\ "lf" \notin Digits  BY DEF Digits
<1> HIDE DEF Digits, Class
<1>6. \A i \in 1 .. Len(d) : d[i] \in Digits  BY <1>3
<1>7. d \in Line  BY <1>3, <1>4 DEF Line
<1>8. \A i \in 1 .. Len(d) : d[i] \notin {"sp", "cr", "lf"}  BY <1>5, <1>6
<1> QED  BY <1>1, <1>2, <1>3, <1>7, <1>8

\* Lines joined are a line.
LEMMA JoinedLine ==
  ASSUME NEW s \in Line, NEW t \in Line
  PROVE  s \o t \in Line
BY DEF Line

\* The classes of bytes that a header is made of.
LEMMA Punctuation ==
  /\ Crlf \in Line /\ <<":">> \in Line /\ <<"id">> \in Line
  /\ <<"K", ":", "sp">> \in Line /\ <<"L", ":", "sp">> \in Line
<1>1. {"id", "K", "L", ":", "sp", "cr", "lf"} \subseteq Class  BY DEF Class, Text
<1> HIDE DEF Class
<1> QED  BY <1>1 DEF Line, Crlf

\* The fields that are not known by name, one after the other.
LEMMA AnvlsLine ==
  ASSUME NEW a \in Seq(Field)
  PROVE  WriteAnvls(a) \in Line
<1> DEFINE lines == [n \in 1 .. Len(a) |-> a[n].key \o <<":">> \o a[n].value \o Crlf]
<1>1. ASSUME NEW n \in 1 .. Len(a)
      PROVE  a[n].key \o <<":">> \o a[n].value \o Crlf \in Line
  <2>1. a[n] \in Field  OBVIOUS
  <2>2. a[n].key \in Line /\ a[n].value \in Line  BY <2>1 DEF Field
  <2> QED  BY <2>2, JoinedLine, Punctuation
<1>2. Len(a) \in Nat  OBVIOUS
<1>3. lines \in Seq(Line)  BY <1>1, <1>2
<1> HIDE DEF lines
<1>4. FlattenSeq(lines) \in Line  BY <1>3, FlattenTyped DEF Line
<1> QED  BY <1>4 DEF WriteAnvls, lines

\* A record is written as a line, whatever its fields are.
LEMMA WrittenLine ==
  ASSUME NEW w \in Written
  PROVE  StoreRecord(w) \in Line
<1>1. w.id \in Line /\ WriteAnvls(w.anvls) \in Line /\ w.content \in Line
  BY HeaderAssumption, AnvlsLine
<1>2. Number(Len(w.content)) \in Line  BY NumberShape
<1>3. WriteHeader(w) \in Line  BY <1>1, <1>2, JoinedLine, Punctuation DEF WriteHeader
<1> QED  BY <1>1, <1>3, JoinedLine, Punctuation DEF StoreRecord

-----------------------------------------------------------------------------
(* What the reader of a header keeps. *)

Empty == key = << >> /\ value = << >>

\* While the header is read, the bytes taken are the lengths counted so far, those
\* of comments, and what the automaton holds of the present line.
Counting ==
  pc = "header" =>
    \/ at = Len(text) /\ at < 3
    \/ CASE state \in {"KEYFIRST", "COMMENT", "COMMENTLF"} -> Empty /\ at = datalen + dropped
         [] state = "KEY" -> value = << >> /\ at = datalen + dropped + Len(key)
         [] state = "ENDLF" -> Empty /\ at = datalen + dropped + 1
         [] OTHER -> /\ at = datalen + dropped + Len(key) + 1 + Len(value)
                     /\ state = "LF" => Len(value) >= 1
                     /\ state \in {"SPACE", "TEXT"} => Len(value) >= 2

HInv ==
  /\ HTypeOK
  /\ pc = "version" => Empty /\ state = "KEYFIRST" /\ at = 0 /\ datalen = 0 /\ dropped = 0
  /\ Counting /\ Counted


\* A reader begins with nothing counted.
LEMMA HeaderInit ==
  ASSUME HInit
  PROVE  HInv
<1>1. text \in Line  BY WrittenLine, HeaderAssumption DEF HInit
<1>2. HTypeOK  BY <1>1 DEF HInit, HTypeOK, Line
<1>3. pc = "version" /\ Empty /\ state = "KEYFIRST" /\ at = 0 /\ datalen = 0 /\ dropped = 0
  BY DEF HInit, Empty
<1> QED  BY <1>2, <1>3 DEF HInv, Counting, Counted

\* A refused record stays as it was read.
LEMMA RefuseKeeps ==
  ASSUME HInv, Refuse
  PROVE  HInv'
BY DEF HInv, Refuse, HTypeOK, Counting, Counted, Empty

\* The version and the two bytes after it.
LEMMA VersionKeeps ==
  ASSUME HInv, Version
  PROVE  HInv'
<1>1. CASE Refuse  BY <1>1, RefuseKeeps
<1>2. CASE ~ Refuse
  <2>1. Len(text) \in Nat /\ text \in Line  BY DEF HInv, HTypeOK, Line
  <2>2. /\ at' = IF Len(text) < 3 THEN Len(text) ELSE 3
        /\ datalen' = 3 /\ pc' = "header" /\ pc = "version"
        /\ UNCHANGED <<text, origin, state, key, value, comment, fields, contlen, dropped>>
    BY <1>2 DEF Version
  <2>3. HTypeOK'  BY <2>1, <2>2 DEF HInv, HTypeOK
  <2>4. Counting' /\ Counted'  BY <2>1, <2>2 DEF HInv, Counting, Counted, Empty, HTypeOK
  <2> QED  BY <2>2, <2>3, <2>4 DEF HInv
<1> QED  BY <1>1, <1>2

\* What the automaton has counted when it takes a byte.
LEMMA Reading ==
  ASSUME HInv, pc = "header", at < Len(text)
  PROVE  /\ c \in Class /\ at \in Nat /\ at + 1 \in 0 .. Len(text)
         /\ Len(key) \in Nat /\ Len(value) \in Nat /\ datalen \in Nat /\ dropped \in Nat
         /\ CASE state \in {"KEYFIRST", "COMMENT", "COMMENTLF"} -> Empty /\ at = datalen + dropped
              [] state = "KEY" -> value = << >> /\ at = datalen + dropped + Len(key)
              [] state = "ENDLF" -> Empty /\ at = datalen + dropped + 1
              [] OTHER -> /\ at = datalen + dropped + Len(key) + 1 + Len(value)
                          /\ state = "LF" => Len(value) >= 1
                          /\ state \in {"SPACE", "TEXT"} => Len(value) >= 2
<1>1. text \in Line /\ Len(text) \in Nat /\ at \in 0 .. Len(text)
      /\ Len(key) \in Nat /\ Len(value) \in Nat /\ datalen \in Nat /\ dropped \in Nat
  BY DEF HInv, HTypeOK, Line
<1>2. c \in Class  BY <1>1 DEF c, Line
<1>3. ~ (at = Len(text) /\ at < 3)  BY <1>1
<1> QED  BY <1>1, <1>2, <1>3 DEF HInv, Counting

\* A byte of the key, or of the value, or one that is skipped, or of a comment: the
\* types stay, and the lengths grow by what was taken.
LEMMA Taking ==
  ASSUME HInv, pc = "header", at < Len(text),
         NEW next \in {"KEYFIRST", "KEY", "VALUE", "LF", "SPACE", "TEXT", "ENDLF", "COMMENT",
                       "COMMENTLF"},
         SetKey(next) \/ SetValue(next) \/ Skip(next) \/ SetComment(next)
  PROVE  /\ HTypeOK' /\ at' = at + 1 /\ state' = next /\ pc' = "header"
         /\ datalen' = datalen /\ Len(text') = Len(text)
         /\ SetKey(next) => /\ Len(key') = Len(key) + 1 /\ value' = value /\ dropped' = dropped
         /\ SetValue(next) => /\ Len(value') = Len(value) + 1 /\ key' = key
                              /\ dropped' = dropped
         /\ Skip(next) => key' = key /\ value' = value /\ dropped' = dropped
         /\ SetComment(next) => /\ key' = key /\ value' = value /\ dropped' = dropped + 1
<1>1. c \in Class /\ at + 1 \in 0 .. Len(text)  BY Reading
<1>2. HTypeOK  BY DEF HInv
<1>3. key \in Line /\ value \in Line /\ comment \in Line  BY <1>2 DEF HTypeOK
<1>4. /\ Append(key, c) \in Line /\ Len(Append(key, c)) = Len(key) + 1
      /\ Append(value, c) \in Line /\ Len(Append(value, c)) = Len(value) + 1
      /\ Append(comment, c) \in Line
  BY <1>1, <1>3, AppendLine
<1>5. /\ at' = at + 1 /\ state' = next
      /\ UNCHANGED <<text, origin, pc, fields, datalen, contlen>>
  BY DEF SetKey, SetValue, Skip, SetComment, Takes
<1>6. CASE SetKey(next)
  <2>1. key' = Append(key, c) /\ UNCHANGED <<value, comment, dropped>>  BY <1>6 DEF SetKey
  <2>2. HTypeOK'  BY <1>1, <1>2, <1>4, <1>5, <2>1 DEF HTypeOK
  <2>3. SetValue(next) => Len(value') = Len(value) + 1 /\ key' = key  BY <1>4 DEF SetValue
  <2>4. Skip(next) => key' = key  BY DEF Skip
  <2>5. SetComment(next) => key' = key /\ dropped' = dropped + 1  BY DEF SetComment
  <2> QED  BY <1>4, <1>5, <2>1, <2>2, <2>3, <2>4, <2>5
<1>7. CASE SetValue(next) /\ ~ SetKey(next)
  <2>1. value' = Append(value, c) /\ UNCHANGED <<key, comment, dropped>>  BY <1>7 DEF SetValue
  <2>2. HTypeOK'  BY <1>1, <1>2, <1>4, <1>5, <2>1 DEF HTypeOK
  <2>3. Skip(next) => value' = value  BY DEF Skip
  <2>4. SetComment(next) => value' = value /\ dropped' = dropped + 1  BY DEF SetComment
  <2> QED  BY <1>4, <1>5, <1>7, <2>1, <2>2, <2>3, <2>4
<1>8. CASE Skip(next) /\ ~ SetKey(next) /\ ~ SetValue(next)
  <2>1. UNCHANGED <<key, value, comment, dropped>>  BY <1>8 DEF Skip
  <2>2. HTypeOK'  BY <1>1, <1>2, <1>5, <2>1 DEF HTypeOK
  <2>3. SetComment(next) => dropped' = dropped + 1  BY DEF SetComment
  <2> QED  BY <1>5, <1>8, <2>1, <2>2, <2>3
<1>9. CASE SetComment(next) /\ ~ SetKey(next) /\ ~ SetValue(next) /\ ~ Skip(next)
  <2>1. comment' = Append(comment, c) /\ dropped' = dropped + 1 /\ UNCHANGED <<key, value>>
    BY <1>9 DEF SetComment
  <2>2. dropped \in Nat  BY <1>2 DEF HTypeOK
  <2>3. HTypeOK'  BY <1>1, <1>2, <1>4, <1>5, <2>1, <2>2 DEF HTypeOK
  <2> QED  BY <1>5, <1>9, <2>1, <2>3
<1> QED  BY <1>6, <1>7, <1>8, <1>9

\* The states that collect a key.
LEMMA KeyKeeps ==
  ASSUME HInv, pc = "header", at < Len(text), KeyFirst \/ Key
  PROVE  HInv'
<1> USE Reading
<1>1. CASE Refuse  BY <1>1, RefuseKeeps
<1>2. CASE state = "KEYFIRST" /\ SetKey("KEY")
  BY <1>2, Taking DEF HInv, Counting, Counted, Empty
<1>3. CASE state = "KEYFIRST" /\ Skip("ENDLF")
  BY <1>3, Taking DEF HInv, Counting, Counted, Empty
<1>4. CASE state = "KEYFIRST" /\ Takes("COMMENT") /\ dropped' = dropped + 1
           /\ UNCHANGED <<key, value, comment>>
  <2>1. HTypeOK'  BY <1>4, SMTT(30) DEF HInv, HTypeOK, Takes
  <2> QED  BY <1>4, <2>1 DEF HInv, Counting, Counted, Empty, Takes
<1>5. CASE state = "KEY" /\ SetKey("KEY")
  <2>1. /\ HTypeOK' /\ at' = at + 1 /\ state' = "KEY" /\ pc' = "header"
        /\ datalen' = datalen /\ dropped' = dropped /\ value' = value
        /\ Len(key') = Len(key) + 1
    BY <1>5, Taking
  <2>2. value = << >> /\ at = datalen + dropped + Len(key)  BY <1>5, Reading
  <2>3. at \in Nat /\ Len(key) \in Nat /\ datalen \in Nat /\ dropped \in Nat  BY Reading
  <2>4. at' = datalen' + dropped' + Len(key')  BY <2>1, <2>2, <2>3, SMTT(30)
  <2> QED  BY <2>1, <2>2, <2>4 DEF HInv, Counting, Counted
<1>6. CASE state = "KEY" /\ Skip("VALUE")
  <2>1. Len(value') = 0  BY <1>6, Taking
  <2> QED  BY <1>6, <2>1, Taking DEF HInv, Counting, Counted, Empty
<1> QED  BY <1>1, <1>2, <1>3, <1>4, <1>5, <1>6 DEF KeyFirst, Key

\* The states that collect a value.
LEMMA ValueKeeps ==
  ASSUME HInv, pc = "header", at < Len(text), Value \/ Lf \/ Continued
  PROVE  HInv'
<1> USE Reading
<1>1. CASE Refuse  BY <1>1, RefuseKeeps
<1>2. CASE state = "VALUE" /\ SetValue("LF")
  BY <1>2, Taking DEF HInv, Counting, Counted, Empty
<1>3. CASE state = "VALUE" /\ SetValue("VALUE")
  BY <1>3, Taking DEF HInv, Counting, Counted, Empty
<1>4. CASE state = "LF" /\ SetValue("SPACE")
  BY <1>4, Taking DEF HInv, Counting, Counted, Empty
<1>5. CASE state = "LF" /\ SetValue("VALUE")
  BY <1>5, Taking DEF HInv, Counting, Counted, Empty
<1>6. CASE state = "TEXT" /\ SetValue("VALUE")
  BY <1>6, Taking DEF HInv, Counting, Counted, Empty
<1> QED  BY <1>1, <1>2, <1>3, <1>4, <1>5, <1>6 DEF Value, Lf, Continued

\* Comments.
LEMMA CommentKeeps ==
  ASSUME HInv, pc = "header", at < Len(text), Comment \/ CommentLf
  PROVE  HInv'
<1>1. CASE Refuse  BY <1>1, RefuseKeeps
<1>2. CASE state \in {"COMMENT", "COMMENTLF"}
           /\ \E next \in {"COMMENT", "COMMENTLF", "KEYFIRST"} : SetComment(next)
  <2>1. PICK next \in {"COMMENT", "COMMENTLF", "KEYFIRST"} : SetComment(next)  BY <1>2
  <2>2. /\ HTypeOK' /\ at' = at + 1 /\ state' = next /\ pc' = "header"
        /\ datalen' = datalen /\ dropped' = dropped + 1 /\ key' = key /\ value' = value
    BY <2>1, Taking
  <2>3. Empty /\ at = datalen + dropped /\ datalen \in Nat /\ dropped \in Nat
    BY <1>2, Reading
  <2>4. Empty' /\ at' = datalen' + dropped'  BY <2>2, <2>3 DEF Empty
  <2> QED  BY <2>2, <2>4 DEF HInv, Counting, Counted
<1> QED  BY <1>1, <1>2 DEF Comment, CommentLf

\* The field is taken: what the automaton held is now counted.
LEMMA TakeFieldKeeps ==
  ASSUME HInv, pc = "header", at < Len(text), state = "SPACE", TakeField
  PROVE  HInv'
<1>1. HTypeOK /\ key \in Line /\ value \in Line  BY DEF HInv, HTypeOK
<1>2. /\ at = datalen + dropped + Len(key) + 1 + Len(value) /\ Len(value) >= 2
      /\ at \in Nat /\ datalen \in Nat /\ dropped \in Nat
      /\ Len(key) \in Nat /\ Len(value) \in Nat
  BY Reading
<1>3. Delivered \in Line /\ Len(Delivered) = Len(value) - 2  BY <1>1, <1>2, DeliveredLine
<1>4. JumpFirstSpaces(Delivered) \in Line /\ Atou(Delivered) \in Nat
  BY <1>3, JumpLine, AtouNat
<1> DEFINE f == [key   |-> key,
                 value |-> IF key \in {<<"K">>, <<"L">>} THEN JumpFirstSpaces(Delivered)
                           ELSE Delivered]
<1>5. f \in Field  BY <1>1, <1>3, <1>4 DEF Field
<1>6. fields' = Append(fields, f)  BY DEF TakeField
<1>7. fields' \in Seq(Field)
  <2> HIDE DEF f
  <2> QED  BY <1>1, <1>5, <1>6 DEF HTypeOK
<1>8. /\ datalen' = datalen + Len(key) + (Len(value) - 2) + 3
      /\ key' = << >> /\ value' = << >> /\ comment' = << >> /\ state' = "KEYFIRST"
      /\ UNCHANGED <<text, origin, pc, at, dropped>>
  BY <1>3 DEF TakeField
<1>9. contlen' \in Nat  BY <1>1, <1>4 DEF TakeField, HTypeOK
<1>10. << >> \in Line  BY DEF Line
<1>11. datalen' \in Nat /\ at' = datalen' + dropped'  BY <1>2, <1>8
<1>12. HTypeOK'  BY <1>1, <1>7, <1>8, <1>9, <1>10, <1>11 DEF HTypeOK
<1>13. Counting' /\ Counted'  BY <1>8, <1>11 DEF HInv, Counting, Counted, Empty
<1> QED  BY <1>8, <1>12, <1>13 DEF HInv

\* The line after a value.
LEMMA SpaceKeeps ==
  ASSUME HInv, pc = "header", at < Len(text), Space
  PROVE  HInv'
<1>1. CASE Refuse  BY <1>1, RefuseKeeps
<1>2. CASE state = "SPACE" /\ SetValue("TEXT")
  BY <1>2, Reading, Taking DEF HInv, Counting, Counted, Empty
<1>3. CASE state = "SPACE" /\ TakeField  BY <1>3, TakeFieldKeeps
<1> QED  BY <1>1, <1>2, <1>3 DEF Space

\* The empty line: the content length is added.
LEMMA EndLfKeeps ==
  ASSUME HInv, pc = "header", at < Len(text), EndLf
  PROVE  HInv'
<1>1. CASE Refuse  BY <1>1, RefuseKeeps
<1>2. CASE ~ Refuse
  <2>1. /\ state = "ENDLF" /\ at' = at + 1 /\ datalen' = datalen + 2 + contlen
        /\ pc' = "record"
        /\ UNCHANGED <<text, origin, state, key, value, comment, fields, contlen, dropped>>
    BY <1>2 DEF EndLf
  <2>2. /\ at = datalen + dropped + 1 /\ at \in Nat /\ at + 1 \in 0 .. Len(text)
        /\ datalen \in Nat /\ dropped \in Nat
    BY <2>1, Reading
  <2>3. contlen \in Nat  BY DEF HInv, HTypeOK
  <2>4. HTypeOK'  BY <2>1, <2>2, <2>3 DEF HInv, HTypeOK
  <2>5. datalen' + dropped' = at' + contlen'  BY <2>1, <2>2, <2>3
  <2>6. Counting' /\ Counted'  BY <2>1, <2>5 DEF Counting, Counted
  <2> QED  BY <2>1, <2>4, <2>6 DEF HInv
<1> QED  BY <1>1, <1>2

\* Every step of the reader of headers keeps what it has counted.
LEMMA HeaderStep ==
  ASSUME HInv, HNext
  PROVE  HInv'
<1>1. CASE Version  BY <1>1, VersionKeeps
<1>2. CASE Parse
  <2>1. pc = "header" /\ at < Len(text)  BY <1>2 DEF Parse
  <2> QED  BY <1>2, <2>1, KeyKeeps, ValueKeeps, CommentKeeps, SpaceKeeps, EndLfKeeps DEF Parse
<1>3. CASE Truncated  BY <1>3, RefuseKeeps DEF Truncated
<1> QED  BY <1>1, <1>2, <1>3 DEF HNext

-----------------------------------------------------------------------------
(* Arithmetic and parts of the payload. *)

\* A remainder lies between 0 and the modulus.
LEMMA ModRange ==
  ASSUME NEW m \in Nat, NEW n \in Nat \ {0}
  PROVE  m % n \in 0 .. n - 1 /\ m - (m % n) \in 0 .. m
OBVIOUS

\* The difference of two numbers in order.
LEMMA Difference ==
  ASSUME NEW m \in Nat, NEW n \in Nat, m <= n
  PROVE  n - m \in Nat
OBVIOUS

\* The temporary file holds a stretch of the data block.
Stretch == content \in Line /\ from \in 0 .. to /\ to \in 0 .. Len(content)

\* The size of the payload is a number, and parts of it are lines.
LEMMA PayloadLine ==
  ASSUME Stretch, NEW m \in 0 .. Size, NEW n \in m .. Size
  PROVE  Size \in Nat /\ Payload(m, n) \in Line
<1>1. Len(content) \in Nat /\ from \in Nat /\ to \in Nat  BY DEF Stretch, Line
<1>2. from + m + 1 \in Nat \ {0} /\ from + n \in 0 .. Len(content) /\ Size \in Nat
  BY <1>1 DEF Stretch, Size
<1> QED  BY <1>2, SubLine DEF Stretch, Payload

\* A part of the payload followed by the next part.
LEMMA PayloadJoin ==
  ASSUME Stretch, NEW l \in 0 .. Size, NEW m \in l .. Size, NEW n \in m .. Size
  PROVE  Payload(l, m) \o Payload(m, n) = Payload(l, n)
<1>1. content \in Seq(Class) /\ Len(content) \in Nat /\ from \in Nat /\ to \in Nat
  BY DEF Stretch, Line
<1>2. /\ from + l + 1 \in 1 .. Len(content) + 1
      /\ from + m \in from + l + 1 - 1 .. Len(content)
      /\ from + n \in from + m .. Len(content)
  BY <1>1 DEF Stretch, Size
<1> HIDE DEF Class
<1> QED  BY <1>1, <1>2, ConcatAdjacentSubSeq DEF Payload

\* No bytes.
LEMMA PayloadNone ==
  ASSUME Stretch, NEW m \in 0 .. Size
  PROVE  Payload(m, m) = << >>
<1>1. from \in Nat /\ from + m + 1 \in Int /\ from + m \in Int  BY DEF Stretch, Size, Line
<1> QED  BY <1>1, SubSeqEmpty DEF Payload

-----------------------------------------------------------------------------
(* The inductive invariant. *)

Pcs == {"version", "header", "record", "held", "search", "bloc", "nil", "nobloc", "aborted"}

\* Before the bloc is made nothing was delivered.
Undelivered ==
  pc # "bloc" => /\ tpos = 0 /\ eob = FALSE /\ lastSize = 0
                 /\ given = << >> /\ copied = NoCopy

\* Before the record is registered nothing was read.
Unread ==
  pc \in {"version", "header", "record", "held"} =>
    content = << >> /\ read = 0 /\ from = 0 /\ to = 0

\* Bytes are written from some byte on, and then all of them.
Writing ==
  pc \in {"search", "bloc"} =>
    /\ unit \in Nat \ {0} /\ alloc \in Nat \ {0}
    /\ IF act = "WRITEING" THEN to = read ELSE from = 0 /\ to = 0

\* Where a pass of WBloc_next is, and what it gave; what a copy completed.
Delivery ==
  /\ pc = "bloc" => /\ read = Len(content)
                    /\ given = Payload(0, tpos) /\ (eob => tpos = Size)
  /\ copied.said # "none" => pc = "bloc" /\ copied.before \o copied.bytes = Payload(0, Size)
  /\ copied.said = "error" => copied.bytes = << >>

BInv == HInv /\ TypeOK /\ alloc \in Nat /\ Undelivered /\ Unread /\ Writing /\ Delivery

\* What the names say at the start.
LEMMA BlocInit ==
  ASSUME Init
  PROVE  BInv
<1>1. HInv  BY HeaderInit DEF Init
<1>2. pc = "version"  BY DEF Init, HInit
<1>3. << >> \in Line /\ Len(<< >>) = 0  BY DEF Line
<1>4. TypeOK
  <2>1. HTypeOK  BY <1>1 DEF HInv
  <2>2. content = << >> /\ read = 0 /\ from = 0 /\ to = 0 /\ tpos = 0 /\ lastSize = 0
        /\ given = << >> /\ copies = 0 /\ alloc = 0 /\ MaxCopies \in Nat
    BY BlocAssumption DEF Init
  <2>3. wasCr \in BOOLEAN /\ eob \in BOOLEAN  BY DEF Init
  <2>4. act = "none" /\ line = "empty" /\ fsm = "S1" /\ httpCode = "none"  BY DEF Init
  <2> QED  BY <1>2, <1>3, <2>1, <2>2, <2>3, <2>4 DEF TypeOK, Size
<1>5. Undelivered /\ Unread /\ Writing /\ Delivery
  BY <1>2 DEF Init, Undelivered, Unread, Writing, Delivery, NoCopy
<1> QED  BY <1>1, <1>4, <1>5 DEF BInv, Init

\* The reading of the header touches nothing else.
LEMMA ReadHeaderKeeps ==
  ASSUME BInv, ReadHeader
  PROVE  BInv'
<1>1. HInv'  BY HeaderStep DEF BInv, ReadHeader
<1>2. UNCHANGED bvars  BY DEF ReadHeader
<1>3. pc \in {"version", "header"} /\ pc' \in {"version", "header", "record", "nil"}
  BY DEF ReadHeader, HNext, Version, Parse, Truncated, Refuse, KeyFirst, Key, Value, Lf, Space,
         Continued, EndLf, Comment, CommentLf, TakeField, SetKey, SetValue, SetComment, Skip, Takes
<1>4. TypeOK'  BY <1>1, <1>2, <1>3 DEF BInv, HInv, TypeOK, bvars, Size
<1>5. Undelivered' /\ Unread' /\ Writing' /\ Delivery' /\ alloc' \in Nat
  BY <1>2, <1>3 DEF BInv, Undelivered, Unread, Writing, Delivery, bvars, Payload, Size, NoCopy
<1> QED  BY <1>1, <1>4, <1>5 DEF BInv

\* From a header to the search: nothing that the header has counted changes.
LEMMA MovesKeeps ==
  ASSUME HInv, NEW next \in {"held", "search", "bloc", "nil", "nobloc", "aborted"}, Moves(next)
  PROVE  HInv'
BY DEF HInv, Moves, HTypeOK, Counting, Counted, Empty

\* nextRecord, and the calls of getBloc that fail.
LEMMA GetBlocNextKeeps ==
  ASSUME BInv, NextRecord \/ GetBlocFails \/ GetBlocAborts
  PROVE  BInv'
<1>1. PICK next \in {"held", "nil", "nobloc", "aborted"} : Moves(next)
  BY DEF NextRecord, GetBlocFails, GetBlocAborts, Moves
<1>2. UNCHANGED bvars /\ pc \in {"record", "held"} /\ pc' \in {"held", "nil", "nobloc", "aborted"}
      /\ (pc' # "held" \/ pc = "record")
  BY <1>1 DEF NextRecord, GetBlocFails, GetBlocAborts, Moves
<1>3. HInv'  BY <1>1, MovesKeeps DEF BInv
<1>4. TypeOK'  BY <1>2, <1>3 DEF BInv, HInv, TypeOK, bvars, Size
<1>5. Undelivered' /\ Unread' /\ Writing' /\ Delivery' /\ alloc' \in Nat
  BY <1>2 DEF BInv, Undelivered, Unread, Writing, Delivery, bvars, Payload, Size, NoCopy
<1> QED  BY <1>3, <1>4, <1>5 DEF BInv

\* The registration of the record and its callback.
LEMMA GetBlocKeeps ==
  ASSUME BInv, GetBloc
  PROVE  BInv'
<1>1. Moves("search") /\ pc = "held" /\ pc' = "search"  BY DEF GetBloc, Moves
<1>2. HInv'  BY <1>1, MovesKeeps DEF BInv
<1>3. text \in Line /\ at \in Nat /\ datalen \in Nat /\ Len(text) \in Nat
  BY DEF BInv, HInv, HTypeOK, Line
<1>4. Block \in Line
  <2>1. CASE at < datalen /\ datalen <= Len(text)
    <3>1. at + 1 \in Nat \ {0} /\ datalen \in 0 .. Len(text)  BY <1>3, <2>1
    <3> QED  BY <1>3, <2>1, <3>1, SubLine DEF Block
  <2>2. CASE ~ (at < datalen /\ datalen <= Len(text))  BY <2>2 DEF Block, Line
  <2> QED  BY <2>1, <2>2
<1>5. content' \in Line /\ Len(content') \in Nat  BY <1>4 DEF GetBloc, Line
<1>6. unit' \in Nat \ {0} /\ alloc' \in Nat \ {0}  BY BlocAssumption DEF GetBloc
<1>7. read = 0 /\ from = 0 /\ to = 0  BY <1>1 DEF BInv, Unread
<1>8. tpos = 0 /\ eob = FALSE /\ lastSize = 0 /\ given = << >> /\ copied = NoCopy
  BY <1>1 DEF BInv, Undelivered
<1>9. UNCHANGED <<read, line, wasCr, fsm, from, to, tpos, eob, lastSize, given, copied, copies>>
  BY DEF GetBloc, deliver
<1>10. /\ act' \in {"SEARCHING_HTTP", "WRITEING"}
       /\ httpCode' \in {"none", "998", "999"}
  BY DEF GetBloc
<1>11. TypeOK'
  <2>1. HTypeOK'  BY <1>2 DEF HInv
  <2> QED  BY <2>1, <1>1, <1>5, <1>6, <1>7, <1>8, <1>9, <1>10 DEF BInv, TypeOK, Size
<1>12. Undelivered' /\ Unread' /\ Writing' /\ Delivery'
  BY <1>1, <1>6, <1>7, <1>8, <1>9, <1>10 DEF Undelivered, Unread, Writing, Delivery, NoCopy
<1> QED  BY <1>2, <1>6, <1>11, <1>12 DEF BInv

\* One byte of the data block, whatever b_callback makes of it.
LEMMA SearchShape ==
  ASSUME BInv, pc = "search", read < Len(content), read' = read + 1,
         UNCHANGED <<hvars, choices, content, deliver>>,
         act' \in {"SEARCHING_HTTP", "IGNORE_ALL", "WRITEING"},
         line' \in {"empty", "http", "other"}, wasCr' \in BOOLEAN,
         fsm' \in {"S1", "S2", "S3", "S4", "S5", "S11", "S12"},
         httpCode' \in {"none", "http", "997", "998", "999"},
         from' \in 0 .. to', to' \in 0 .. read + 1,
         IF act' = "WRITEING" THEN to' = read + 1 ELSE from' = 0 /\ to' = 0
  PROVE  BInv'
<1>1. /\ UNCHANGED hvars /\ pc' = "search"
      /\ UNCHANGED <<unit, alloc, uri, withhttp, content, tpos, eob, lastSize, given, copied,
                     copies>>
  BY DEF hvars, choices, deliver
<1>2. HInv'
  BY <1>1 DEF BInv, HInv, hvars, HTypeOK, Counting, Counted, Empty
<1>3. Len(content) \in Nat /\ read \in Nat  BY DEF BInv, TypeOK, Line
<1>4. tpos = 0 /\ eob = FALSE /\ lastSize = 0 /\ given = << >> /\ copied = NoCopy
  BY DEF BInv, Undelivered
<1>5. unit \in Nat \ {0} /\ alloc \in Nat \ {0}  BY DEF BInv, Writing
<1>6. HTypeOK'  BY <1>2 DEF HInv
<1>7. tpos' \in 0 .. Size'
  <2>1. to' \in Nat /\ from' \in Nat /\ from' <= to'  BY <1>3
  <2>2. Size' = to' - from'  BY DEF Size
  <2>3. Size' \in Nat  BY <2>1, <2>2, Difference
  <2> QED  BY <1>1, <1>4, <2>3
<1>8. eob' \in BOOLEAN  BY <1>1, <1>4
<1>9. TypeOK'  BY <1>1, <1>3, <1>4, <1>5, <1>6, <1>7, <1>8 DEF BInv, TypeOK
<1>10. Undelivered' /\ Unread' /\ Writing' /\ Delivery'
  BY <1>1, <1>3, <1>4, <1>5 DEF Undelivered, Unread, Writing, Delivery, NoCopy
<1> QED  BY <1>1, <1>2, <1>5, <1>9, <1>10 DEF BInv

\* A byte within a line keeps the line one of the three kinds.
LEMMA LongerKind ==
  ASSUME NEW l \in {"empty", "http", "other"}, NEW byte
  PROVE  Longer(l, byte) \in {"empty", "http", "other"}
BY DEF Longer

\* b_callback, one byte at a time.
LEMMA SearchKeeps ==
  ASSUME BInv, SearchLine \/ SearchLineEnd \/ Ignore \/ Write
  PROVE  BInv'
<1>1. pc = "search" /\ read < Len(content) /\ read' = read + 1
      /\ UNCHANGED <<hvars, choices, content, deliver>>
  BY DEF SearchLine, SearchLineEnd, Ignore, Write, Searches
<1>2. /\ line \in {"empty", "http", "other"} /\ wasCr \in BOOLEAN
      /\ fsm \in {"S1", "S2", "S3", "S4", "S5", "S11", "S12"}
      /\ httpCode \in {"none", "http", "997", "998", "999"}
      /\ read \in Nat /\ from \in 0 .. to /\ to \in Nat /\ Len(content) \in Nat
  BY DEF BInv, TypeOK, Line
<1>3. unit \in Nat \ {0}  BY <1>1 DEF BInv, Writing
<1>4. act # "WRITEING" => from = 0 /\ to = 0  BY <1>1 DEF BInv, Writing
<1>5. CASE SearchLine
  <2>1. act = "SEARCHING_HTTP" /\ UNCHANGED <<act, fsm, httpCode, from, to>>
    BY <1>5 DEF SearchLine, Searches
  <2>2. line' \in {"empty", "http", "other"}
    BY <1>2, <1>5, LongerKind DEF SearchLine
  <2>3. wasCr' \in BOOLEAN  BY <1>5 DEF SearchLine
  <2> QED  BY <1>1, <1>2, <1>4, <2>1, <2>2, <2>3, SearchShape
<1>6. CASE SearchLineEnd
  <2>1. act = "SEARCHING_HTTP" /\ wasCr' = FALSE  BY <1>6 DEF SearchLineEnd, Searches
  <2>2. BufferStart \in 0 .. read  BY <1>2, <1>3, ModRange DEF BufferStart
  <2>3. wasCr' \in BOOLEAN  BY <2>1
  <2>4. CASE line = "empty"
    <3>1. /\ httpCode' = "997" /\ act' = "WRITEING" /\ from' = BufferStart /\ to' = read + 1
          /\ UNCHANGED <<line, fsm>>
      BY <1>6, <2>4 DEF SearchLineEnd
    <3> QED  BY <1>1, <1>2, <2>2, <2>3, <3>1, SearchShape
  <2>5. CASE line = "http"
    <3>1. /\ httpCode' = "http" /\ act' = "IGNORE_ALL" /\ fsm' = "S11"
          /\ UNCHANGED <<line, from, to>>
      BY <1>6, <2>5 DEF SearchLineEnd
    <3> QED  BY <1>1, <1>2, <1>4, <2>1, <2>3, <3>1, SearchShape
  <2>6. CASE line = "other"
    <3>1. line' = "empty" /\ UNCHANGED <<act, fsm, httpCode, from, to>>
      BY <1>6, <2>6 DEF SearchLineEnd
    <3> QED  BY <1>1, <1>2, <1>4, <2>1, <2>3, <3>1, SearchShape
  <2> QED  BY <1>2, <2>4, <2>5, <2>6
<1>7. CASE Ignore
  <2>1. /\ act = "IGNORE_ALL" /\ fsm' = IgnoreNext(fsm, b)
        /\ act' = IF fsm' = "S5" THEN "WRITEING" ELSE act
        /\ from' = IF fsm' = "S5" THEN read + 1 ELSE from
        /\ to' = from' /\ UNCHANGED <<line, wasCr, httpCode>>
    BY <1>7 DEF Ignore
  <2>2. fsm' \in {"S1", "S2", "S3", "S4", "S5", "S11", "S12"}  BY <2>1 DEF IgnoreNext
  <2> QED  BY <1>1, <1>2, <1>4, <2>1, <2>2, SearchShape
<1>8. CASE Write
  <2>1. act = "WRITEING" /\ to' = read + 1
        /\ UNCHANGED <<act, line, wasCr, fsm, httpCode, from>>
    BY <1>8 DEF Write
  <2>2. to = read  BY <1>1, <2>1 DEF BInv, Writing
  <2> QED  BY <1>1, <1>2, <2>1, <2>2, SearchShape
<1> QED  BY <1>5, <1>6, <1>7, <1>8

\* The bloc is made.
LEMMA MadeKeeps ==
  ASSUME BInv, Made
  PROVE  BInv'
<1>1. pc = "search" /\ read = Len(content) /\ Moves("bloc") /\ UNCHANGED bvars /\ pc' = "bloc"
  BY DEF Made, Moves
<1>2. HInv'  BY <1>1, MovesKeeps DEF BInv
<1>3. TypeOK'  BY <1>1, <1>2 DEF BInv, HInv, TypeOK, bvars, Size
<1>4. tpos = 0 /\ eob = FALSE /\ lastSize = 0 /\ given = << >> /\ copied = NoCopy
  BY <1>1 DEF BInv, Undelivered
<1>5. Stretch  BY DEF BInv, TypeOK, Stretch
<1>6. 0 \in 0 .. Size  BY <1>5 DEF Stretch, Size, Line
<1>7. given = Payload(0, tpos)  BY <1>4, <1>5, <1>6, PayloadNone
<1>8. Undelivered' /\ Unread' /\ Writing' /\ Delivery' /\ alloc' \in Nat
  BY <1>1, <1>4, <1>7
  DEF BInv, Undelivered, Unread, Writing, Delivery, bvars, Payload, Size, NoCopy
<1> QED  BY <1>2, <1>3, <1>8 DEF BInv

-----------------------------------------------------------------------------
(* Delivery. *)

\* A step of the delivery moves nothing but the position, the marks and what was given.
LEMMA DeliveryShape ==
  ASSUME BInv, pc = "bloc", UNCHANGED <<hvars, choices, content, search>>,
         tpos' \in 0 .. Size, lastSize' \in 0 .. alloc, eob' \in BOOLEAN,
         given' = Payload(0, tpos'), eob' => tpos' = Size,
         copies' \in 0 .. MaxCopies,
         copied'.said # "none" => copied'.before \o copied'.bytes = Payload(0, Size),
         copied'.said = "error" => copied'.bytes = << >>
  PROVE  BInv'
<1>1. /\ UNCHANGED hvars /\ pc' = "bloc"
      /\ UNCHANGED <<unit, alloc, uri, withhttp, content, read, act, line, wasCr, fsm, httpCode,
                     from, to>>
  BY DEF hvars, choices, search
<1>2. HInv'  BY <1>1 DEF BInv, HInv, hvars, HTypeOK, Counting, Counted, Empty
<1>3. Stretch  BY DEF BInv, TypeOK, Stretch
<1>4. 0 \in 0 .. Size /\ tpos' \in 0 .. Size  BY <1>3 DEF Stretch, Size, Line
<1>5. given' \in Line  BY <1>3, <1>4, PayloadLine
<1>6. Size' = Size /\ Payload(0, tpos)' = Payload(0, tpos') /\ Payload(0, Size)' = Payload(0, Size)
  BY <1>1 DEF Size, Payload
<1>7. HTypeOK'  BY <1>2 DEF HInv
<1>8. TypeOK'  BY <1>1, <1>5, <1>6, <1>7 DEF BInv, TypeOK
<1>9. Delivery'  BY <1>1, <1>6 DEF BInv, Delivery
<1>10. Undelivered' /\ Unread' /\ Writing' /\ alloc' \in Nat
  BY <1>1 DEF BInv, Undelivered, Unread, Writing
<1> QED  BY <1>2, <1>8, <1>9, <1>10 DEF BInv

\* WBloc_next.
LEMMA DeliverKeeps ==
  ASSUME BInv, Deliver
  PROVE  BInv'
<1>1. pc = "bloc" /\ UNCHANGED <<hvars, choices, content, search, copied, copies>>
  BY DEF Deliver, NextOver, NextChunk, Delivers
<1>2. Stretch  BY DEF BInv, TypeOK, Stretch
<1>3. Size \in Nat /\ tpos \in 0 .. Size /\ alloc \in Nat \ {0} /\ copies \in 0 .. MaxCopies
  BY <1>1, <1>2 DEF BInv, TypeOK, Writing, Stretch, Size, Line
<1>4. given = Payload(0, tpos)
      /\ (copied.said # "none" => copied.before \o copied.bytes = Payload(0, Size))
      /\ (copied.said = "error" => copied.bytes = << >>)
  BY <1>1 DEF BInv, Delivery
<1>5. CASE NextOver
  <2>1. tpos' = 0 /\ lastSize' = 0 /\ given' = << >>  BY <1>5 DEF NextOver
  <2>2. Payload(0, 0) = << >>  BY <1>2, <1>3, PayloadNone
  <2>3. eob' \in BOOLEAN /\ ~ eob'  BY <1>5 DEF NextOver
  <2>4. tpos' \in 0 .. Size /\ lastSize' \in 0 .. alloc  BY <1>3, <2>1
  <2>5. UNCHANGED <<copied, copies>>  BY <1>1
  <2>6. given' = Payload(0, tpos')  BY <2>1, <2>2
  <2> QED  BY <1>1, <1>3, <1>4, <2>3, <2>4, <2>5, <2>6, DeliveryShape
<1>6. CASE NextChunk
  <2>1. /\ tpos' = tpos + Chunk /\ lastSize' = Chunk
        /\ given' = given \o Payload(tpos, tpos + Chunk)
    BY <1>6 DEF NextChunk
  <2>2. eob' => Chunk < alloc  BY <1>6 DEF NextChunk
  <2>3. Chunk \in 0 .. alloc /\ tpos + Chunk \in tpos .. Size
        /\ (Chunk < alloc => tpos + Chunk = Size)
    BY <1>3 DEF Chunk, Fewer
  <2>4. given' = Payload(0, tpos + Chunk)
    <3>1. 0 \in 0 .. Size /\ tpos \in 0 .. Size  BY <1>3
    <3> QED  BY <1>2, <1>4, <2>1, <2>3, <3>1, PayloadJoin
  <2>5. eob' \in BOOLEAN
    <3>1. eob' = (Chunk < alloc)  BY <1>6 DEF NextChunk
    <3> QED  BY <3>1
  <2>6. tpos' \in 0 .. Size /\ (eob' => tpos' = Size)  BY <1>3, <2>1, <2>2, <2>3, <2>5
  <2> QED  BY <1>1, <1>3, <1>4, <2>1, <2>3, <2>4, <2>5, <2>6, DeliveryShape
<1> QED  BY <1>5, <1>6 DEF Deliver

\* A call that ends a pass of WBloc_next and writes what was missing, if anything was.
LEMMA CopiedKeeps ==
  ASSUME BInv, NEW said \in {"ok", "error"}, NEW bytes, NEW last, Copied(said, bytes, last),
         \/ eob /\ said = "error" /\ bytes = << >> /\ last = 0
         \/ said = "ok" /\ bytes = Payload(tpos, Size) /\ last = (Size - tpos) % alloc
  PROVE  BInv'
<1>1. \/ eob /\ said = "error" /\ bytes = << >> /\ last = 0
      \/ said = "ok" /\ bytes = Payload(tpos, Size) /\ last = (Size - tpos) % alloc
  OBVIOUS
<1>2. /\ pc = "bloc" /\ UNCHANGED <<hvars, choices, content, search>>
      /\ copied' = [said |-> said, before |-> given, bytes |-> bytes]
      /\ copies < MaxCopies /\ copies' = copies + 1
      /\ tpos' = 0 /\ lastSize' = last /\ given' = << >>
  BY DEF Copied
<1>3. eob' = FALSE  BY DEF Copied
<1>4. Stretch  BY DEF BInv, TypeOK, Stretch
<1>5. Size \in Nat /\ tpos \in 0 .. Size /\ alloc \in Nat \ {0} /\ copies \in 0 .. MaxCopies
  BY <1>2, <1>4 DEF BInv, TypeOK, Writing, Stretch, Size, Line
<1>6. MaxCopies \in Nat  BY BlocAssumption
<1>7. given = Payload(0, tpos) /\ given \in Line /\ (eob => tpos = Size)
  BY <1>2 DEF BInv, Delivery, TypeOK
<1>8. last \in 0 .. alloc
  <2>1. Size - tpos \in Nat  BY <1>5
  <2>2. (Size - tpos) % alloc \in 0 .. alloc - 1  BY <1>5, <2>1, ModRange
  <2> QED  BY <1>1, <1>5, <2>2
<1>9. given \o bytes = Payload(0, Size)
  <2>1. CASE eob /\ bytes = << >>
    <3>1. given \o << >> = given
      <4> HIDE DEF Class
      <4> QED  BY <1>7, ConcatEmptySeq DEF Line
    <3> QED  BY <1>7, <2>1, <3>1
  <2>2. CASE bytes = Payload(tpos, Size)
    <3>1. 0 \in 0 .. Size /\ tpos \in 0 .. Size /\ Size \in tpos .. Size  BY <1>5
    <3> QED  BY <1>4, <1>7, <2>2, <3>1, PayloadJoin
  <2> QED  BY <1>1, <2>1, <2>2
<1>10. Payload(0, 0) = << >>  BY <1>4, <1>5, PayloadNone
<1>11. eob' \in BOOLEAN /\ ~ eob'  BY <1>3
<1>12. copied'.said = said /\ copied'.before = given /\ copied'.bytes = bytes  BY <1>2
<1>13. said = "error" => bytes = << >>  BY <1>1
<1>14. copies' \in 0 .. MaxCopies /\ tpos' \in 0 .. Size  BY <1>2, <1>5, <1>6
<1> QED
  BY <1>2, <1>8, <1>9, <1>10, <1>11, <1>12, <1>13, <1>14, DeliveryShape

\* WBloc_copyPayloadToTemporary.
LEMMA CopyKeeps ==
  ASSUME BInv, Copy
  PROVE  BInv'
<1>1. CASE CopyOver
  <2>1. eob /\ Copied("error", << >>, 0)  BY <1>1 DEF CopyOver
  <2> QED  BY <2>1, CopiedKeeps
<1>2. CASE CopyRest
  <2>1. Copied("ok", Payload(tpos, Size), (Size - tpos) % alloc)  BY <1>2 DEF CopyRest
  <2> QED  BY <2>1, CopiedKeeps
<1> QED  BY <1>1, <1>2 DEF Copy

-----------------------------------------------------------------------------
(* The theorems. *)

\* Every step keeps the invariant.
LEMMA BlocStep ==
  ASSUME BInv, [Next]_vars
  PROVE  BInv'
<1>1. CASE ReadHeader  BY <1>1, ReadHeaderKeeps
<1>2. CASE GetBlocNext
  BY <1>2, GetBlocNextKeeps, GetBlocKeeps DEF GetBlocNext
<1>3. CASE GetContent  BY <1>3, SearchKeeps, MadeKeeps DEF GetContent
<1>4. CASE Deliver  BY <1>4, DeliverKeeps
<1>5. CASE Copy  BY <1>5, CopyKeeps
<1>6. CASE UNCHANGED vars
  <2>1. UNCHANGED hvars /\ UNCHANGED bvars  BY <1>6 DEF vars
  <2>2. HInv'  BY <2>1 DEF BInv, HInv, hvars, HTypeOK, Counting, Counted, Empty
  <2>3. pc' = pc  BY <2>1 DEF hvars
  <2>4. TypeOK'  BY <2>1, <2>2, <2>3 DEF BInv, HInv, TypeOK, bvars, Size
  <2>5. Undelivered' /\ Unread' /\ Writing' /\ Delivery' /\ alloc' \in Nat
    BY <2>1, <2>3
    DEF BInv, Undelivered, Unread, Writing, Delivery, bvars, Payload, Size, NoCopy
  <2> QED  BY <2>2, <2>4, <2>5 DEF BInv
<1> QED  BY <1>1, <1>2, <1>3, <1>4, <1>5, <1>6 DEF Next

\* The inductive invariant of the pipeline: what the header has counted, what of the data
\* block was read, written and delivered, always fit together.
THEOREM BlocInvariant == Spec => []BInv
<1>1. Init => BInv  BY BlocInit
<1>2. BInv /\ [Next]_vars => BInv'  BY BlocStep
<1> QED  BY <1>1, <1>2, PTL DEF Spec

\* The header, the search and the delivery keep their types (wheader.c:2026,
\* wrecord.c:148, wbloc.c:96).
THEOREM TypeCorrect == Spec => []TypeOK
<1>1. BInv => TypeOK  BY DEF BInv
<1> QED  BY <1>1, BlocInvariant, PTL

\* Whatever the text, the length summed from the fields (wheader.c:2704) is that of the
\* bytes taken and announced, but for those of comments.
THEOREM CountedCorrect == Spec => []Counted
<1>1. BInv => Counted  BY DEF BInv, HInv
<1> QED  BY <1>1, BlocInvariant, PTL

\* The chunks of WBloc_next (wbloc.c:96) tile the payload, and it says that there are no
\* more only when all of it was given, for every size of the chunks.
THEOREM ChunksTileCorrect == Spec => []ChunksTile
<1>1. BInv => ChunksTile  BY DEF BInv, Delivery, ChunksTile
<1> QED  BY <1>1, BlocInvariant, PTL

\* A copy (wbloc.c:138) gives exactly what the chunks before it did not.
THEOREM CopyCompletesCorrect == Spec => []CopyCompletes
<1>1. BInv => CopyCompletes  BY DEF BInv, Delivery, CopyCompletes
<1> QED  BY <1>1, BlocInvariant, PTL

-----------------------------------------------------------------------------
(* The lines of a written header. *)

\* The fields of a record in the order they are written.
Heads(w) ==
  <<[key |-> <<"K">>, value |-> w.id], [key |-> <<"L">>, value |-> Number(Len(w.content))]>>
    \o w.anvls

\* What is written of the value of a field, of the field, and of all of them.
Raw(f)    == IF f.key \in {<<"K">>, <<"L">>} THEN <<"sp">> \o f.value ELSE f.value
LineOf(f) == f.key \o <<":">> \o (Raw(f) \o Crlf)
Lines(w)  == [n \in 1 .. Len(Heads(w)) |-> LineOf(Heads(w)[n])]

\* What precedes line n + 1.
Before(w, n) == <<"id", "cr", "lf">> \o Part(Lines(w), n)

\* The fields that are written.
LEMMA HeadsShape ==
  ASSUME NEW w \in Written
  PROVE  /\ Heads(w) \in Seq(Field) /\ Len(Heads(w)) = 2 + Len(w.anvls) /\ Len(w.anvls) \in Nat
         /\ Heads(w)[1] = [key |-> <<"K">>, value |-> w.id]
         /\ Heads(w)[2] = [key |-> <<"L">>, value |-> Number(Len(w.content))]
         /\ \A i \in 1 .. Len(w.anvls) : Heads(w)[i + 2] = w.anvls[i]
<1> DEFINE f == [key |-> <<"K">>, value |-> w.id]
           g == [key |-> <<"L">>, value |-> Number(Len(w.content))]
           a == w.anvls
           t == <<f, g>>
<1>1. f \in Field /\ g \in Field /\ a \in Seq(Field)
  <2>1. <<"K">> \in Line /\ <<"L">> \in Line
    <3>1. {"K", "L"} \subseteq Class  BY DEF Class, Text
    <3> HIDE DEF Class
    <3> QED  BY <3>1 DEF Line
  <2>2. w.id \in Line /\ a \in Seq(Field)  BY HeaderAssumption
  <2>3. Number(Len(w.content)) \in Line  BY NumberShape
  <2> QED  BY <2>1, <2>2, <2>3 DEF Field
<1> HIDE DEF f, g, a
<1>2. t \in Seq(Field) /\ Len(t) = 2 /\ t[1] = f /\ t[2] = g  BY <1>1
<1> HIDE DEF t
<1>3. /\ t \o a \in Seq(Field) /\ Len(t \o a) = Len(t) + Len(a)
      /\ \A i \in 1 .. Len(t) + Len(a) : (t \o a)[i] = IF i <= Len(t) THEN t[i] ELSE a[i - Len(t)]
  BY <1>1, <1>2, ConcatProperties
<1> DEFINE u == t \o a
<1> HIDE DEF u
<1>4. /\ u \in Seq(Field) /\ Len(u) = 2 + Len(a)
      /\ \A i \in 1 .. 2 + Len(a) : u[i] = IF i <= 2 THEN t[i] ELSE a[i - 2]
  BY <1>2, <1>3 DEF u
<1>5. Len(a) \in Nat  BY <1>1
<1>6. u[1] = f /\ u[2] = g
  <2>1. 1 \in 1 .. 2 + Len(a) /\ 2 \in 1 .. 2 + Len(a)  BY <1>5
  <2> QED  BY <1>2, <1>4, <2>1
<1>7. ASSUME NEW i \in 1 .. Len(a) PROVE u[i + 2] = a[i]
  <2>1. i + 2 \in 1 .. 2 + Len(a) /\ ~ (i + 2 <= 2) /\ (i + 2) - 2 = i  BY <1>5
  <2> QED  BY <1>4, <2>1
<1>8. Heads(w) = u  BY DEF Heads, u, t, f, g, a
<1> QED  BY <1>4, <1>5, <1>6, <1>7, <1>8 DEF f, g, a

\* A field that the automaton takes, the n-th of a header.
HeadProper(h, n) ==
  /\ h \in Field /\ h.key \in Line /\ h.value \in Line /\ Raw(h) \in Line
  /\ h.key # << >> /\ h.key[1] \in Text
  /\ \A i \in 1 .. Len(h.key) : h.key[i] \in Text \cup {"#"}
  /\ h.key # <<"B">> /\ (h.key = <<"L">> <=> n = 2)
  /\ OneLine(Raw(h))

\* Each of them.
LEMMA HeadShape ==
  ASSUME ProperFields, NEW w \in Written, NEW n \in 1 .. Len(Heads(w))
  PROVE  HeadProper(Heads(w)[n], n)
<1> DEFINE H == Heads(w)
           h == H[n]
           a == w.anvls
           L == Number(Len(w.content))
<1>0. /\ H \in Seq(Field) /\ Len(H) = 2 + Len(a) /\ Len(a) \in Nat /\ n \in 1 .. Len(H)
      /\ H[1] = [key |-> <<"K">>, value |-> w.id] /\ H[2] = [key |-> <<"L">>, value |-> L]
      /\ \A i \in 1 .. Len(a) : H[i + 2] = a[i]
  <2>1. Heads(w) \in Seq(Field) /\ Len(Heads(w)) = 2 + Len(w.anvls) /\ Len(w.anvls) \in Nat
    BY HeadsShape
  <2>2. /\ Heads(w)[1] = [key |-> <<"K">>, value |-> w.id]
        /\ Heads(w)[2] = [key |-> <<"L">>, value |-> Number(Len(w.content))]
        /\ \A i \in 1 .. Len(w.anvls) : Heads(w)[i + 2] = w.anvls[i]
    BY HeadsShape, Zenon
  <2> QED  BY <2>1, <2>2
<1> HIDE DEF H, a, L
<1>1. h \in Field /\ h.key \in Line /\ h.value \in Line
  <2>1. h \in Field  BY <1>0
  <2> HIDE DEF h
  <2> QED  BY <2>1 DEF Field
<1>2. <<"sp">> \in Line
  <2>1. "sp" \in Class  BY DEF Class
  <2> HIDE DEF Class
  <2> QED  BY <2>1 DEF Line
<1>3. Raw(h) \in Line  BY <1>1, <1>2, JoinedLine DEF Raw
<1>4. ASSUME NEW v \in Line, v # << >>, OneLine(v)
      PROVE  OneLine(<<"sp">> \o v)
  <2> DEFINE s == <<"sp">> \o v
  <2>1. Len(s) = 1 + Len(v) /\ Len(v) \in Nat \ {0}  BY <1>2, <1>4 DEF Line
  <2>2. s[1] = "sp" /\ \A i \in 1 .. Len(v) : s[i + 1] = v[i]  BY <1>2 DEF Line
  <2> HIDE DEF s
  <2>3. s[Len(s)] # "cr"
    <3>1. Len(v) \in 1 .. Len(v) /\ Len(s) = Len(v) + 1  BY <2>1
    <3> QED  BY <1>4, <2>2, <3>1 DEF OneLine
  <2>4. ASSUME NEW i \in 1 .. Len(s) - 1 PROVE ~ (s[i] = "cr" /\ s[i + 1] = "lf")
    <3>1. CASE i = 1  BY <2>2, <3>1
    <3>2. CASE i # 1
      <4>1. PICK j \in Nat : i = j + 1  BY <2>1
      <4>2. j \in 1 .. Len(v) - 1 /\ j \in 1 .. Len(v) /\ j + 1 \in 1 .. Len(v)
        BY <2>1, <3>2, <4>1
      <4>3. s[i] = v[j] /\ s[i + 1] = v[j + 1]  BY <2>2, <4>1, <4>2
      <4> QED  BY <1>4, <4>2, <4>3 DEF OneLine
    <3> QED  BY <3>1, <3>2
  <2> QED  BY <2>3, <2>4 DEF OneLine, s
<1>5. ASSUME n = 1 PROVE HeadProper(h, n)
  <2>1. h.key = <<"K">> /\ h.value = w.id  BY <1>0, <1>5
  <2>2. w.id \in Line /\ w.id # << >> /\ OneLine(w.id)  BY HeaderAssumption DEF ProperFields
  <2> HIDE DEF h
  <2>3. OneLine(Raw(h))  BY <1>4, <2>1, <2>2 DEF Raw
  <2>4. "K" \in Text  BY DEF Text
  <2>5. h.key # <<"L">> /\ h.key # <<"B">> /\ h.key # << >> /\ h.key[1] \in Text
        /\ \A i \in 1 .. Len(h.key) : h.key[i] \in Text \cup {"#"}
    BY <2>1, <2>4
  <2>6. n # 2  BY <1>5
  <2> QED  BY <1>1, <1>3, <2>3, <2>5, <2>6 DEF HeadProper
<1>6. ASSUME n = 2 PROVE HeadProper(h, n)
  <2>1. h.key = <<"L">> /\ h.value = L  BY <1>0, <1>6
  <2>2. L \in Line /\ L # << >> /\ \A i \in 1 .. Len(L) : L[i] \notin {"sp", "cr", "lf"}
    BY NumberShape DEF L
  <2> HIDE DEF h, L
  <2>3. Len(L) \in Nat  BY <2>2 DEF Line
  <2>4. OneLine(L)  BY <2>2, <2>3 DEF OneLine
  <2>5. OneLine(Raw(h))  BY <1>4, <2>1, <2>2, <2>4 DEF Raw
  <2>6. "L" \in Text  BY DEF Text
  <2>7. h.key # <<"B">> /\ h.key # << >> /\ h.key[1] \in Text
        /\ \A i \in 1 .. Len(h.key) : h.key[i] \in Text \cup {"#"}
    BY <2>1, <2>6
  <2> QED  BY <1>1, <1>3, <1>6, <2>1, <2>5, <2>7 DEF HeadProper
<1>7. ASSUME n > 2 PROVE HeadProper(h, n)
  <2> DEFINE i == n - 2
  <2>1. i \in 1 .. Len(a) /\ i + 2 = n  BY <1>0, <1>7
  <2>2. h = a[i]  BY <1>0, <2>1
  <2> HIDE DEF i, h
  <2>3. Named(h.key) /\ OneLine(h.value)  BY <2>1, <2>2 DEF ProperFields, a
  <2>4. Raw(h) = h.value  BY <2>3 DEF Raw, Named
  <2>5. n # 2 /\ h.key # <<"L">>  BY <1>0, <1>7, <2>3, SMTT(30) DEF Named
  <2>6. h.key # << >> /\ h.key[1] \in Text /\ h.key # <<"B">>
        /\ \A k \in 1 .. Len(h.key) : h.key[k] \in Text \cup {"#"}
    BY <2>3 DEF Named
  <2> QED  BY <1>1, <1>3, <2>3, <2>4, <2>5, <2>6 DEF HeadProper
<1>8. n = 1 \/ n = 2 \/ n > 2  BY <1>0
<1> QED  BY <1>5, <1>6, <1>7, <1>8 DEF H

\* Lines may be joined in any order of the joins.
LEMMA LinesJoined ==
  ASSUME NEW s \in Line, NEW t \in Line, NEW u \in Line
  PROVE  (s \o t) \o u = s \o (t \o u)
BY ConcatAssociative, SMTT(30) DEF Line

\* A join that a prover does not look into, and the same of it.
Join(s, t) == s \o t

\* Joins of lines may be taken in any order.
LEMMA JoinsJoined ==
  ASSUME NEW s \in Line, NEW t \in Line, NEW u \in Line
  PROVE  Join(Join(s, t), u) = Join(s, Join(t, u))
BY LinesJoined DEF Join

\* Two lines joined, byte by byte.
LEMMA JoinedShape ==
  ASSUME NEW s \in Line, NEW t \in Line
  PROVE  /\ s \o t \in Line /\ Len(s \o t) = Len(s) + Len(t)
         /\ Len(s) \in Nat /\ Len(t) \in Nat
         /\ \A i \in 1 .. Len(s) : (s \o t)[i] = s[i]
         /\ \A i \in 1 .. Len(t) : (s \o t)[Len(s) + i] = t[i]
<1> DEFINE u == s \o t
<1>1. /\ u \in Line /\ Len(u) = Len(s) + Len(t) /\ Len(s) \in Nat /\ Len(t) \in Nat
      /\ \A i \in 1 .. Len(s) + Len(t) : u[i] = IF i <= Len(s) THEN s[i] ELSE t[i - Len(s)]
  BY ConcatProperties DEF Line
<1> HIDE DEF u
<1>2. \A i \in 1 .. Len(s) : u[i] = s[i]  BY <1>1
<1>3. ASSUME NEW i \in 1 .. Len(t) PROVE u[Len(s) + i] = t[i]
  <2>1. /\ Len(s) + i \in 1 .. Len(s) + Len(t) /\ ~ (Len(s) + i <= Len(s))
        /\ (Len(s) + i) - Len(s) = i
    BY <1>1
  <2> QED  BY <1>1, <2>1
<1> QED  BY <1>1, <1>2, <1>3 DEF u

\* The end of a line.
LEMMA CrlfShape ==
  Crlf \in Line /\ Len(Crlf) = 2 /\ Crlf[1] = "cr" /\ Crlf[2] = "lf"
BY Punctuation DEF Crlf

\* What follows the colon in the line of field h.
Rest(h) == Raw(h) \o Crlf

\* It is two bytes longer than what is written of the value.
LEMMA RestShape ==
  ASSUME NEW h, Raw(h) \in Line
  PROVE  /\ Rest(h) \in Line /\ Len(Rest(h)) = Len(Raw(h)) + 2 /\ Len(Raw(h)) \in Nat
         /\ \A i \in 1 .. Len(Raw(h)) : Rest(h)[i] = Raw(h)[i]
         /\ Rest(h)[Len(Raw(h)) + 1] = "cr" /\ Rest(h)[Len(Raw(h)) + 2] = "lf"
<1> DEFINE r == Raw(h)
<1>1. r \in Line  OBVIOUS
<1> HIDE DEF r
<1>2. /\ r \o Crlf \in Line /\ Len(r \o Crlf) = Len(r) + Len(Crlf) /\ Len(r) \in Nat
      /\ \A i \in 1 .. Len(r) : (r \o Crlf)[i] = r[i]
      /\ \A i \in 1 .. Len(Crlf) : (r \o Crlf)[Len(r) + i] = Crlf[i]
  BY <1>1, CrlfShape, JoinedShape
<1>3. (r \o Crlf)[Len(r) + 1] = "cr" /\ (r \o Crlf)[Len(r) + 2] = "lf"
  <2>1. 1 \in 1 .. Len(Crlf) /\ 2 \in 1 .. Len(Crlf)  BY CrlfShape
  <2> QED  BY <1>2, <2>1, CrlfShape
<1> QED  BY <1>2, <1>3, CrlfShape DEF Rest, r

\* The line of a field, byte by byte.
LEMMA LineShape ==
  ASSUME NEW h, h.key \in Line, Raw(h) \in Line
  PROVE  /\ LineOf(h) \in Line /\ Len(h.key) \in Nat /\ Len(Rest(h)) \in Nat
         /\ Len(LineOf(h)) = Len(h.key) + 1 + Len(Rest(h))
         /\ \A i \in 1 .. Len(h.key) : LineOf(h)[i] = h.key[i]
         /\ LineOf(h)[Len(h.key) + 1] = ":"
         /\ \A i \in 1 .. Len(Rest(h)) : LineOf(h)[Len(h.key) + 1 + i] = Rest(h)[i]
<1> DEFINE k == h.key
           r == Rest(h)
           p == k \o <<":">>
           l == p \o r
<1>1. k \in Line /\ r \in Line /\ Len(k) \in Nat /\ Len(r) \in Nat /\ <<":">> \in Line
  <2>1. k \in Line /\ r \in Line /\ <<":">> \in Line  BY RestShape, Punctuation
  <2> QED  BY <2>1 DEF Line
<1>2. LineOf(h) = l  BY DEF LineOf, Rest
<1> HIDE DEF k, r
<1>3. /\ p \in Line /\ Len(p) = Len(k) + 1 /\ \A i \in 1 .. Len(k) : p[i] = k[i]
      /\ p[Len(k) + 1] = ":"
  <2> DEFINE q == <<":">>
  <2>1. q \in Line /\ Len(q) = 1 /\ q[1] = ":"  BY <1>1
  <2> HIDE DEF q
  <2>2. /\ k \o q \in Line /\ Len(k \o q) = Len(k) + Len(q)
        /\ \A i \in 1 .. Len(k) : (k \o q)[i] = k[i]
        /\ \A i \in 1 .. Len(q) : (k \o q)[Len(k) + i] = q[i]
    BY <1>1, <2>1, JoinedShape, ZenonT(60)
  <2>3. (k \o q)[Len(k) + 1] = q[1]  BY <2>1, <2>2
  <2> QED  BY <2>1, <2>2, <2>3 DEF q
<1> HIDE DEF p
<1>4. /\ l \in Line /\ Len(l) = Len(p) + Len(r)
      /\ \A i \in 1 .. Len(p) : l[i] = p[i] /\ \A j \in 1 .. Len(r) : l[Len(p) + j] = r[j]
  <2>1. /\ p \o r \in Line /\ Len(p \o r) = Len(p) + Len(r)
        /\ \A i \in 1 .. Len(p) : (p \o r)[i] = p[i]
        /\ \A i \in 1 .. Len(r) : (p \o r)[Len(p) + i] = r[i]
    BY <1>1, <1>3, JoinedShape
  <2> QED  BY <2>1
<1> HIDE DEF l
<1>5. \A i \in 1 .. Len(k) : l[i] = k[i]
  <2>1. \A i \in 1 .. Len(k) : i \in 1 .. Len(p)  BY <1>1, <1>3
  <2> QED  BY <1>3, <1>4, <2>1
<1>6. l[Len(k) + 1] = ":"
  <2>1. Len(k) + 1 \in 1 .. Len(p)  BY <1>1, <1>3
  <2> QED  BY <1>3, <1>4, <2>1
<1>7. \A j \in 1 .. Len(r) : l[Len(k) + 1 + j] = r[j]
  <2>1. 1 \in 1 .. Len(p)  BY <1>1, <1>3
  <2> QED  BY <1>3, <1>4, <2>1
<1>8. Len(l) = Len(k) + 1 + Len(r)  BY <1>3, <1>4
<1> QED  BY <1>1, <1>2, <1>4, <1>5, <1>6, <1>7, <1>8 DEF k, r

\* The lines of a header, one for each of its fields.
LEMMA LinesShape ==
  ASSUME ProperFields, NEW w \in Written
  PROVE  /\ Lines(w) \in Seq(Line) /\ Len(Lines(w)) = Len(Heads(w)) /\ Len(Heads(w)) \in Nat
         /\ \A n \in 1 .. Len(Heads(w)) : Lines(w)[n] = LineOf(Heads(w)[n])
<1> DEFINE H == Heads(w)
           N == Len(H)
<1>1. N \in Nat  BY HeadsShape
<1>2. ASSUME NEW n \in 1 .. N PROVE LineOf(H[n]) \in Line
  <2>1. HeadProper(Heads(w)[n], n)  BY HeadShape
  <2> DEFINE h == Heads(w)[n]
  <2> HIDE DEF h
  <2>2. h.key \in Line /\ Raw(h) \in Line  BY <2>1 DEF HeadProper, h
  <2>3. LineOf(h) \in Line  BY <2>2, LineShape
  <2> QED  BY <2>3 DEF h
<1> DEFINE l == [n \in 1 .. N |-> LineOf(H[n])]
<1> HIDE DEF H
<1>3. l \in Seq(Line) /\ Len(l) = N /\ \A n \in 1 .. N : l[n] = LineOf(H[n])
  BY <1>1, <1>2
<1>4. Lines(w) = l  BY DEF Lines, H
<1> HIDE DEF l
<1> QED  BY <1>1, <1>3, <1>4 DEF H

\* Bytes joined one by one.
LEMMA BytesInOrder ==
  ASSUME NEW i \in Class, NEW j \in Class, NEW k \in Class
  PROVE  <<i>> \o <<j>> = <<i, j>> /\ <<i, j>> \o <<k>> = <<i, j, k>>
<1> HIDE DEF Class
<1>1. <<i>> \o <<j>> = <<i, j>>
  <2> DEFINE s == <<i>> \o <<j>>
             t == <<i, j>>
  <2>1. s \in Seq(Class) /\ Len(s) = 2 /\ s[1] = i /\ s[2] = j  OBVIOUS
  <2>2. t \in Seq(Class) /\ Len(t) = 2 /\ t[1] = i /\ t[2] = j  OBVIOUS
  <2> HIDE DEF s, t
  <2>3. \A n \in 1 .. Len(s) : s[n] = t[n]
    <3>1. \A n \in 1 .. 2 : n = 1 \/ n = 2  OBVIOUS
    <3> QED  BY <2>1, <2>2, <3>1
  <2>4. s = t  BY <2>1, <2>2, <2>3, SeqEqual
  <2> QED  BY <2>4 DEF s, t
<1>2. <<i, j>> \o <<k>> = <<i, j, k>>
  <2> DEFINE s == <<i, j>> \o <<k>>
             t == <<i, j, k>>
  <2>1. s \in Seq(Class) /\ Len(s) = 3 /\ s[1] = i /\ s[2] = j /\ s[3] = k  OBVIOUS
  <2>2. t \in Seq(Class) /\ Len(t) = 3 /\ t[1] = i /\ t[2] = j /\ t[3] = k  OBVIOUS
  <2> HIDE DEF s, t
  <2>3. \A n \in 1 .. Len(s) : s[n] = t[n]
    <3>1. \A n \in 1 .. 3 : n = 1 \/ n = 2 \/ n = 3  OBVIOUS
    <3> QED  BY <2>1, <2>2, <3>1
  <2>4. s = t  BY <2>1, <2>2, <2>3, SeqEqual, SMTT(30)
  <2> QED  BY <2>4 DEF s, t
<1> QED  BY <1>1, <1>2

\* The line of a field known by name, as it is written.
LEMMA KnownLine ==
  ASSUME NEW k \in {"K", "L"}, NEW v \in Line, NEW t \in Line
  PROVE  t \o <<k, ":", "sp">> \o v \o Crlf = t \o LineOf([key |-> <<k>>, value |-> v])
<1> DEFINE p == <<k, ":", "sp">>
           q == <<k>> \o <<":">>
           s == <<"sp">>
           z == Crlf
<1>1. p \in Line /\ q \in Line /\ s \in Line /\ z \in Line /\ q \o s = p
  <2>1. k \in Class /\ ":" \in Class /\ "sp" \in Class  BY DEF Class, Text
  <2>2. q = <<k, ":">> /\ <<k, ":">> \o <<"sp">> = <<k, ":", "sp">>  BY <2>1, BytesInOrder
  <2> HIDE DEF Class
  <2>4. <<k, ":", "sp">> \in Line /\ <<k, ":">> \in Line /\ <<"sp">> \in Line
    BY <2>1 DEF Line
  <2> QED  BY <2>2, <2>4, CrlfShape
<1>2. LineOf([key |-> <<k>>, value |-> v]) = q \o ((s \o v) \o z)
  <2> DEFINE h == [key |-> <<k>>, value |-> v]
  <2>1. h.key = <<k>> /\ h.value = v /\ h.key \in {<<"K">>, <<"L">>}  OBVIOUS
  <2> HIDE DEF h
  <2>2. Raw(h) = s \o v  BY <2>1 DEF Raw
  <2>3. LineOf(h) = q \o ((s \o v) \o z)  BY <2>1, <2>2 DEF LineOf
  <2> QED  BY <2>3 DEF h
<1>3. t \o <<k, ":", "sp">> \o v \o Crlf = ((t \o p) \o v) \o z  OBVIOUS
<1> HIDE DEF p, q, s, z
<1> DEFINE x == t \o p
           y == v \o z
<1>4. x \in Line /\ y \in Line /\ x = t \o p /\ y = v \o z  BY <1>1, JoinedLine
<1>5. (s \o v) \o z = s \o y
  <2>0. s \in Line /\ v \in Line /\ z \in Line  BY <1>1
  <2>1. Join(Join(s, v), z) = Join(s, Join(v, z))  BY <2>0, JoinsJoined
  <2> QED  BY <2>1 DEF Join
<1> HIDE DEF x, y
<1>10. p \in Line /\ q \in Line /\ s \in Line /\ z \in Line /\ x \in Line /\ y \in Line
  BY <1>1, <1>4
<1>6. q \o (s \o y) = (q \o s) \o y
  <2>0. q \in Line /\ s \in Line /\ y \in Line  BY <1>10
  <2>1. Join(Join(q, s), y) = Join(q, Join(s, y))  BY <2>0, JoinsJoined
  <2> QED  BY <2>1 DEF Join
<1>7. (x \o v) \o z = x \o y
  <2>0. x \in Line /\ v \in Line /\ z \in Line  BY <1>10
  <2>1. Join(Join(x, v), z) = Join(x, Join(v, z))  BY <2>0, JoinsJoined
  <2> QED  BY <1>4, <2>1 DEF Join
<1>8. x \o y = t \o (p \o y)
  <2>0. t \in Line /\ p \in Line /\ y \in Line  BY <1>10
  <2>1. Join(Join(t, p), y) = Join(t, Join(p, y))  BY <2>0, JoinsJoined, SMTT(30)
  <2> QED  BY <1>4, <2>1 DEF Join
<1> QED  BY <1>1, <1>2, <1>3, <1>4, <1>5, <1>6, <1>7, <1>8

\* The lines of the other fields.
LEMMA OtherLines ==
  ASSUME ProperFields, NEW w \in Written
  PROVE  WriteAnvls(w.anvls) = FlattenSeq([n \in 1 .. Len(w.anvls) |-> LineOf(w.anvls[n])])
<1> DEFINE a == w.anvls
           f(n) == a[n].key \o <<":">> \o a[n].value \o Crlf
           g(n) == LineOf(a[n])
<1>1. a \in Seq(Field)  BY HeaderAssumption
<1>2. \A n \in 1 .. Len(a) : Named(a[n].key)  BY DEF ProperFields
<1> HIDE DEF a
<1>3. ASSUME NEW n \in 1 .. Len(a) PROVE f(n) = g(n)
  <2> DEFINE h == a[n]
  <2>1. h \in Field  BY <1>1
  <2>2. Named(h.key)  BY <1>2
  <2>3. f(n) = h.key \o <<":">> \o h.value \o Crlf /\ g(n) = LineOf(h)  OBVIOUS
  <2> HIDE DEF h, f, g
  <2> DEFINE k == h.key \o <<":">>
             v == h.value
             z == Crlf
  <2>4. k \in Line /\ v \in Line /\ z \in Line
    <3>1. h.key \in Line /\ h.value \in Line  BY <2>1 DEF Field
    <3> QED  BY <3>1, Punctuation, JoinedLine
  <2>5. Raw(h) = v  BY <2>2 DEF Raw, Named
  <2>6. f(n) = (k \o v) \o z  BY <2>3
  <2>7. g(n) = k \o (v \o z)  BY <2>3, <2>5 DEF LineOf
  <2> HIDE DEF k, v, z
  <2> QED  BY <2>4, <2>6, <2>7, LinesJoined
<1>4. [n \in 1 .. Len(a) |-> f(n)] = [n \in 1 .. Len(a) |-> g(n)]
  <2> HIDE DEF f, g
  <2> QED  BY <1>3
<1> QED  BY <1>4 DEF WriteAnvls, a

\* What precedes a line is a line, and grows by the lines.
LEMMA BeforeShape ==
  ASSUME ProperFields, NEW w \in Written, NEW n \in 0 .. Len(Heads(w))
  PROVE  /\ Before(w, n) \in Line /\ Len(Before(w, n)) \in Nat
         /\ n = 0 => Before(w, n) = <<"id", "cr", "lf">> /\ Len(Before(w, n)) = 3
         /\ n + 1 <= Len(Heads(w)) =>
              Before(w, n + 1) = Before(w, n) \o LineOf(Heads(w)[n + 1])
<1> DEFINE L == Lines(w)
           N == Len(Heads(w))
           v == <<"id", "cr", "lf">>
<1>1. L \in Seq(Line) /\ Len(L) = N /\ N \in Nat /\ n \in 0 .. N
      /\ \A i \in 1 .. N : L[i] = LineOf(Heads(w)[i])
  BY LinesShape
<1>2. v \in Line /\ Len(v) = 3
  <2>1. {"id", "cr", "lf"} \subseteq Class  BY DEF Class, Text
  <2> HIDE DEF Class
  <2> QED  BY <2>1 DEF Line
<1>3. \A i \in 0 .. N : Before(w, i) = v \o Part(L, i)  BY DEF Before
<1>11. \A i \in 1 .. N : LineOf(Heads(w)[i]) = L[i]  BY <1>1
<1> HIDE DEF L, N, v
<1>4. ASSUME NEW i \in 0 .. N PROVE Part(L, i) \in Line
  <2>1. L \in Seq(Seq(Class)) /\ i \in 0 .. Len(L)  BY <1>1 DEF Line
  <2> HIDE DEF Class
  <2> QED  BY <2>1, PartTyped DEF Line
<1>5. Before(w, n) \in Line  BY <1>1, <1>2, <1>3, <1>4, JoinedLine
<1>6. Len(Before(w, n)) \in Nat  BY <1>5 DEF Line
<1>7. ASSUME n = 0 PROVE Before(w, n) = v
  <2>1. L \in Seq(Seq(Class))  BY <1>1 DEF Line
  <2>2. Part(L, 0) = << >>
    <3> HIDE DEF Class
    <3> QED  BY <2>1, PartEnds
  <2>3. v \o << >> = v
    <3> HIDE DEF Class
    <3> QED  BY <1>2, ConcatEmptySeq DEF Line
  <2> QED  BY <1>1, <1>3, <1>7, <2>2, <2>3
<1>8. ASSUME n + 1 <= N PROVE Before(w, n + 1) = Before(w, n) \o L[n + 1]
  <2>1. L \in Seq(Seq(Class)) /\ n \in Nat /\ n + 1 <= Len(L) /\ n + 1 \in 0 .. N
        /\ n + 1 \in 1 .. N
    BY <1>1, <1>8 DEF Line
  <2>2. Part(L, n + 1) = Part(L, n) \o L[n + 1]
    <3> HIDE DEF Class
    <3> QED  BY <2>1, PartMore
  <2>3. Part(L, n) \in Line /\ L[n + 1] \in Line  BY <1>1, <1>4, <2>1
  <2>4. (v \o Part(L, n)) \o L[n + 1] = v \o (Part(L, n) \o L[n + 1])
    BY <1>2, <2>3, LinesJoined
  <2> QED  BY <1>1, <1>3, <2>1, <2>2, <2>4
<1>9. n + 1 <= N => n + 1 \in 1 .. N  BY <1>1
<1> QED  BY <1>2, <1>5, <1>6, <1>7, <1>8, <1>9, <1>11 DEF v, N

\* The lines of the fields after the first two are joined to those of these two.
LEMMA LinesAfter ==
  ASSUME NEW L \in Seq(Line), NEW M \in Seq(Line), Len(L) = 2 + Len(M),
         \A i \in 1 .. Len(M) : L[i + 2] = M[i]
  PROVE  FlattenSeq(L) = (L[1] \o L[2]) \o FlattenSeq(M)
<1> DEFINE u == L[1] \o L[2]
           T == {n \in Nat : n <= Len(M) => Part(L, n + 2) = u \o Part(M, n)}
<1>1. /\ Len(M) \in Nat /\ Len(L) = 2 + Len(M) /\ L \in Seq(Seq(Class)) /\ M \in Seq(Seq(Class))
      /\ L[1] \in Line /\ L[2] \in Line /\ \A i \in 1 .. Len(M) : M[i] \in Line
  <2>1. Len(M) \in Nat  OBVIOUS
  <2>2. 1 \in 1 .. Len(L) /\ 2 \in 1 .. Len(L)  BY <2>1
  <2> QED  BY <2>1, <2>2 DEF Line
<1>2. u \in Line  BY <1>1, JoinedLine
<1>3. ASSUME NEW n \in 0 .. Len(M) PROVE Part(M, n) \in Line
  <2> HIDE DEF Class
  <2> QED  BY <1>1, PartTyped DEF Line
<1>4. Part(L, 2) = u /\ Part(M, 0) = << >> /\ Part(M, Len(M)) = FlattenSeq(M)
      /\ Part(L, Len(L)) = FlattenSeq(L)
  <2> HIDE DEF Class
  <2>1. Part(L, 0) = << >> /\ Part(M, 0) = << >> /\ Part(M, Len(M)) = FlattenSeq(M)
        /\ Part(L, Len(L)) = FlattenSeq(L)
    BY <1>1, PartEnds
  <2>2. Part(L, 1) = Part(L, 0) \o L[1]
    <3>1. 0 \in Nat /\ 0 + 1 <= Len(L) /\ 0 + 1 = 1  BY <1>1
    <3>2. Part(L, 0 + 1) = Part(L, 0) \o L[0 + 1]  BY <1>1, <3>1, PartMore
    <3> QED  BY <3>1, <3>2
  <2>3. Part(L, 2) = Part(L, 1) \o L[2]
    <3>1. 1 \in Nat /\ 1 + 1 <= Len(L) /\ 1 + 1 = 2  BY <1>1
    <3>2. Part(L, 1 + 1) = Part(L, 1) \o L[1 + 1]  BY <1>1, <3>1, PartMore
    <3> QED  BY <3>1, <3>2
  <2>4. << >> \o L[1] = L[1]  BY <1>1, ConcatEmptySeq DEF Line
  <2> QED  BY <2>1, <2>2, <2>3, <2>4
<1>5. 0 \in T
  <2>1. u \o << >> = u
    <3> HIDE DEF Class, u
    <3> QED  BY <1>2, ConcatEmptySeq DEF Line
  <2>2. 0 + 2 = 2  OBVIOUS
  <2> QED  BY <1>4, <2>1, <2>2
<1> HIDE DEF u
<1>6. ASSUME NEW n \in Nat, n \in T PROVE n + 1 \in T
  <2>1. ASSUME n + 1 <= Len(M) PROVE Part(L, n + 1 + 2) = u \o Part(M, n + 1)
    <3> DEFINE m == n + 2
    <3>1. m \in Nat /\ m + 1 <= Len(L) /\ m + 1 = n + 1 + 2 /\ n \in 0 .. Len(M)
          /\ n + 1 \in 1 .. Len(M) /\ m + 1 = (n + 1) + 2 /\ n <= Len(M)
      <4>1. PICK l \in Nat : l = Len(M)  BY <1>1
      <4>2. Len(L) = 2 + l /\ n + 1 <= l  BY <1>1, <2>1, <4>1
      <4>3. /\ m \in Nat /\ m + 1 <= 2 + l /\ m + 1 = n + 1 + 2 /\ n \in 0 .. l
            /\ n + 1 \in 1 .. l /\ m + 1 = (n + 1) + 2 /\ n <= l
        BY <4>2
      <4> QED  BY <4>1, <4>2, <4>3
    <3>2. Part(L, m) = u \o Part(M, n)  BY <1>6, <3>1
    <3> HIDE DEF m
    <3>3. Part(L, m + 1) = Part(L, m) \o L[m + 1]
      <4> HIDE DEF Class
      <4> QED  BY <1>1, <3>1, PartMore
    <3>4. Part(M, n + 1) = Part(M, n) \o M[n + 1]
      <4> HIDE DEF Class
      <4> QED  BY <1>1, <2>1, PartMore
    <3>5. L[m + 1] = M[n + 1]  BY <3>1
    <3> DEFINE p == Part(M, n)
               y == M[n + 1]
    <3>6. p \in Line /\ y \in Line  BY <1>1, <1>3, <3>1
    <3> HIDE DEF p, y
    <3>7. (u \o p) \o y = u \o (p \o y)  BY <1>2, <3>6, LinesJoined
    <3> QED  BY <3>1, <3>2, <3>3, <3>4, <3>5, <3>7 DEF p, y
  <2> QED  BY <2>1
<1>7. \A n \in Nat : n \in T
  <2> HIDE DEF T
  <2> QED  BY <1>5, <1>6, Induction
<1>8. Len(M) \in T /\ Len(M) + 2 = Len(L)  BY <1>1, <1>7
<1>9. Part(L, Len(L)) = u \o Part(M, Len(M))  BY <1>1, <1>8
<1> QED  BY <1>4, <1>9 DEF u

\* A header is written line by line, with an empty line at its end.
LEMMA HeaderShape ==
  ASSUME ProperFields, NEW w \in Written
  PROVE  WriteHeader(w) = Before(w, Len(Heads(w))) \o Crlf
<1> DEFINE L == Lines(w)
           a == w.anvls
           M == [n \in 1 .. Len(a) |-> LineOf(a[n])]
           v == <<"id", "cr", "lf">>
           number == Number(Len(w.content))
           i == w.id
           A == WriteAnvls(a)
<1>1. /\ L \in Seq(Line) /\ Len(L) = 2 + Len(a) /\ Len(a) \in Nat
      /\ L[1] = LineOf([key |-> <<"K">>, value |-> i])
      /\ L[2] = LineOf([key |-> <<"L">>, value |-> number])
      /\ \A n \in 1 .. Len(a) : L[n + 2] = LineOf(a[n])
  <2> DEFINE H == Heads(w)
  <2>1. L \in Seq(Line) /\ Len(L) = Len(H) /\ \A n \in 1 .. Len(H) : L[n] = LineOf(H[n])
    BY LinesShape
  <2>2. /\ Len(H) = 2 + Len(a) /\ Len(a) \in Nat
        /\ H[1] = [key |-> <<"K">>, value |-> i] /\ H[2] = [key |-> <<"L">>, value |-> number]
        /\ \A n \in 1 .. Len(a) : H[n + 2] = a[n]
    <3>1. Len(H) = 2 + Len(a) /\ Len(a) \in Nat  BY HeadsShape
    <3>2. /\ H[1] = [key |-> <<"K">>, value |-> i] /\ H[2] = [key |-> <<"L">>, value |-> number]
          /\ \A n \in 1 .. Len(a) : H[n + 2] = a[n]
      BY HeadsShape, Zenon
    <3> QED  BY <3>1, <3>2
  <2> HIDE DEF L, H, a, i, number
  <2>3. 1 \in 1 .. Len(H) /\ 2 \in 1 .. Len(H)  BY <2>2
  <2>4. \A n \in 1 .. Len(a) : n + 2 \in 1 .. Len(H)  BY <2>2
  <2>5. \A n \in 1 .. Len(a) : L[n + 2] = LineOf(a[n])  BY <2>1, <2>2, <2>4
  <2>6. L[1] = LineOf(H[1]) /\ L[2] = LineOf(H[2])  BY <2>1, <2>3
  <2> QED  BY <2>1, <2>2, <2>5, <2>6
<1>2. A = FlattenSeq(M)  BY OtherLines
<1>3. i \in Line /\ number \in Line /\ A \in Line /\ v \in Line /\ Crlf \in Line
  <2>1. i \in Line /\ a \in Seq(Field)  BY HeaderAssumption
  <2>2. A \in Line  BY <2>1, AnvlsLine
  <2>3. number \in Line  BY NumberShape
  <2>4. {"id", "cr", "lf"} \subseteq Class  BY DEF Class, Text
  <2>5. number \in Line /\ v \in Line
    <3> HIDE DEF Class, number
    <3> QED  BY <2>3, <2>4 DEF Line
  <2> QED  BY <2>1, <2>2, <2>5, Punctuation
<1>4. <<"id">> \o Crlf = v
  <2>1. "id" \in Class /\ "cr" \in Class /\ "lf" \in Class  BY DEF Class, Text
  <2>2. <<"id">> \o <<"cr">> = <<"id", "cr">> /\ <<"id", "cr">> \o <<"lf">> = v
        /\ <<"cr">> \o <<"lf">> = Crlf
    BY <2>1, BytesInOrder DEF Crlf
  <2>3. <<"id">> \in Line /\ <<"cr">> \in Line /\ <<"lf">> \in Line
    <3> HIDE DEF Class
    <3> QED  BY <2>1 DEF Line
  <2>4. (<<"id">> \o <<"cr">>) \o <<"lf">> = <<"id">> \o (<<"cr">> \o <<"lf">>)
    BY <2>3, LinesJoined
  <2> QED  BY <2>2, <2>4
<1>5. WriteHeader(w) = ((((((((v \o <<"K", ":", "sp">>) \o i) \o Crlf)
                         \o <<"L", ":", "sp">>) \o number) \o Crlf) \o A) \o Crlf)
  BY <1>4 DEF WriteHeader
<1>6. FlattenSeq(L) = (L[1] \o L[2]) \o A
  <2> DEFINE K == M
  <2>1. K \in Seq(Line) /\ Len(K) = Len(a) /\ \A n \in 1 .. Len(a) : K[n] = L[n + 2]
    <3>1. \A n \in 1 .. Len(a) : L[n + 2] \in Line
      <4>1. \A n \in 1 .. Len(a) : n + 2 \in 1 .. Len(L)  BY <1>1
      <4> HIDE DEF L
      <4> QED  BY <1>1, <4>1
    <3>2. \A n \in 1 .. Len(a) : LineOf(a[n]) = L[n + 2]  BY <1>1
    <3> HIDE DEF L, a
    <3> QED  BY <1>1, <3>1, <3>2
  <2> HIDE DEF K, L, a
  <2>2. FlattenSeq(L) = (L[1] \o L[2]) \o FlattenSeq(K)  BY <1>1, <2>1, LinesAfter
  <2> QED  BY <1>2, <2>2 DEF K
<1>7. Before(w, Len(Heads(w))) = v \o FlattenSeq(L)
  <2>1. L \in Seq(Seq(Class)) /\ Len(Heads(w)) = Len(L)  BY LinesShape DEF Line
  <2>2. Part(L, Len(L)) = FlattenSeq(L)
    <3> HIDE DEF Class, L
    <3> QED  BY <2>1, PartEnds
  <2> QED  BY <2>1, <2>2 DEF Before
<1> DEFINE x == L[1]
           y == L[2]
           p == v \o x
<1>8. x \in Line /\ y \in Line
  <2>1. 1 \in 1 .. Len(L) /\ 2 \in 1 .. Len(L)  BY <1>1
  <2> HIDE DEF L
  <2> QED  BY <1>1, <2>1
<1>9. ((v \o <<"K", ":", "sp">>) \o i) \o Crlf = p
  <2>1. x = LineOf([key |-> <<"K">>, value |-> i])  BY <1>1
  <2> HIDE DEF L, v, i, x
  <2>2. ((v \o <<"K", ":", "sp">>) \o i) \o Crlf = v \o LineOf([key |-> <<"K">>, value |-> i])
    BY <1>3, KnownLine
  <2> QED  BY <2>1, <2>2
<1>10. p \in Line  BY <1>3, <1>8, JoinedLine
<1>11. ((p \o <<"L", ":", "sp">>) \o number) \o Crlf = p \o y
  <2> HIDE DEF p
  <2> QED  BY <1>1, <1>3, <1>10, KnownLine
<1>12. WriteHeader(w) = ((p \o y) \o A) \o Crlf
  <2> HIDE DEF p, y, v, A, number, i
  <2> QED  BY <1>5, <1>9, <1>11
<1>13. v \o ((x \o y) \o A) = (p \o y) \o A
  <2> HIDE DEF v, A, x, y
  <2> DEFINE q == x \o y
  <2>0. v \in Line /\ x \in Line /\ y \in Line /\ A \in Line  BY <1>3, <1>8
  <2>1. q \in Line  BY <2>0, JoinedLine
  <2>2. Join(Join(v, x), y) = Join(v, Join(x, y))  BY <2>0, JoinsJoined
  <2> HIDE DEF q
  <2>3. Join(Join(v, q), A) = Join(v, Join(q, A))  BY <2>0, <2>1, JoinsJoined
  <2> QED  BY <2>2, <2>3 DEF q, p, Join
<1> HIDE DEF p, x, y, v, A, L
<1> QED  BY <1>6, <1>7, <1>12, <1>13 DEF x, y

\* A record begins with the lines of its header, however many of them.
LEMMA StoredBegins ==
  ASSUME ProperFields, NEW w \in Written, NEW n \in 0 .. Len(Heads(w))
  PROVE  IsPrefix(Before(w, n), StoreRecord(w))
<1> DEFINE L == Lines(w)
           N == Len(Heads(w))
           v == <<"id", "cr", "lf">>
           x == w.content
<1>1. L \in Seq(Seq(Class)) /\ Len(L) = N /\ N \in Nat /\ n \in 0 .. N /\ N \in 0 .. N
  <2>1. L \in Seq(Line) /\ Len(L) = N /\ N \in Nat  BY LinesShape
  <2> QED  BY <2>1 DEF Line
<1>2. v \in Line /\ x \in Line /\ Crlf \in Line
  <2>1. {"id", "cr", "lf"} \subseteq Class  BY DEF Class, Text
  <2>2. v \in Line
    <3> HIDE DEF Class
    <3> QED  BY <2>1 DEF Line
  <2> QED  BY <2>2, HeaderAssumption, Punctuation
<1>3. Before(w, n) = v \o Part(L, n) /\ Before(w, N) = v \o Part(L, N)  BY DEF Before
<1>4. StoreRecord(w) = (((Before(w, N) \o Crlf) \o x) \o Crlf) \o Crlf
  BY HeaderShape DEF StoreRecord
<1> DEFINE p == Before(w, N)
<1>9. Before(w, n) \in Line /\ p \in Line
  <2>1. \A m \in 0 .. Len(Heads(w)) : Before(w, m) \in Line  BY BeforeShape
  <2> QED  BY <1>1, <2>1
<1> HIDE DEF L, N, v, x
<1>5. Part(L, n) \in Line /\ Part(L, N) \in Line
  <2> HIDE DEF Class
  <2> QED  BY <1>1, PartTyped DEF Line
<1>6. IsPrefix(Part(L, n), Part(L, N))
  <2>1. n \in Nat /\ n <= N /\ N <= Len(L)  BY <1>1
  <2> HIDE DEF Class
  <2> QED  BY <1>1, <2>1, PartBegins
<1>7. IsPrefix(Before(w, n), p)
  <2> DEFINE a == Part(L, n)
             z == Part(L, N)
  <2>1. v \in Seq(Class) /\ a \in Seq(Class) /\ z \in Seq(Class) /\ IsPrefix(a, z)
    BY <1>2, <1>5, <1>6 DEF Line
  <2> HIDE DEF a, z, Class, p
  <2>2. IsPrefix(v \o a, v \o z)  BY <2>1, PrefixAfter
  <2> QED  BY <1>3, <2>2 DEF a, z, p
<1>8. ASSUME NEW s \in Line, NEW t \in Line, NEW u \in Line, IsPrefix(s, t)
      PROVE  IsPrefix(s, t \o u)
  <2>1. s \in Seq(Class) /\ t \in Seq(Class) /\ u \in Seq(Class)  BY DEF Line
  <2> HIDE DEF Class
  <2> QED  BY <1>8, <2>1, PrefixGrows
<1> HIDE DEF p
<1> DEFINE q == p \o Crlf
           r == q \o x
           t == r \o Crlf
<1>10. q \in Line /\ IsPrefix(Before(w, n), q)  BY <1>2, <1>7, <1>8, <1>9, JoinedLine
<1> HIDE DEF q
<1>11. r \in Line /\ IsPrefix(Before(w, n), r)  BY <1>2, <1>8, <1>9, <1>10, JoinedLine
<1> HIDE DEF r
<1>12. t \in Line /\ IsPrefix(Before(w, n), t)  BY <1>2, <1>8, <1>9, <1>11, JoinedLine
<1> HIDE DEF t
<1>13. IsPrefix(Before(w, n), t \o Crlf)  BY <1>2, <1>8, <1>9, <1>12
<1> QED  BY <1>4, <1>13 DEF q, r, t, p

\* Where the line of a field is in the record, byte by byte.
AtLine(w, n) ==
  LET t == StoreRecord(w)
      h == Heads(w)[n + 1]
      s == Len(Before(w, n))
  IN  /\ s \in Nat /\ Len(t) \in Nat /\ Len(Before(w, n + 1)) = s + Len(h.key) + 1 + Len(Rest(h))
      /\ Len(Before(w, n + 1)) <= Len(t)
      /\ \A i \in 1 .. Len(h.key) : t[s + i] = h.key[i]
      /\ t[s + Len(h.key) + 1] = ":"
      /\ \A i \in 1 .. Len(Rest(h)) : t[s + Len(h.key) + 1 + i] = Rest(h)[i]

\* It is there.
LEMMA LineIsThere ==
  ASSUME ProperFields, NEW w \in Written, NEW n \in Nat, n + 1 <= Len(Heads(w))
  PROVE  AtLine(w, n)
<1> DEFINE t == StoreRecord(w)
           h == Heads(w)[n + 1]
           p == Before(w, n)
           q == Before(w, n + 1)
           l == LineOf(h)
           N == Len(Heads(w))
<1>1. n \in 0 .. N /\ n + 1 \in 0 .. N /\ n + 1 \in 1 .. N
  <2>1. N \in Nat  BY LinesShape
  <2> QED  BY <2>1
<1>2. p \in Line /\ q = p \o l /\ q \in Line /\ Len(p) \in Nat
  <2>1. \A m \in 0 .. Len(Heads(w)) : Before(w, m) \in Line /\ Len(Before(w, m)) \in Nat
    BY BeforeShape
  <2>2. \A m \in 0 .. Len(Heads(w)) : m + 1 <= Len(Heads(w)) =>
          Before(w, m + 1) = Before(w, m) \o LineOf(Heads(w)[m + 1])
    BY BeforeShape
  <2> QED  BY <1>1, <2>1, <2>2
<1>3. t \in Line /\ IsPrefix(q, t)  BY <1>1, WrittenLine, StoredBegins
<1>4. HeadProper(h, n + 1)  BY <1>1, HeadShape
<1> HIDE DEF t, h, p, q, N
<1>5. /\ l \in Line /\ Len(h.key) \in Nat /\ Len(Rest(h)) \in Nat
      /\ Len(l) = Len(h.key) + 1 + Len(Rest(h))
      /\ \A i \in 1 .. Len(h.key) : l[i] = h.key[i]
      /\ l[Len(h.key) + 1] = ":"
      /\ \A i \in 1 .. Len(Rest(h)) : l[Len(h.key) + 1 + i] = Rest(h)[i]
  <2>1. h.key \in Line /\ Raw(h) \in Line  BY <1>4 DEF HeadProper
  <2> QED  BY <2>1, LineShape
<1> HIDE DEF l
<1>6. Len(q) = Len(p) + Len(l) /\ \A i \in 1 .. Len(l) : q[Len(p) + i] = l[i]
  <2>1. /\ Len(p \o l) = Len(p) + Len(l)
        /\ \A i \in 1 .. Len(l) : (p \o l)[Len(p) + i] = l[i]
    BY <1>2, <1>5, JoinedShape
  <2> QED  BY <1>2, <2>1
<1>7. Len(t) \in Nat /\ Len(q) <= Len(t) /\ \A i \in 1 .. Len(q) : q[i] = t[i]
  <2>1. q \in Seq(Class) /\ t \in Seq(Class)  BY <1>2, <1>3 DEF Line
  <2> HIDE DEF Class
  <2>2. Len(q) <= Len(t) /\ \A i \in 1 .. Len(q) : q[i] = t[i]  BY <1>3, <2>1, PrefixPoints
  <2>3. Len(t) \in Nat  BY <2>1
  <2> QED  BY <2>2, <2>3
<1>8. ASSUME NEW i \in 1 .. Len(l) PROVE t[Len(p) + i] = l[i]
  <2>1. Len(p) + i \in 1 .. Len(q)  BY <1>2, <1>5, <1>6
  <2> QED  BY <1>6, <1>7, <2>1
<1>9. \A i \in 1 .. Len(h.key) : t[Len(p) + i] = h.key[i]
  <2>1. \A i \in 1 .. Len(h.key) : i \in 1 .. Len(l)  BY <1>5
  <2> QED  BY <1>5, <1>8, <2>1
<1>10. t[Len(p) + Len(h.key) + 1] = ":"
  <2>1. PICK k \in Nat : k = Len(h.key) + 1  BY <1>5
  <2>2. k \in 1 .. Len(l) /\ Len(p) + k = Len(p) + Len(h.key) + 1  BY <1>2, <1>5, <2>1
  <2> QED  BY <1>5, <1>8, <2>1, <2>2
<1>11. ASSUME NEW i \in 1 .. Len(Rest(h)) PROVE t[Len(p) + Len(h.key) + 1 + i] = Rest(h)[i]
  <2>1. PICK k \in Nat : k = Len(h.key) + 1 + i  BY <1>5
  <2>2. k \in 1 .. Len(l) /\ Len(p) + k = Len(p) + Len(h.key) + 1 + i  BY <1>2, <1>5, <2>1
  <2> QED  BY <1>5, <1>8, <2>1, <2>2
<1>12. Len(q) = Len(p) + Len(h.key) + 1 + Len(Rest(h))  BY <1>2, <1>5, <1>6
<1> QED  BY <1>2, <1>7, <1>9, <1>10, <1>11, <1>12 DEF AtLine, t, h, p, q

\* What follows the lines of the header.
AtEnd(w) ==
  LET t == StoreRecord(w)
      s == Len(Before(w, Len(Heads(w))))
  IN  /\ s \in Nat /\ Len(w.content) \in Nat /\ Len(t) = s + 2 + Len(w.content) + 4
      /\ t[s + 1] = "cr" /\ t[s + 2] = "lf"
      /\ Len(WriteHeader(w)) = s + 2
      /\ SubSeq(t, s + 3, s + 2 + Len(w.content)) = w.content

\* It is the empty line, the content and the end of the record.
LEMMA EndIsThere ==
  ASSUME ProperFields, NEW w \in Written
  PROVE  AtEnd(w)
<1> DEFINE p == Before(w, Len(Heads(w)))
           x == w.content
           q == WriteHeader(w)
           r == q \o x
           z == r \o Crlf
           t == StoreRecord(w)
<1>1. p \in Line /\ Len(p) \in Nat
  <2>1. Len(Heads(w)) \in Nat  BY LinesShape
  <2>2. Len(Heads(w)) \in 0 .. Len(Heads(w))  BY <2>1
  <2> QED  BY <2>2, BeforeShape
<1>2. q = p \o Crlf /\ t = z \o Crlf  BY HeaderShape DEF StoreRecord
<1>3. x \in Line /\ Len(x) \in Nat  BY HeaderAssumption DEF Line
<1> HIDE DEF p, x, q, t
<1>4. q \in Line /\ Len(q) = Len(p) + 2 /\ q[Len(p) + 1] = "cr" /\ q[Len(p) + 2] = "lf"
  <2>1. /\ p \o Crlf \in Line /\ Len(p \o Crlf) = Len(p) + Len(Crlf)
        /\ \A i \in 1 .. Len(Crlf) : (p \o Crlf)[Len(p) + i] = Crlf[i]
    BY <1>1, CrlfShape, JoinedShape
  <2>2. 1 \in 1 .. Len(Crlf) /\ 2 \in 1 .. Len(Crlf)  BY CrlfShape
  <2> QED  BY <1>2, <2>1, <2>2, CrlfShape
<1>5. /\ r \in Line /\ Len(r) = Len(q) + Len(x)
      /\ \A i \in 1 .. Len(q) : r[i] = q[i]
      /\ \A i \in 1 .. Len(x) : r[Len(q) + i] = x[i]
  BY <1>3, <1>4, JoinedShape
<1> HIDE DEF r
<1>12. ASSUME NEW s \in Line
       PROVE  /\ s \o Crlf \in Line /\ Len(s \o Crlf) = Len(s) + 2
              /\ \A i \in 1 .. Len(s) : (s \o Crlf)[i] = s[i]
  <2>1. Crlf \in Line /\ Len(Crlf) = 2  BY CrlfShape
  <2>2. /\ s \o Crlf \in Line /\ Len(s \o Crlf) = Len(s) + Len(Crlf)
        /\ \A i \in 1 .. Len(s) : (s \o Crlf)[i] = s[i]
    BY <2>1, JoinedShape
  <2> QED  BY <2>1, <2>2
<1>6. z \in Line /\ Len(z) = Len(r) + 2 /\ \A i \in 1 .. Len(r) : z[i] = r[i]
  <2>1. r \in Line  BY <1>5
  <2> QED  BY <2>1, <1>12
<1> HIDE DEF z
<1>7. t \in Line /\ Len(t) = Len(z) + 2 /\ \A i \in 1 .. Len(z) : t[i] = z[i]
  <2>1. /\ z \o Crlf \in Line /\ Len(z \o Crlf) = Len(z) + 2
        /\ \A i \in 1 .. Len(z) : (z \o Crlf)[i] = z[i]
    BY <1>6, <1>12
  <2> QED  BY <1>2, <2>1
<1>8. Len(t) = Len(p) + 2 + Len(x) + 4  BY <1>1, <1>3, <1>4, <1>5, <1>6, <1>7
<1>9. ASSUME NEW i \in 1 .. Len(r) PROVE t[i] = r[i]
  <2>1. i \in 1 .. Len(z)  BY <1>1, <1>3, <1>4, <1>5, <1>6
  <2> QED  BY <1>6, <1>7, <2>1
<1>10. t[Len(p) + 1] = "cr" /\ t[Len(p) + 2] = "lf"
  <2> DEFINE a == Len(p) + 1
             e == Len(p) + 2
  <2>1. a \in 1 .. Len(r) /\ e \in 1 .. Len(r) /\ a \in 1 .. Len(q) /\ e \in 1 .. Len(q)
    BY <1>1, <1>3, <1>4, <1>5
  <2>2. q[a] = "cr" /\ q[e] = "lf"  BY <1>4
  <2> HIDE DEF a, e
  <2>3. t[a] = "cr" /\ t[e] = "lf"  BY <1>5, <1>9, <2>1, <2>2
  <2> QED  BY <2>3 DEF a, e
<1>11. SubSeq(t, Len(p) + 3, Len(p) + 2 + Len(x)) = x
  <2> DEFINE m == Len(p) + 3
             n == Len(p) + 2 + Len(x)
             u == SubSeq(t, m, n)
  <2>1. m \in Nat \ {0} /\ n \in 0 .. Len(t) /\ n - m + 1 = Len(x)
    BY <1>1, <1>3, <1>8
  <2>6. (m <= n) = (Len(x) # 0)  BY <1>1, <1>3
  <2> HIDE DEF m, n
  <2>2. /\ u \in Line /\ Len(u) = IF m <= n THEN n - m + 1 ELSE 0
        /\ \A i \in 1 .. n - m + 1 : u[i] = t[m + i - 1]
    BY <1>7, <2>1, SubLine
  <2>3. Len(u) = Len(x)  BY <1>3, <2>1, <2>2, <2>6
  <2>4. ASSUME NEW i \in 1 .. Len(x) PROVE u[i] = x[i]
    <3>1. PICK k \in Nat : k = Len(q) + i  BY <1>1, <1>3, <1>4
    <3>2. k \in 1 .. Len(r) /\ m + i - 1 = k  BY <1>1, <1>3, <1>4, <1>5, <3>1 DEF m
    <3>3. t[k] = x[i]  BY <1>5, <1>9, <3>1, <3>2
    <3> QED  BY <2>1, <2>2, <3>2, <3>3
  <2> HIDE DEF u
  <2>5. u = x
    <3>1. u \in Seq(Class) /\ x \in Seq(Class)  BY <1>3, <2>2 DEF Line
    <3> HIDE DEF Class
    <3> QED  BY <2>3, <2>4, <3>1, SeqEqual
  <2> QED  BY <2>5 DEF u, m, n
<1> QED  BY <1>1, <1>3, <1>4, <1>8, <1>10, <1>11 DEF AtEnd, p, x, q, t

-----------------------------------------------------------------------------
(* What the reader of a written header has taken. *)

\* The number of the fields, the one that is being read, and where its line begins.
All     == Len(Heads(origin))
Present == Heads(origin)[Len(fields) + 1]
Start   == Len(Before(origin, Len(fields)))

\* The automaton holds a beginning of the name of the present field.
InKey ==
  /\ state = "KEY" /\ value = << >> /\ at = Start + Len(key)
  /\ Len(key) \in 1 .. Len(Present.key)
  /\ \A i \in 1 .. Len(key) : key[i] = Present.key[i]

\* It holds the name, and a beginning of what follows the colon.
InValue ==
  /\ state \in {"VALUE", "LF", "SPACE"}
  /\ key = Present.key /\ at = Start + Len(key) + 1 + Len(value)
  /\ Len(value) <= Len(Rest(Present))
  /\ \A i \in 1 .. Len(value) : value[i] = Rest(Present)[i]
  /\ state = "VALUE" => Len(value) <= Len(Raw(Present))
  /\ state = "LF" => /\ Len(value) \in 1 .. Len(Raw(Present)) + 1
                     /\ value[Len(value)] = "cr"
  /\ state = "SPACE" => Len(value) = Len(Raw(Present)) + 2

\* The first fields were read as they were written, and the present one is begun.
Reads ==
  /\ dropped = 0 /\ Len(fields) <= All
  /\ \A i \in 1 .. Len(fields) : fields[i] = Heads(origin)[i]
  /\ Len(fields) >= 2 => contlen = Len(origin.content)
  /\ \/ state = "KEYFIRST" /\ Empty /\ at = Start
     \/ state = "ENDLF" /\ Empty /\ at = Start + 1 /\ Len(fields) = All
     \/ Len(fields) < All /\ InKey
     \/ Len(fields) < All /\ InValue

\* A written header is being read.
Within ==
  /\ HInv /\ pc = "header" /\ origin \in Written /\ text = StoreRecord(origin) /\ Reads

\* The field that is read, when not all were.
LEMMA PresentProper ==
  ASSUME ProperFields, Within
  PROVE  /\ Len(fields) \in Nat /\ All \in Nat /\ All >= 2 /\ Len(fields) <= All
         /\ Len(fields) < All => HeadProper(Present, Len(fields) + 1) /\ AtLine(origin, Len(fields))
<1>1. fields \in Seq(Field) /\ origin \in Written  BY DEF Within, HInv, HTypeOK
<1>2. Len(fields) \in Nat  BY <1>1
<1>3. All \in Nat /\ All >= 2
  <2>1. Len(Heads(origin)) = 2 + Len(origin.anvls) /\ Len(origin.anvls) \in Nat
    BY <1>1, HeadsShape
  <2> QED  BY <2>1 DEF All
<1>4. Len(fields) <= All  BY DEF Within, Reads
<1>5. ASSUME Len(fields) < All
      PROVE  HeadProper(Present, Len(fields) + 1) /\ AtLine(origin, Len(fields))
  <2>1. Len(fields) + 1 \in 1 .. Len(Heads(origin)) /\ Len(fields) + 1 <= Len(Heads(origin))
    BY <1>2, <1>3, <1>5 DEF All
  <2>2. HeadProper(Heads(origin)[Len(fields) + 1], Len(fields) + 1)
    <3> DEFINE m == Len(fields) + 1
    <3> HIDE DEF m
    <3>1. m \in 1 .. Len(Heads(origin))  BY <2>1 DEF m
    <3>2. HeadProper(Heads(origin)[m], m)  BY <1>1, <3>1, HeadShape
    <3> QED  BY <3>2 DEF m
  <2>3. AtLine(origin, Len(fields))  BY <1>1, <1>2, <2>1, LineIsThere
  <2> QED  BY <2>2, <2>3 DEF Present
<1> QED  BY <1>2, <1>3, <1>4, <1>5

\* The lengths of the present field.
LEMMA PresentLengths ==
  ASSUME ProperFields, Within, Len(fields) < All
  PROVE  /\ Present.key \in Line /\ Present.value \in Line /\ Raw(Present) \in Line
         /\ Len(Present.key) \in Nat \ {0} /\ Len(Raw(Present)) \in Nat
         /\ Rest(Present) \in Line /\ Len(Rest(Present)) = Len(Raw(Present)) + 2
         /\ Start \in Nat
         /\ Len(Before(origin, Len(fields) + 1))
              = Start + Len(Present.key) + 1 + Len(Rest(Present))
         /\ Len(Before(origin, Len(fields) + 1)) <= Len(text)
<1> DEFINE h == Present
<1>1. HeadProper(h, Len(fields) + 1) /\ AtLine(origin, Len(fields))  BY PresentProper
<1>2. h.key \in Line /\ h.value \in Line /\ Raw(h) \in Line /\ h.key # << >>
  BY <1>1 DEF HeadProper
<1>3. /\ Start \in Nat
      /\ Len(Before(origin, Len(fields) + 1)) = Start + Len(h.key) + 1 + Len(Rest(h))
      /\ Len(Before(origin, Len(fields) + 1)) <= Len(text)
  BY <1>1 DEF AtLine, Start, Present, Within
<1> HIDE DEF h
<1>4. Rest(h) \in Line /\ Len(Rest(h)) = Len(Raw(h)) + 2 /\ Len(Raw(h)) \in Nat
  BY <1>2, RestShape
<1>5. Len(h.key) \in Nat \ {0}  BY <1>2 DEF Line
<1> QED  BY <1>2, <1>3, <1>4, <1>5 DEF h

\* The next byte of a written header.
NextIs ==
  /\ at < Len(text)
  /\ state = "KEYFIRST" =>
       /\ Len(fields) < All => c = Present.key[1]
       /\ Len(fields) = All => c = "cr"
  /\ state = "ENDLF" => c = "lf"
  /\ state = "KEY" =>
       /\ Len(key) < Len(Present.key) => c = Present.key[Len(key) + 1]
       /\ Len(key) = Len(Present.key) => c = ":"
  /\ state \in {"VALUE", "LF"} => c = Rest(Present)[Len(value) + 1]
  /\ state = "SPACE" => c \in Text \cup {"cr"}

\* After the last field.
LEMMA NextAfterAll ==
  ASSUME ProperFields, Within, Len(fields) = All
  PROVE  NextIs
<1>1. AtEnd(origin)  BY EndIsThere DEF Within
<1>2. /\ Start \in Nat /\ Len(origin.content) \in Nat
      /\ Len(text) = Start + 2 + Len(origin.content) + 4
      /\ text[Start + 1] = "cr" /\ text[Start + 2] = "lf"
  BY <1>1 DEF AtEnd, Start, All, Within
<1>3. \/ state = "KEYFIRST" /\ at = Start
      \/ state = "ENDLF" /\ at = Start + 1
  <2>1. All \in Nat  BY PresentProper
  <2> QED  BY <2>1 DEF Within, Reads
<1>4. at < Len(text)
  <2>1. PICK l \in Nat : l = Len(origin.content)  BY <1>2
  <2>2. at \in {Start, Start + 1} /\ Len(text) = Start + 2 + l + 4 /\ Start \in Nat
    BY <1>2, <1>3, <2>1
  <2> QED  BY <2>2
<1>5. All \in Nat /\ ~ (Len(fields) < All)  BY PresentProper
<1>6. CASE state = "KEYFIRST"
  <2>1. c = "cr"  BY <1>2, <1>3, <1>6 DEF c
  <2> QED  BY <1>4, <1>5, <1>6, <2>1 DEF NextIs
<1>7. CASE state = "ENDLF"
  <2>1. at + 1 = Start + 2  BY <1>2, <1>3, <1>7
  <2>2. c = "lf"  BY <1>2, <2>1 DEF c
  <2> QED  BY <1>4, <1>7, <2>2 DEF NextIs
<1> QED  BY <1>3, <1>6, <1>7

\* Within a line.
LEMMA NextInLine ==
  ASSUME ProperFields, Within, Len(fields) < All
  PROVE  NextIs
<1> DEFINE h == Present
           n == Len(fields)
<1>1. /\ Start \in Nat /\ Len(text) \in Nat
      /\ \A i \in 1 .. Len(h.key) : text[Start + i] = h.key[i]
      /\ text[Start + Len(h.key) + 1] = ":"
      /\ \A i \in 1 .. Len(Rest(h)) : text[Start + Len(h.key) + 1 + i] = Rest(h)[i]
  <2>1. AtLine(origin, Len(fields))  BY PresentProper
  <2> QED  BY <2>1 DEF AtLine, Start, Present, Within
<1>2. /\ Len(h.key) \in Nat \ {0} /\ Len(Raw(h)) \in Nat /\ Len(Rest(h)) = Len(Raw(h)) + 2
      /\ Len(Before(origin, n + 1)) = Start + Len(h.key) + 1 + Len(Rest(h))
      /\ Len(Before(origin, n + 1)) <= Len(text)
  BY PresentLengths
<1>3. Len(key) \in Nat /\ Len(value) \in Nat /\ n \in Nat /\ All \in Nat
  <2>1. key \in Line /\ value \in Line  BY DEF Within, HInv, HTypeOK
  <2> QED  BY <2>1, PresentProper DEF Line
<1>8. Start + Len(h.key) + 1 + Len(Raw(h)) + 2 <= Len(text)
  <2> DEFINE e == Len(Before(origin, n + 1))
  <2> HIDE DEF e
  <2>1. e = Start + Len(h.key) + 1 + Len(Rest(h)) /\ e <= Len(text)  BY <1>2 DEF e
  <2>2. PICK i \in Nat, j \in Nat, k \in Nat, l \in Nat :
          i = Start /\ j = Len(h.key) /\ k = Len(Raw(h)) /\ l = Len(text)
    BY <1>1, <1>2
  <2>3. e = i + j + 1 + (k + 2) /\ e <= l
    <3>1. Len(Rest(h)) = k + 2  BY <1>2, <2>2
    <3> QED  BY <2>1, <2>2, <3>1
  <2>4. i + j + 1 + k + 2 <= l  BY <2>3
  <2> QED  BY <2>2, <2>4
<1> DEFINE T == Len(text)
           K == Len(h.key)
           R == Len(Raw(h))
<1>9. T \in Nat /\ K \in Nat \ {0} /\ R \in Nat /\ Start \in Nat /\ Start + K + 1 + R + 2 <= T
      /\ Len(Rest(h)) = R + 2
  BY <1>1, <1>2, <1>8
<1> HIDE DEF T, K, R
<1>4. \/ state = "KEYFIRST" /\ at = Start
      \/ InKey
      \/ InValue
  BY <1>3 DEF Within, Reads
<1>5. CASE state = "KEYFIRST" /\ at = Start
  <2>1. 1 \in 1 .. Len(h.key) /\ at < Len(text)
    <3>1. 1 \in 1 .. K /\ at < T  BY <1>5, <1>9
    <3> QED  BY <3>1 DEF K, T
  <2>2. c = h.key[1]  BY <1>1, <1>5, <2>1 DEF c
  <2>3. n # All  BY <1>3
  <2> QED  BY <1>5, <2>1, <2>2, <2>3 DEF NextIs
<1>6. CASE InKey
  <2>1. state = "KEY" /\ at = Start + Len(key) /\ Len(key) \in 1 .. Len(h.key)
    BY <1>6 DEF InKey
  <2>2. at < Len(text)
    <3>1. at = Start + Len(key) /\ Len(key) \in 1 .. K  BY <2>1 DEF K
    <3>2. at < T  BY <1>9, <3>1
    <3> QED  BY <3>2 DEF T
  <2>3. ASSUME Len(key) < Len(h.key) PROVE c = h.key[Len(key) + 1]
    <3>1. PICK k \in Nat : k = Len(key) + 1  BY <1>3
    <3>2. k \in 1 .. Len(h.key) /\ at + 1 = Start + k  BY <1>1, <1>2, <2>1, <2>3, <3>1, SMTT(30)
    <3> QED  BY <1>1, <3>1, <3>2 DEF c
  <2>4. ASSUME Len(key) = Len(h.key) PROVE c = ":"
    <3>1. at + 1 = Start + Len(h.key) + 1  BY <1>1, <1>2, <2>1, <2>4
    <3> QED  BY <1>1, <3>1 DEF c
  <2> QED  BY <2>1, <2>2, <2>3, <2>4 DEF NextIs
<1>7. CASE InValue
  <2>1. /\ state \in {"VALUE", "LF", "SPACE"} /\ key = h.key
        /\ at = Start + Len(key) + 1 + Len(value) /\ Len(value) <= Len(Rest(h))
        /\ state = "VALUE" => Len(value) <= Len(Raw(h))
        /\ state = "LF" => Len(value) \in 1 .. Len(Raw(h)) + 1
        /\ state = "SPACE" => Len(value) = Len(Raw(h)) + 2
    BY <1>7 DEF InValue
  <2>2. CASE state \in {"VALUE", "LF"}
    <3>1. PICK k \in Nat : k = Len(value) + 1  BY <1>3
    <3>2. /\ k \in 1 .. Len(Rest(h)) /\ at + 1 = Start + Len(h.key) + 1 + k /\ at < Len(text)
      <4>1. k <= R + 2 /\ k # 0
        <5>1. Len(value) <= R + 1
          <6>1. state = "VALUE" => Len(value) <= R  BY <2>1 DEF R
          <6>2. state = "LF" => Len(value) <= R + 1
            <7>1. state = "LF" => Len(value) \in 1 .. R + 1  BY <2>1 DEF R
            <7> QED  BY <7>1
          <6> QED  BY <1>3, <1>9, <2>2, <6>1, <6>2
        <5> QED  BY <1>3, <1>9, <3>1, <5>1
      <4>2. at = Start + K + 1 + Len(value)  BY <2>1 DEF K
      <4>3. at + 1 = Start + K + 1 + k /\ at < T  BY <1>3, <1>9, <3>1, <4>1, <4>2
      <4>4. k \in 1 .. Len(Rest(h))  BY <1>9, <3>1, <4>1
      <4> QED  BY <4>3, <4>4 DEF K, T
    <3>3. c = Rest(h)[Len(value) + 1]
      <4>1. text[Start + Len(h.key) + 1 + k] = Rest(h)[k]  BY <1>1, <3>2
      <4>2. text[at + 1] = Rest(h)[k]
        <5> HIDE DEF h
        <5> QED  BY <3>2, <4>1
      <4> QED  BY <3>1, <4>2 DEF c
    <3> QED  BY <2>2, <3>2, <3>3 DEF NextIs
  <2>3. CASE state = "SPACE"
    <3>1. at = Len(Before(origin, n + 1))  BY <1>1, <1>2, <1>3, <2>1, <2>3
    <3>2. CASE n + 1 < All
      <4> DEFINE m == n + 1
                 g == Heads(origin)[m + 1]
      <4>1. m \in Nat /\ m + 1 <= Len(Heads(origin)) /\ m + 1 \in 1 .. Len(Heads(origin))
        BY <1>3, <3>2 DEF All
      <4>2. at = Len(Before(origin, m))  BY <3>1
      <4> HIDE DEF m
      <4>3. AtLine(origin, m)  BY <4>1, LineIsThere DEF Within
      <4>4. HeadProper(g, m + 1)
        <5> DEFINE l == m + 1
        <5> HIDE DEF l
        <5>1. l \in 1 .. Len(Heads(origin)) /\ origin \in Written  BY <4>1 DEF l, Within
        <5>2. HeadProper(Heads(origin)[l], l)  BY <5>1, HeadShape
        <5> QED  BY <5>2 DEF l
      <4>5. g.key \in Line /\ g.key # << >> /\ g.key[1] \in Text  BY <4>4 DEF HeadProper
      <4>6. 1 \in 1 .. Len(g.key) /\ Len(g.key) \in Nat  BY <4>5 DEF Line
      <4>7. at \in Nat /\ text[at + 1] = g.key[1]
        BY <4>2, <4>3, <4>6 DEF AtLine, Within
      <4>8. /\ at \in Nat /\ Len(Rest(g)) \in Nat /\ Len(text) \in Nat
            /\ at + Len(g.key) + 1 + Len(Rest(g)) <= Len(text)
        <5>1. Len(Rest(g)) \in Nat
          <6>1. Raw(g) \in Line  BY <4>4 DEF HeadProper
          <6> QED  BY <6>1, RestShape
        <5>2. /\ Len(Before(origin, m + 1)) = at + Len(g.key) + 1 + Len(Rest(g))
              /\ Len(Before(origin, m + 1)) <= Len(text)
          BY <4>2, <4>3 DEF AtLine, Within
        <5> QED  BY <1>1, <4>7, <5>1, <5>2
      <4>9. at < Len(text)
        <5>1. PICK i \in Nat : i = Len(g.key)  BY <4>6
        <5>2. PICK j \in Nat : j = Len(Rest(g))  BY <4>8
        <5>3. at \in Nat /\ Len(text) \in Nat /\ at + i + 1 + j <= Len(text)
          BY <4>8, <5>1, <5>2
        <5> QED  BY <5>3
      <4> QED  BY <2>3, <4>5, <4>7, <4>9 DEF NextIs, c
    <3>3. CASE n + 1 = All
      <4>1. AtEnd(origin) /\ at = Len(Before(origin, Len(Heads(origin))))
        BY <3>1, <3>3, EndIsThere DEF Within, All
      <4>2. /\ at \in Nat /\ text[at + 1] = "cr" /\ Len(origin.content) \in Nat
            /\ Len(text) = at + 2 + Len(origin.content) + 4
        BY <4>1 DEF AtEnd, Within
      <4>3. at < Len(text)
        <5>1. PICK l \in Nat : l = Len(origin.content)  BY <4>2
        <5>2. at \in Nat /\ Len(text) = at + 2 + l + 4  BY <4>2, <5>1
        <5> QED  BY <5>2
      <4>4. c = "cr"  BY <4>2 DEF c
      <4> QED  BY <2>3, <4>3, <4>4 DEF NextIs
    <3> QED  BY <1>3, <3>2, <3>3
  <2> QED  BY <2>1, <2>2, <2>3
<1> QED  BY <1>4, <1>5, <1>6, <1>7

\* There is a next byte, and the automaton takes it.
LEMMA NextByte ==
  ASSUME ProperFields, Within
  PROVE  NextIs
<1>1. Len(fields) = All \/ Len(fields) < All  BY PresentProper
<1> QED  BY <1>1, NextAfterAll, NextInLine

\* None of these bytes is text.
LEMMA NoText ==
  /\ "cr" \notin Text /\ "#" \notin Text /\ ":" \notin Text /\ "sp" \notin Text
  /\ "p" \notin Text /\ "lf" \notin Text
BY DEF Text, Digits

\* A byte more of the same line.
LEMMA ReadsOn ==
  ASSUME Within, UNCHANGED <<origin, fields, contlen, dropped>>,
         \/ (state = "ENDLF" /\ Empty /\ at = Start + 1 /\ Len(fields) = All)'
         \/ Len(fields) < All /\ InKey'
         \/ Len(fields) < All /\ InValue'
  PROVE  Reads'
<1>1. All' = All /\ Start' = Start /\ Present' = Present  BY DEF All, Start, Present
<1> QED  BY <1>1 DEF Within, Reads

\* The first byte of a line, or of what ends the header.
LEMMA KeyFirstReads ==
  ASSUME ProperFields, Within, KeyFirst
  PROVE  Reads' /\ pc' = "header"
<1>1. NextIs /\ (Len(fields) < All \/ Len(fields) = All) /\ Len(fields) \in Nat /\ All \in Nat
  BY NextByte, PresentProper
<1>2. state = "KEYFIRST" /\ Empty /\ at = Start /\ pc = "header"
  BY DEF KeyFirst, Within, Reads, InKey, InValue
<1>3. CASE Len(fields) < All
  <2>1. c = Present.key[1] /\ c \in Text
    <3>1. HeadProper(Present, Len(fields) + 1)  BY <1>3, PresentProper
    <3> QED  BY <1>1, <1>2, <1>3, <3>1 DEF NextIs, HeadProper
  <2>2. SetKey("KEY")  BY <2>1, NoText DEF KeyFirst
  <2>3. /\ at' = at + 1 /\ state' = "KEY" /\ key' = Append(key, c)
        /\ UNCHANGED <<text, origin, pc, fields, datalen, contlen, value, comment, dropped>>
    BY <2>2 DEF SetKey, Takes
  <2>4. key' = <<c>> /\ value' = << >>  BY <1>2, <2>3 DEF Empty
  <2>5. Present' = Present /\ Start' = Start  BY <2>3 DEF Present, Start
  <2>6. Len(Present.key) \in Nat \ {0} /\ Start \in Nat  BY <1>3, PresentLengths
  <2>7. InKey'
    <3>1. Len(key') = 1 /\ key'[1] = Present.key[1]  BY <2>1, <2>4
    <3>2. Len(key') \in 1 .. Len(Present.key) /\ at' = Start + Len(key')
      BY <1>2, <2>3, <2>6, <3>1
    <3>3. \A i \in 1 .. Len(key') : key'[i] = Present.key[i]  BY <3>1
    <3> QED  BY <2>3, <2>4, <2>5, <3>2, <3>3 DEF InKey
  <2> QED  BY <1>2, <1>3, <2>3, <2>7, ReadsOn
<1>4. CASE Len(fields) = All
  <2>1. c = "cr"  BY <1>1, <1>2, <1>4 DEF NextIs
  <2>2. Skip("ENDLF")  BY <2>1, NoText DEF KeyFirst
  <2>3. /\ at' = at + 1 /\ state' = "ENDLF"
        /\ UNCHANGED <<text, origin, pc, fields, datalen, contlen, key, value, comment, dropped>>
    BY <2>2 DEF Skip, Takes
  <2>4. All' = All /\ Start' = Start /\ Empty'  BY <1>2, <2>3 DEF All, Start, Empty
  <2> QED  BY <1>2, <1>4, <2>3, <2>4, ReadsOn
<1> QED  BY <1>1, <1>3, <1>4

\* A byte of a name, or the colon after it.
LEMMA KeyReads ==
  ASSUME ProperFields, Within, Key
  PROVE  Reads' /\ pc' = "header"
<1>1. NextIs  BY NextByte
<1>2. state = "KEY" /\ InKey /\ Len(fields) < All /\ pc = "header"
  BY DEF Key, Within, Reads, InValue
<1>3. /\ Present.key \in Line /\ Len(Present.key) \in Nat \ {0} /\ Start \in Nat
      /\ Len(Raw(Present)) \in Nat /\ Len(Rest(Present)) = Len(Raw(Present)) + 2
  BY <1>2, PresentLengths
<1>4. /\ value = << >> /\ at = Start + Len(key) /\ Len(key) \in 1 .. Len(Present.key)
      /\ \A i \in 1 .. Len(key) : key[i] = Present.key[i]
  BY <1>2 DEF InKey
<1>5. key \in Line  BY DEF Within, HInv, HTypeOK
<1>6. \A i \in 1 .. Len(Present.key) : Present.key[i] \in Text \cup {"#"}
  BY <1>2, PresentProper DEF HeadProper
<1>7. CASE Len(key) < Len(Present.key)
  <2>1. Len(key) + 1 \in 1 .. Len(Present.key) /\ Len(key) \in Nat  BY <1>3, <1>4, <1>7
  <2>2. c = Present.key[Len(key) + 1]  BY <1>1, <1>2, <1>7 DEF NextIs
  <2>3. c \in Text \cup {"#"}  BY <1>6, <2>1, <2>2
  <2>4. SetKey("KEY")  BY <2>3, NoText DEF Key
  <2>5. /\ at' = at + 1 /\ state' = "KEY" /\ key' = Append(key, c)
        /\ UNCHANGED <<text, origin, pc, fields, datalen, contlen, value, comment, dropped>>
    BY <2>4 DEF SetKey, Takes
  <2>6. Present' = Present /\ Start' = Start  BY <2>5 DEF Present, Start
  <2>7. Len(key') = Len(key) + 1 /\ \A i \in 1 .. Len(key') : key'[i] = Present.key[i]
    <3>1. c \in Class  BY <2>3 DEF Class
    <3>2. /\ Len(Append(key, c)) = Len(key) + 1
          /\ \A i \in 1 .. Len(key) : Append(key, c)[i] = key[i]
          /\ Append(key, c)[Len(key) + 1] = c
      <4> HIDE DEF Class
      <4> QED  BY <1>5, <3>1, AppendProperties DEF Line
    <3> DEFINE k == Append(key, c)
    <3> HIDE DEF k
    <3>3. \A i \in 1 .. Len(key) + 1 : i \in 1 .. Len(key) \/ i = Len(key) + 1  BY <2>1
    <3>4. \A i \in 1 .. Len(key) + 1 : k[i] = Present.key[i]
      BY <1>4, <2>2, <3>2, <3>3 DEF k
    <3>5. key' = k  BY <2>5 DEF k
    <3>6. Len(k) = Len(key) + 1  BY <3>2 DEF k
    <3> QED  BY <3>4, <3>5, <3>6
  <2>8. InKey'
    <3>1. Len(key') \in 1 .. Len(Present.key)  BY <2>1, <2>7
    <3>2. at' = Start + Len(key')  BY <1>3, <1>4, <2>1, <2>5, <2>7
    <3> QED  BY <1>4, <2>5, <2>6, <2>7, <3>1, <3>2 DEF InKey
  <2> QED  BY <1>2, <2>5, <2>8, ReadsOn
<1>8. CASE Len(key) = Len(Present.key)
  <2>1. c = ":"  BY <1>1, <1>2, <1>8 DEF NextIs
  <2>2. Skip("VALUE")  BY <2>1, NoText DEF Key
  <2>3. /\ at' = at + 1 /\ state' = "VALUE"
        /\ UNCHANGED <<text, origin, pc, fields, datalen, contlen, key, value, comment, dropped>>
    BY <2>2 DEF Skip, Takes
  <2>4. Present' = Present /\ Start' = Start  BY <2>3 DEF Present, Start
  <2>5. key = Present.key
    <3> DEFINE p == Present.key
    <3>2. key \in Seq(Class) /\ p \in Seq(Class) /\ Len(key) = Len(p)
          /\ \A i \in 1 .. Len(key) : key[i] = p[i]
      BY <1>3, <1>4, <1>5, <1>8 DEF Line
    <3> HIDE DEF p, Class
    <3>3. key = p  BY <3>2, SeqEqual
    <3> QED  BY <3>3 DEF p
  <2>6. InValue'
    <3>1. value' = << >> /\ Len(value') = 0  BY <1>4, <2>3
    <3>2. at' = Start + Len(key') + 1 + Len(value')  BY <1>3, <1>4, <1>8, <2>3, <3>1
    <3>3. Len(value') <= Len(Rest(Present)) /\ Len(value') <= Len(Raw(Present))
      BY <1>3, <3>1
    <3>4. \A i \in 1 .. Len(value') : value'[i] = Rest(Present)[i]  BY <3>1
    <3> QED  BY <2>3, <2>4, <2>5, <3>2, <3>3, <3>4 DEF InValue
  <2> QED  BY <1>2, <2>3, <2>6, ReadsOn
<1> QED  BY <1>3, <1>4, <1>7, <1>8

\* A byte of a value is the next one of what follows the colon.
LEMMA ValueMore ==
  ASSUME ProperFields, Within, Len(fields) < All, InValue, state \in {"VALUE", "LF"},
         Len(value) <= Len(Raw(Present)) + 1,
         NEW next \in {"VALUE", "LF", "SPACE"}, SetValue(next),
         next = "VALUE" => Len(value) + 1 <= Len(Raw(Present)),
         next = "LF" => c = "cr" /\ Len(value) + 1 <= Len(Raw(Present)) + 1,
         next = "SPACE" => Len(value) + 1 = Len(Raw(Present)) + 2
  PROVE  Reads' /\ pc' = "header"
<1>1. NextIs  BY NextByte
<1>2. /\ key = Present.key /\ at = Start + Len(key) + 1 + Len(value)
      /\ \A i \in 1 .. Len(value) : value[i] = Rest(Present)[i]
  BY DEF InValue
<1>3. /\ Len(Present.key) \in Nat \ {0} /\ Len(Raw(Present)) \in Nat /\ Start \in Nat
      /\ Len(Rest(Present)) = Len(Raw(Present)) + 2
  BY PresentLengths
<1>4. value \in Line /\ Len(value) \in Nat /\ c \in Class
  <2>1. value \in Line  BY DEF Within, HInv, HTypeOK
  <2>2. at < Len(text)  BY <1>1 DEF NextIs
  <2>3. c \in Class  BY <2>2, Reading DEF Within
  <2> QED  BY <2>1, <2>3 DEF Line
<1>5. c = Rest(Present)[Len(value) + 1]  BY <1>1 DEF NextIs
<1>6. /\ at' = at + 1 /\ state' = next /\ value' = Append(value, c)
      /\ UNCHANGED <<text, origin, pc, fields, datalen, contlen, key, comment, dropped>>
  BY DEF SetValue, Takes
<1>7. Present' = Present /\ Start' = Start  BY <1>6 DEF Present, Start
<1>8. /\ Len(value') = Len(value) + 1 /\ value'[Len(value) + 1] = c
      /\ \A i \in 1 .. Len(value') : value'[i] = Rest(Present)[i]
  <2> DEFINE v == Append(value, c)
             r == Rest(Present)
  <2>1. Len(v) = Len(value) + 1 /\ v[Len(value) + 1] = c
        /\ \A i \in 1 .. Len(value) : v[i] = value[i]
    <3> HIDE DEF Class
    <3> QED  BY <1>4, AppendProperties DEF Line
  <2> HIDE DEF v, r
  <2>2. \A i \in 1 .. Len(value) + 1 : i \in 1 .. Len(value) \/ i = Len(value) + 1  BY <1>4
  <2>3. c = r[Len(value) + 1] /\ \A i \in 1 .. Len(value) : value[i] = r[i]
    BY <1>2, <1>5 DEF r
  <2>4. \A i \in 1 .. Len(value) + 1 : v[i] = r[i]  BY <2>1, <2>2, <2>3
  <2>5. value' = v  BY <1>6 DEF v
  <2> QED  BY <2>1, <2>4, <2>5 DEF r
<1>9. InValue'
  <2>1. key' = Present'.key /\ state' \in {"VALUE", "LF", "SPACE"}  BY <1>2, <1>6, <1>7
  <2>2. at' = Start + Len(key') + 1 + Len(value')
    <3>1. PICK i \in Nat, j \in Nat, k \in Nat : i = Start /\ j = Len(key) /\ k = Len(value)
      BY <1>2, <1>3, <1>4
    <3>2. at' = i + j + 1 + k + 1 /\ Len(value') = k + 1 /\ Len(key') = j
      BY <1>2, <1>6, <1>8, <3>1
    <3> QED  BY <3>1, <3>2
  <2>3. Len(value') <= Len(Rest(Present))  BY <1>3, <1>4, <1>8
  <2>4. state' = "VALUE" => Len(value') <= Len(Raw(Present))  BY <1>6, <1>8
  <2>5. state' = "LF" => /\ Len(value') \in 1 .. Len(Raw(Present)) + 1
                         /\ value'[Len(value')] = "cr"
    BY <1>3, <1>4, <1>6, <1>8
  <2>6. state' = "SPACE" => Len(value') = Len(Raw(Present)) + 2  BY <1>6, <1>8
  <2> QED  BY <1>7, <1>8, <2>1, <2>2, <2>3, <2>4, <2>5, <2>6 DEF InValue
<1>10. pc = "header"  BY DEF Within
<1> QED  BY <1>6, <1>9, <1>10, ReadsOn

\* A byte of a value, the CR and the LF after it.
LEMMA ValueReads ==
  ASSUME ProperFields, Within, Value \/ Lf
  PROVE  Reads' /\ pc' = "header"
<1>1. NextIs  BY NextByte
<1>2. state \in {"VALUE", "LF"} /\ InValue /\ Len(fields) < All
  BY DEF Value, Lf, Within, Reads, InKey
<1> DEFINE h == Present
           R == Len(Raw(h))
           n == Len(value)
<1>3. /\ R \in Nat /\ Raw(h) \in Line /\ n \in Nat
      /\ \A i \in 1 .. R : Rest(h)[i] = Raw(h)[i]
      /\ Rest(h)[R + 1] = "cr" /\ Rest(h)[R + 2] = "lf"
  <2>1. Raw(h) \in Line  BY <1>2, PresentLengths
  <2>2. n \in Nat
    <3>1. value \in Line  BY DEF Within, HInv, HTypeOK
    <3> QED  BY <3>1 DEF Line
  <2> QED  BY <2>1, <2>2, RestShape
<1>4. OneLine(Raw(h))  BY <1>2, PresentProper DEF HeadProper
<1>5. c = Rest(h)[n + 1]  BY <1>1, <1>2 DEF NextIs
<1>6. CASE state = "VALUE"
  <2>1. n <= R  BY <1>2, <1>6 DEF InValue
  <2>2. Value  BY <1>6 DEF Lf
  <2>3. CASE c = "cr"
    <3>1. SetValue("LF")  BY <2>2, <2>3 DEF Value
    <3>2. n + 1 <= R + 1 /\ n <= R + 1  BY <1>3, <2>1
    <3> QED  BY <1>2, <2>3, <3>1, <3>2, ValueMore
  <2>4. CASE c # "cr"
    <3>1. SetValue("VALUE")  BY <2>2, <2>4 DEF Value
    <3>2. n # R  BY <1>3, <1>5, <2>4
    <3>3. n + 1 <= R /\ n <= R + 1  BY <1>3, <2>1, <3>2
    <3> QED  BY <1>2, <3>1, <3>3, ValueMore
  <2> QED  BY <2>3, <2>4
<1>7. CASE state = "LF"
  <2>1. n \in 1 .. R + 1 /\ value[n] = "cr" /\ \A i \in 1 .. n : value[i] = Rest(h)[i]
    BY <1>2, <1>7 DEF InValue
  <2>2. Lf  BY <1>7 DEF Value
  <2>3. CASE n = R + 1
    <3>1. n + 1 = R + 2  BY <1>3, <2>3
    <3>2. c = "lf"  BY <1>3, <1>5, <3>1
    <3>3. SetValue("SPACE")  BY <2>2, <3>2 DEF Lf
    <3>4. n <= R + 1  BY <2>3
    <3> QED  BY <1>2, <3>1, <3>3, <3>4, ValueMore
  <2>4. CASE n # R + 1
    <3>1. n \in 1 .. R /\ n \in 1 .. n  BY <1>3, <2>1, <2>4
    <3>2. Raw(h)[n] = "cr"  BY <1>3, <2>1, <3>1
    <3>3. n # R
      <4>1. Raw(h) # << >>  BY <1>3, <3>1
      <4> QED  BY <1>4, <3>2, <4>1 DEF OneLine
    <3>4. n \in 1 .. R - 1 /\ n + 1 \in 1 .. R  BY <1>3, <3>1, <3>3
    <3>5. Raw(h)[n + 1] # "lf"  BY <1>4, <3>2, <3>4 DEF OneLine
    <3>6. c # "lf"  BY <1>3, <1>5, <3>4, <3>5
    <3>7. SetValue("VALUE")  BY <2>2, <3>6 DEF Lf
    <3>8. n + 1 <= R /\ n <= R + 1  BY <1>3, <3>4
    <3> QED  BY <1>2, <3>7, <3>8, ValueMore
  <2> QED  BY <2>3, <2>4
<1> QED  BY <1>2, <1>6, <1>7

\* A value that begins with no space keeps all its bytes when spaces before it are dropped.
LEMMA JumpOne ==
  ASSUME NEW v \in Line, v # << >>, v[1] # "sp"
  PROVE  JumpFirstSpaces(<<"sp">> \o v) = v
<1> DEFINE s == <<"sp">> \o v
           Spaces == {i \in DOMAIN s : \A j \in 1 .. i : s[j] = "sp"}
<1>1. /\ s \in Line /\ Len(s) = 1 + Len(v) /\ Len(v) \in Nat \ {0} /\ s[1] = "sp"
      /\ \A i \in 1 .. Len(v) : s[1 + i] = v[i]
  <2> DEFINE p == <<"sp">>
  <2>1. p \in Line /\ Len(p) = 1 /\ p[1] = "sp"
    <3>1. "sp" \in Class  BY DEF Class
    <3> HIDE DEF Class
    <3> QED  BY <3>1 DEF Line
  <2> HIDE DEF p
  <2>2. /\ p \o v \in Line /\ Len(p \o v) = Len(p) + Len(v)
        /\ \A i \in 1 .. Len(p) : (p \o v)[i] = p[i]
        /\ \A i \in 1 .. Len(v) : (p \o v)[Len(p) + i] = v[i]
    BY <2>1, JoinedShape
  <2>3. (p \o v)[1] = "sp"  BY <2>1, <2>2
  <2>4. Len(v) \in Nat \ {0}  BY DEF Line
  <2> QED  BY <2>1, <2>2, <2>3, <2>4 DEF p
<1> HIDE DEF s
<1>2. s[2] # "sp"
  <2>1. 1 \in 1 .. Len(v) /\ 1 + 1 = 2  BY <1>1
  <2>2. s[1 + 1] = v[1]  BY <1>1, <2>1
  <2> QED  BY <2>2
<1>3. Spaces = {1}
  <2>1. DOMAIN s = 1 .. Len(s)  BY <1>1 DEF Line
  <2>2. 1 \in DOMAIN s /\ \A j \in 1 .. 1 : s[j] = "sp"  BY <1>1, <2>1
  <2>3. ASSUME NEW i \in DOMAIN s, \A j \in 1 .. i : s[j] = "sp" PROVE i = 1
    <3>1. i \in Nat /\ i >= 1  BY <1>1, <2>1
    <3>2. i >= 2 => 2 \in 1 .. i  BY <3>1
    <3> QED  BY <1>2, <2>3, <3>1, <3>2
  <2> QED  BY <2>2, <2>3
<1>4. Cardinality(Spaces) = 1
  <2> HIDE DEF Spaces
  <2> QED  BY <1>3, FS_Singleton
<1>5. JumpFirstSpaces(s) = SubSeq(s, 2, Len(s))
  <2>1. JumpFirstSpaces(s) = SubSeq(s, 1 + Cardinality(Spaces), Len(s))
    BY DEF JumpFirstSpaces
  <2> HIDE DEF Spaces
  <2> QED  BY <1>4, <2>1
<1> DEFINE u == SubSeq(s, 2, Len(s))
<1>6. /\ u \in Line /\ Len(u) = IF 2 <= Len(s) THEN Len(s) - 2 + 1 ELSE 0
      /\ \A i \in 1 .. Len(s) - 2 + 1 : u[i] = s[2 + i - 1]
  <2>1. 2 \in Nat \ {0} /\ Len(s) \in 0 .. Len(s)  BY <1>1
  <2> QED  BY <1>1, <2>1, SubLine
<1> HIDE DEF u
<1>7. Len(u) = Len(v) /\ \A i \in 1 .. Len(v) : u[i] = v[i]
  <2>1. Len(s) - 2 + 1 = Len(v) /\ 2 <= Len(s)  BY <1>1
  <2>2. \A i \in 1 .. Len(v) : 2 + i - 1 = 1 + i  BY <1>1
  <2> QED  BY <1>1, <1>6, <2>1, <2>2
<1>8. u = v
  <2>1. u \in Seq(Class) /\ v \in Seq(Class)  BY <1>6 DEF Line
  <2> HIDE DEF Class
  <2> QED  BY <1>7, <2>1, SeqEqual
<1> QED  BY <1>5, <1>8 DEF u, s

\* The digits of a number after a space are read as that number.
LEMMA AtouNumeral ==
  ASSUME NEW s \in DOMAIN Numeral
  PROVE  Atou(<<"sp">> \o s) = Numeral[s]
<1> DEFINE v == <<"sp">> \o s
           begun == {t \in DOMAIN Numeral : \E i \in 0 .. Len(v) : ReadAt(v, t, i)}
<1>1. \A t \in DOMAIN Numeral : t \in Seq(Digits) /\ t # << >> /\ Len(t) \in Nat \ {0}
  <2>1. \A t \in DOMAIN Numeral : t \in Seq(Digits) /\ t # << >>  BY HeaderAssumption
  <2> HIDE DEF Digits
  <2> QED  BY <2>1
<1>2. /\ Len(v) = 1 + Len(s) /\ v[1] = "sp" /\ v \in Seq(Class)
      /\ \A i \in 1 .. Len(s) : v[1 + i] = s[i] /\ s[i] \in Digits
  <2>1. "sp" \in Class /\ Digits \subseteq Class  BY DEF Class, Text
  <2> HIDE DEF Class, Digits, v
  <2>2. <<"sp">> \in Seq(Class) /\ s \in Seq(Class) /\ s \in Seq(Digits)  BY <1>1, <2>1
  <2>3. /\ v \in Seq(Class) /\ Len(v) = 1 + Len(s)
        /\ \A i \in 1 .. 1 + Len(s) : v[i] = IF i <= 1 THEN <<"sp">>[i] ELSE s[i - 1]
    BY <2>2, ConcatProperties DEF v
  <2>4. v[1] = "sp"  BY <1>1, <2>3
  <2>5. ASSUME NEW i \in 1 .. Len(s) PROVE v[1 + i] = s[i] /\ s[i] \in Digits
    <3>1. 1 + i \in 1 .. 1 + Len(s) /\ ~ (1 + i <= 1) /\ (1 + i) - 1 = i  BY <1>1
    <3> QED  BY <2>2, <2>3, <3>1
  <2> QED  BY <2>3, <2>4, <2>5
<1>3. "sp" \notin Digits /\ "cr" \notin Digits /\ "lf" \notin Digits  BY DEF Digits
<1>4. \A t \in DOMAIN Numeral, i \in 0 .. Len(v) :
        /\ i + Len(t) <= Len(v)
        => (SubSeq(v, i + 1, i + Len(t)) = t <=> \A j \in 1 .. Len(t) : v[i + j] = t[j])
  <2> SUFFICES ASSUME NEW t \in DOMAIN Numeral, NEW i \in 0 .. Len(v), i + Len(t) <= Len(v)
               PROVE  SubSeq(v, i + 1, i + Len(t)) = t
                        <=> \A j \in 1 .. Len(t) : v[i + j] = t[j]
    OBVIOUS
  <2> DEFINE u == SubSeq(v, i + 1, i + Len(t))
  <2>1. Len(t) \in Nat /\ Len(v) \in Nat /\ i \in Nat /\ t \in Seq(Digits)  BY <1>1, <1>2
  <2>2. Digits \subseteq Class  BY DEF Class, Text
  <2> HIDE DEF Class, Digits, v
  <2>3. t \in Seq(Class)  BY <2>1, <2>2
  <2>4. /\ u \in Seq(Class) /\ Len(u) = Len(t)
        /\ \A j \in 1 .. Len(t) : u[j] = v[i + j]
    <3>1. i + 1 \in 1 .. Len(v) + 1 /\ i + Len(t) \in i .. Len(v)  BY <2>1
    <3>2. /\ u \in Seq(Class) /\ Len(u) = (i + Len(t)) - (i + 1) + 1
          /\ \A j \in 1 .. (i + Len(t)) - (i + 1) + 1 : u[j] = v[(i + 1) + j - 1]
      BY <1>2, <2>1, <3>1, SubSeqProperties
    <3>3. (i + Len(t)) - (i + 1) + 1 = Len(t)  BY <2>1
    <3>4. \A j \in 1 .. Len(t) : (i + 1) + j - 1 = i + j  BY <2>1
    <3> QED  BY <3>2, <3>3, <3>4
  <2> HIDE DEF u
  <2>5. ASSUME \A j \in 1 .. Len(t) : v[i + j] = t[j] PROVE u = t
    <3>1. \A j \in 1 .. Len(t) : u[j] = t[j]  BY <2>4, <2>5
    <3> QED  BY <2>3, <2>4, <3>1, SeqEqual
  <2> QED  BY <2>4, <2>5 DEF u
<1> HIDE DEF Class, Digits, v
<1>5. s \in begun
  <2>1. 1 \in 0 .. Len(v) /\ 1 + Len(s) <= Len(v) /\ ~ (1 + Len(s) < Len(v))  BY <1>1, <1>2
  <2>2. \A j \in 1 .. 1 : v[j] \in {"sp", "cr", "lf"}  BY <1>2
  <2>3. SubSeq(v, 1 + 1, 1 + Len(s)) = s  BY <1>2, <1>4, <2>1
  <2>4. ReadAt(v, s, 1)  BY <2>1, <2>2, <2>3 DEF ReadAt
  <2> QED  BY <2>1, <2>4
<1>6. ASSUME NEW t \in begun PROVE t = s
  <2>1. PICK i \in 0 .. Len(v) : ReadAt(v, t, i)  OBVIOUS
  <2>2. /\ t \in DOMAIN Numeral /\ t \in Seq(Digits) /\ Len(t) \in Nat \ {0}
        /\ s \in Seq(Digits) /\ Len(s) \in Nat \ {0} /\ i \in Nat
    BY <1>1, <1>2
  <2>3. /\ \A j \in 1 .. i : v[j] \in {"sp", "cr", "lf"}
        /\ i + Len(t) <= Len(v) /\ SubSeq(v, i + 1, i + Len(t)) = t
        /\ i + Len(t) < Len(v) => v[i + Len(t) + 1] \notin Digits
    BY <2>1 DEF ReadAt
  <2>4. \A j \in 1 .. Len(t) : v[i + j] = t[j]  BY <1>4, <2>2, <2>3
  <2>5. \A j \in 1 .. Len(t) : t[j] \in Digits  BY <2>2
  <2>6. i # 0
    <3>1. 1 \in 1 .. Len(t)  BY <2>2
    <3> QED  BY <1>2, <1>3, <2>4, <2>5, <3>1
  <2>7. ~ (i > 1)
    <3>1. SUFFICES ASSUME i > 1 PROVE FALSE  OBVIOUS
    <3>2. 2 \in 1 .. i /\ 1 \in 1 .. Len(s) /\ 1 + 1 = 2  BY <2>2, <3>1
    <3>3. v[2] \in Digits  BY <1>2, <3>2
    <3> QED  BY <1>3, <2>3, <3>2, <3>3
  <2>8. i = 1  BY <2>2, <2>6, <2>7
  <2>9. Len(t) = Len(s)
    <3>1. Len(t) <= Len(s)  BY <1>2, <2>2, <2>3, <2>8
    <3>2. SUFFICES ASSUME Len(t) < Len(s) PROVE FALSE  BY <2>2, <3>1
    <3>3. Len(t) + 1 \in 1 .. Len(s) /\ 1 + (Len(t) + 1) = 1 + Len(t) + 1  BY <2>2, <3>2
    <3>4. v[1 + Len(t) + 1] \in Digits  BY <1>2, <3>3
    <3> QED  BY <1>2, <2>2, <2>3, <2>8, <3>2, <3>4
  <2>10. \A j \in 1 .. Len(t) : t[j] = s[j]  BY <1>2, <2>4, <2>8, <2>9
  <2> QED  BY <2>2, <2>9, <2>10, SeqEqual
<1>7. Atou(v) = IF begun = {} THEN 0 ELSE Numeral[CHOOSE t \in begun : TRUE]  BY DEF Atou
<1> HIDE DEF begun
<1>8. begun # {} /\ (CHOOSE t \in begun : TRUE) = s  BY <1>5, <1>6
<1> QED  BY <1>7, <1>8 DEF v

\* The fields known by name have values that do not begin with a space, and the second
\* one is the content length.
LEMMA KnownValue ==
  ASSUME ProperFields, NEW w \in Written, NEW n \in 1 .. Len(Heads(w))
  PROVE  /\ Heads(w)[n].key \in {<<"K">>, <<"L">>} =>
              Heads(w)[n].value # << >> /\ Heads(w)[n].value[1] # "sp"
         /\ n = 2 => Atou(Raw(Heads(w)[n])) = Len(w.content)
<1> DEFINE H == Heads(w)
           a == w.anvls
           L == Number(Len(w.content))
           h == H[n]
<1>1. /\ Len(H) = 2 + Len(a) /\ Len(a) \in Nat /\ n \in 1 .. Len(H)
      /\ H[1] = [key |-> <<"K">>, value |-> w.id] /\ H[2] = [key |-> <<"L">>, value |-> L]
      /\ \A i \in 1 .. Len(a) : H[i + 2] = a[i]
  <2>1. Len(Heads(w)) = 2 + Len(w.anvls) /\ Len(w.anvls) \in Nat  BY HeadsShape
  <2>2. /\ Heads(w)[1] = [key |-> <<"K">>, value |-> w.id]
        /\ Heads(w)[2] = [key |-> <<"L">>, value |-> Number(Len(w.content))]
        /\ \A i \in 1 .. Len(w.anvls) : Heads(w)[i + 2] = w.anvls[i]
    BY HeadsShape, Zenon
  <2> QED  BY <2>1, <2>2
<1>2. /\ L \in DOMAIN Numeral /\ Numeral[L] = Len(w.content) /\ L # << >>
      /\ L[1] # "sp"
  <2>1. L \in Line /\ L # << >>  BY NumberShape
  <2>2. 1 \in 1 .. Len(L)
    <3> HIDE DEF L
    <3> QED  BY <2>1 DEF Line
  <2>3. \A i \in 1 .. Len(L) : L[i] \notin {"sp", "cr", "lf"}  BY NumberShape
  <2>4. L \in DOMAIN Numeral /\ Numeral[L] = Len(w.content)  BY NumberShape
  <2> HIDE DEF L
  <2> QED  BY <2>1, <2>2, <2>3, <2>4
<1> HIDE DEF H, L
<1>3. CASE n = 1
  <2>1. h.value = w.id  BY <1>1, <1>3
  <2>2. w.id # << >> /\ w.id[1] # "sp"  BY HeaderAssumption DEF ProperFields
  <2> QED  BY <1>3, <2>1, <2>2 DEF H
<1>4. CASE n = 2
  <2>1. h.key = <<"L">> /\ h.value = L  BY <1>1, <1>2, <1>4
  <2> HIDE DEF h
  <2>3. h.value # << >> /\ h.value[1] # "sp"  BY <1>2, <2>1
  <2>4. Raw(h) = <<"sp">> \o L  BY <2>1 DEF Raw
  <2>5. Atou(Raw(h)) = Len(w.content)  BY <1>2, <2>4, AtouNumeral
  <2> QED  BY <2>3, <2>5 DEF h, H
<1>5. CASE n > 2
  <2> DEFINE i == n - 2
  <2>1. i \in 1 .. Len(a) /\ i + 2 = n  BY <1>1, <1>5
  <2>2. h = a[i]  BY <1>1, <2>1
  <2> HIDE DEF i, h
  <2>3. Named(h.key)  BY <2>1, <2>2 DEF ProperFields
  <2>4. h.key \notin {<<"K">>, <<"L">>} /\ n # 2  BY <1>1, <1>5, <2>3 DEF Named
  <2> QED  BY <2>4 DEF h, H
<1> QED  BY <1>1, <1>3, <1>4, <1>5

\* What is delivered is the value that was written.
LEMMA DeliveredIsRaw ==
  ASSUME ProperFields, Within, Len(fields) < All, InValue, state = "SPACE"
  PROVE  Delivered = Raw(Present)
<1> DEFINE r == Raw(Present)
           R == Len(r)
<1>1. r \in Line /\ R \in Nat /\ \A i \in 1 .. R : Rest(Present)[i] = r[i]
  <2>1. Raw(Present) \in Line  BY PresentLengths
  <2> QED  BY <2>1, RestShape
<1>2. value \in Line /\ Len(value) = R + 2
      /\ \A i \in 1 .. Len(value) : value[i] = Rest(Present)[i]
  BY DEF InValue, Within, HInv, HTypeOK
<1> HIDE DEF r
<1>3. R \in 0 .. Len(value) /\ 1 \in Nat \ {0} /\ Len(value) - 2 = R  BY <1>1, <1>2
<1>4. Delivered = SubSeq(value, 1, R)  BY <1>3 DEF Delivered
<1> DEFINE u == SubSeq(value, 1, R)
<1>5. /\ u \in Line /\ Len(u) = IF 1 <= R THEN R - 1 + 1 ELSE 0
      /\ \A i \in 1 .. R - 1 + 1 : u[i] = value[1 + i - 1]
  BY <1>2, <1>3, SubLine
<1> HIDE DEF u
<1>6. Len(u) = R
  <2>1. PICK k \in Nat : k = R  BY <1>1
  <2>2. (IF 1 <= k THEN k - 1 + 1 ELSE 0) = k  OBVIOUS
  <2> QED  BY <1>5, <2>1, <2>2
<1>7. \A i \in 1 .. R : u[i] = r[i]
  <2>1. \A i \in 1 .. R : i \in 1 .. R - 1 + 1 /\ 1 + i - 1 = i /\ i \in 1 .. Len(value)
    BY <1>1, <1>2
  <2>2. \A i \in 1 .. R : u[i] = value[i]  BY <1>5, <2>1
  <2> QED  BY <1>1, <1>2, <2>1, <2>2
<1>8. u = r
  <2>1. u \in Seq(Class) /\ r \in Seq(Class)  BY <1>1, <1>5 DEF Line
  <2> HIDE DEF Class
  <2> QED  BY <1>6, <1>7, <2>1, SeqEqual
<1> QED  BY <1>4, <1>8 DEF u, r

\* A field that was read is taken as it was written.
LEMMA SpaceReads ==
  ASSUME ProperFields, Within, Space
  PROVE  Reads' /\ pc' = "header"
<1> DEFINE h == Present
           n == Len(fields)
<1>1. NextIs  BY NextByte
<1>2. state = "SPACE" /\ InValue /\ n < All /\ pc = "header"
  BY DEF Space, Within, Reads, InKey
<1>3. c # "sp" /\ c # "p"  BY <1>1, <1>2, NoText DEF NextIs
<1>4. /\ h \in Field /\ h.key # <<"B">> /\ (h.key = <<"L">> <=> n + 1 = 2)
      /\ h.value \in Line
  BY <1>2, PresentProper DEF HeadProper
<1>5. key = h.key  BY <1>2 DEF InValue
<1>6. TakeField  BY <1>3, <1>4, <1>5 DEF Space
<1>7. Delivered = Raw(h)  BY <1>2, DeliveredIsRaw
<1>8. /\ h.key \in {<<"K">>, <<"L">>} => h.value # << >> /\ h.value[1] # "sp"
      /\ n + 1 = 2 => Atou(Raw(h)) = Len(origin.content)
  <2> DEFINE m == n + 1
  <2>1. m \in 1 .. Len(Heads(origin)) /\ origin \in Written
    BY <1>2, PresentProper DEF All, Within
  <2>2. h = Heads(origin)[m]  BY DEF Present
  <2> HIDE DEF m, h
  <2>3. /\ Heads(origin)[m].key \in {<<"K">>, <<"L">>} =>
             Heads(origin)[m].value # << >> /\ Heads(origin)[m].value[1] # "sp"
        /\ m = 2 => Atou(Raw(Heads(origin)[m])) = Len(origin.content)
    BY <2>1, KnownValue
  <2> QED  BY <2>2, <2>3 DEF m
<1> DEFINE v == IF key \in {<<"K">>, <<"L">>} THEN JumpFirstSpaces(Delivered) ELSE Delivered
<1>9. v = h.value
  <2>1. CASE h.key \in {<<"K">>, <<"L">>}
    <3>1. Raw(h) = <<"sp">> \o h.value  BY <2>1 DEF Raw
    <3>2. JumpFirstSpaces(<<"sp">> \o h.value) = h.value  BY <1>4, <1>8, <2>1, JumpOne
    <3> QED  BY <1>5, <1>7, <2>1, <3>1, <3>2
  <2>2. CASE h.key \notin {<<"K">>, <<"L">>}
    <3>1. Raw(h) = h.value  BY <2>2 DEF Raw
    <3> QED  BY <1>5, <1>7, <2>2, <3>1
  <2> QED  BY <2>1, <2>2
<1>10. /\ fields' = Append(fields, [key |-> key, value |-> v])
       /\ contlen' = IF key = <<"L">> THEN Atou(Delivered) ELSE contlen
       /\ key' = << >> /\ value' = << >> /\ state' = "KEYFIRST"
       /\ UNCHANGED <<text, origin, pc, at, dropped>>
  BY <1>6 DEF TakeField
<1>11. fields' = Append(fields, h)
  <2>1. h = [key |-> h.key, value |-> h.value]
    <3> HIDE DEF h
    <3> QED  BY <1>4 DEF Field
  <2> HIDE DEF h, v
  <2> QED  BY <1>5, <1>9, <1>10, <2>1
<1>12. /\ n \in Nat /\ Len(fields') = n + 1 /\ fields'[n + 1] = h
       /\ \A i \in 1 .. n : fields'[i] = fields[i]
  <2>1. fields \in Seq(Field)  BY DEF Within, HInv, HTypeOK
  <2> DEFINE f == Append(fields, h)
  <2>2. Len(f) = n + 1 /\ f[n + 1] = h /\ \A i \in 1 .. n : f[i] = fields[i]
    <3> HIDE DEF h
    <3> QED  BY <1>4, <2>1, AppendProperties
  <2>3. n \in Nat  BY <2>1
  <2> HIDE DEF f, h
  <2> QED  BY <1>11, <2>2, <2>3 DEF f
<1>13. All' = All /\ Len(fields') <= All'
  <2>1. All' = All  BY <1>10 DEF All
  <2>2. All \in Nat  BY PresentProper
  <2> QED  BY <1>2, <1>12, <2>1, <2>2
<1>14. \A i \in 1 .. Len(fields') : fields'[i] = Heads(origin')[i]
  <2>1. \A i \in 1 .. n : fields[i] = Heads(origin)[i]  BY DEF Within, Reads
  <2>2. h = Heads(origin)[n + 1]  BY DEF Present
  <2>3. \A i \in 1 .. n + 1 : i \in 1 .. n \/ i = n + 1  BY <1>12
  <2> HIDE DEF h, n
  <2>4. \A i \in 1 .. n + 1 : fields'[i] = Heads(origin)[i]  BY <1>12, <2>1, <2>2, <2>3
  <2> QED  BY <1>10, <1>12, <2>4
<1>15. Len(fields') >= 2 => contlen' = Len(origin'.content)
  <2>1. n >= 2 => contlen = Len(origin.content)  BY DEF Within, Reads
  <2>2. CASE n + 1 = 2
    <3>1. key = <<"L">>  BY <1>4, <1>5, <2>2
    <3> QED  BY <1>7, <1>8, <1>10, <2>2, <3>1
  <2>3. CASE n + 1 # 2
    <3>1. contlen' = contlen  BY <1>4, <1>5, <1>10, <2>3
    <3>2. Len(fields') >= 2 => n >= 2  BY <1>12, <2>3
    <3> QED  BY <1>10, <2>1, <3>1, <3>2
  <2> QED  BY <2>2, <2>3
<1>16. at' = Start'
  <2>1. at = Start + Len(h.key) + 1 + Len(value) /\ Len(value) = Len(Raw(h)) + 2
    BY <1>2, <1>5 DEF InValue
  <2>2. Len(Before(origin, n + 1)) = Start + Len(h.key) + 1 + Len(Rest(h))
        /\ Len(Rest(h)) = Len(Raw(h)) + 2
    BY <1>2, PresentLengths
  <2>3. at = Len(Before(origin, n + 1))  BY <2>1, <2>2
  <2>4. Start' = Len(Before(origin, n + 1))  BY <1>10, <1>12 DEF Start
  <2> QED  BY <1>10, <2>3, <2>4
<1>17. dropped' = 0  BY <1>10 DEF Within, Reads
<1>18. Empty' /\ state' = "KEYFIRST"  BY <1>10 DEF Empty
<1> QED  BY <1>2, <1>10, <1>13, <1>14, <1>15, <1>16, <1>17, <1>18 DEF Reads

\* The header of a record was read as it was written.
Took ==
  /\ fields = Heads(origin) /\ dropped = 0
  /\ contlen = Len(origin.content)
  /\ at = Len(WriteHeader(origin))
  /\ datalen + 4 = Len(text)

\* The empty line ends the header.
LEMMA EndLfReads ==
  ASSUME ProperFields, Within, EndLf
  PROVE  pc' = "record" /\ Took'
<1>1. NextIs  BY NextByte
<1>2. state = "ENDLF" /\ at = Start + 1 /\ Len(fields) = All
  BY DEF EndLf, Within, Reads, InKey, InValue
<1>3. c = "lf"  BY <1>1, <1>2 DEF NextIs
<1>4. /\ at' = at + 1 /\ datalen' = datalen + 2 + contlen /\ pc' = "record"
      /\ UNCHANGED <<text, origin, state, key, value, comment, fields, contlen, dropped>>
  BY <1>3 DEF EndLf
<1>5. AtEnd(origin)  BY EndIsThere DEF Within
<1>6. /\ Start \in Nat /\ Len(origin.content) \in Nat
      /\ Len(text) = Start + 2 + Len(origin.content) + 4
      /\ Len(WriteHeader(origin)) = Start + 2
  BY <1>2, <1>5 DEF AtEnd, Start, All, Within
<1>7. All \in Nat /\ All >= 2  BY PresentProper
<1>8. contlen = Len(origin.content) /\ dropped = 0  BY <1>2, <1>7 DEF Within, Reads
<1>9. at < Len(text)  BY <1>1 DEF NextIs
<1>10. at = datalen + dropped + 1 /\ datalen \in Nat
  BY <1>2, <1>9, Reading DEF Within
<1>11. at' = Start + 2 /\ datalen' + 4 = Len(text)
  <2>1. PICK i \in Nat, j \in Nat, k \in Nat :
          i = Start /\ j = Len(origin.content) /\ k = datalen
    BY <1>6, <1>10
  <2>2. at = k + 1 /\ at = i + 1 /\ contlen = j  BY <1>2, <1>8, <1>10, <2>1
  <2>3. datalen' = k + 2 + j /\ Len(text) = i + 2 + j + 4 /\ at' = i + 2
    BY <1>4, <1>6, <2>1, <2>2
  <2>4. datalen' + 4 = Len(text)  BY <2>2, <2>3
  <2> QED  BY <2>1, <2>3, <2>4
<1>12. fields = Heads(origin)
  <2> DEFINE H == Heads(origin)
  <2>1. fields \in Seq(Field) /\ \A i \in 1 .. Len(fields) : fields[i] = H[i]
    BY DEF Within, Reads, HInv, HTypeOK
  <2>2. H \in Seq(Field) /\ Len(H) = Len(fields)  BY <1>2, HeadsShape DEF All, Within
  <2> HIDE DEF H
  <2>3. fields = H  BY <2>1, <2>2, SeqEqual
  <2> QED  BY <2>3 DEF H
<1> QED  BY <1>4, <1>6, <1>8, <1>11, <1>12 DEF Took

\* A record that was written is read back, and its data block is the content.
ReadBack ==
  origin # NoOne =>
    /\ origin \in Written /\ text = StoreRecord(origin)
    /\ pc = "version" => fields = << >>
    /\ pc = "header" => Reads
    /\ pc \in {"record", "held"} => Took
    /\ pc = "held" => datalen # at
    /\ pc = "nil" => origin.content = << >>
    /\ pc \in {"search", "bloc"} => content = origin.content

\* The version.
LEMMA VersionReads ==
  ASSUME ProperFields, HInv, ReadBack, origin # NoOne, Version
  PROVE  ReadBack'
<1> DEFINE p == Before(origin, 0)
<1>1. origin \in Written /\ text = StoreRecord(origin) /\ pc = "version" /\ fields = << >>
  BY DEF ReadBack, Version
<1>2. p = <<"id", "cr", "lf">> /\ Len(p) = 3 /\ p \in Line /\ IsPrefix(p, text)
  <2>1. Len(Heads(origin)) \in Nat  BY <1>1, LinesShape
  <2>2. 0 \in 0 .. Len(Heads(origin))  BY <2>1
  <2>3. Before(origin, 0) \in Line /\ (0 = 0 => p = <<"id", "cr", "lf">> /\ Len(p) = 3)
    BY <1>1, <2>2, BeforeShape
  <2> QED  BY <1>1, <2>2, <2>3, StoredBegins
<1>3. text \in Line /\ Len(text) \in Nat /\ Len(text) >= 3 /\ Head(text) = "id" /\ text # << >>
  <2>1. text \in Seq(Class) /\ p \in Seq(Class)  BY <1>2 DEF HInv, HTypeOK, Line
  <2> HIDE DEF Class
  <2> DEFINE t == text
  <2>2. Len(p) <= Len(text) /\ \A i \in 1 .. Len(p) : p[i] = text[i]
    BY <1>2, <2>1, PrefixPoints
  <2>3. 1 \in 1 .. Len(p) /\ p[1] = "id" /\ Len(p) = 3  BY <1>2
  <2> HIDE DEF p
  <2>4. text[1] = "id" /\ Len(text) \in Nat /\ Len(text) >= 3  BY <2>1, <2>2, <2>3
  <2>5. text # << >> /\ Head(text) = text[1]  BY <2>1, <2>4
  <2> QED  BY <2>1, <2>4, <2>5 DEF Line
<1>4. /\ at' = 3 /\ pc' = "header"
      /\ UNCHANGED <<text, origin, state, key, value, comment, fields, contlen, dropped>>
  BY <1>3 DEF Version
<1>5. Empty /\ state = "KEYFIRST" /\ dropped = 0  BY <1>1 DEF HInv
<1>6. Reads'
  <2>1. fields' = << >> /\ Len(fields') = 0  BY <1>1, <1>4
  <2>2. Start' = 3  BY <1>2, <1>4, <2>1 DEF Start
  <2>3. Len(fields') <= All'
    <3>1. All = 2 + Len(origin.anvls) /\ Len(origin.anvls) \in Nat
      BY <1>1, HeadsShape DEF All
    <3> QED  BY <1>4, <2>1, <3>1 DEF All
  <2>4. \A i \in 1 .. Len(fields') : fields'[i] = Heads(origin')[i]  BY <2>1
  <2>5. Empty' /\ at' = Start' /\ state' = "KEYFIRST"  BY <1>4, <1>5, <2>2 DEF Empty
  <2> QED  BY <1>4, <1>5, <2>1, <2>3, <2>4, <2>5 DEF Reads
<1> QED  BY <1>1, <1>4, <1>6 DEF ReadBack

\* A byte of the header, of those that are written.
LEMMA ParseReads ==
  ASSUME ProperFields, HInv, ReadBack, origin # NoOne, Parse
  PROVE  ReadBack'
<1>1. pc = "header" /\ origin \in Written /\ text = StoreRecord(origin) /\ Reads
  BY DEF Parse, ReadBack
<1>2. Within  BY <1>1 DEF Within
<1>3. state \in {"KEYFIRST", "ENDLF", "KEY", "VALUE", "LF", "SPACE"}
  BY <1>1 DEF Reads, InKey, InValue
<1>4. UNCHANGED <<text, origin>>
  BY DEF Parse, KeyFirst, Key, Value, Lf, Space, Continued, EndLf, Comment, CommentLf, TakeField,
         SetKey, SetValue, SetComment, Skip, Takes, Refuse
<1>5. CASE EndLf
  <2>1. pc' = "record" /\ Took'  BY <1>2, <1>5, EndLfReads
  <2> QED  BY <1>1, <1>4, <2>1 DEF ReadBack
<1>6. CASE ~ EndLf
  <2>1. KeyFirst \/ Key \/ (Value \/ Lf) \/ Space
    BY <1>3, <1>6 DEF Parse, Continued, Comment, CommentLf
  <2>2. Reads' /\ pc' = "header"
    <3>1. CASE KeyFirst  BY <1>2, <3>1, KeyFirstReads
    <3>2. CASE Key  BY <1>2, <3>2, KeyReads
    <3>3. CASE Value \/ Lf  BY <1>2, <3>3, ValueReads
    <3>4. CASE Space  BY <1>2, <3>4, SpaceReads
    <3> QED  BY <2>1, <3>1, <3>2, <3>3, <3>4
  <2> QED  BY <1>1, <1>4, <2>2 DEF ReadBack
<1> QED  BY <1>5, <1>6

\* The end of a header that was read.
LEMMA TookPlace ==
  ASSUME ProperFields, HInv, origin \in Written, text = StoreRecord(origin), Took
  PROVE  /\ at \in Nat /\ Len(origin.content) \in Nat /\ datalen = at + Len(origin.content)
         /\ Len(text) = datalen + 4
         /\ SubSeq(text, at + 1, datalen) = origin.content
<1> DEFINE s == Len(Before(origin, Len(Heads(origin))))
           l == Len(origin.content)
<1>1. AtEnd(origin)  BY EndIsThere
<1>2. /\ s \in Nat /\ l \in Nat /\ Len(text) = s + 2 + l + 4
      /\ Len(WriteHeader(origin)) = s + 2
      /\ SubSeq(text, s + 3, s + 2 + l) = origin.content
  BY <1>1 DEF AtEnd
<1>3. at = s + 2 /\ datalen + 4 = Len(text) /\ datalen \in Int
  <2>1. at = s + 2 /\ datalen + 4 = Len(text)  BY <1>2 DEF Took
  <2>2. datalen \in Nat  BY DEF HInv, HTypeOK
  <2> QED  BY <2>1, <2>2
<1> HIDE DEF s, l
<1>4. datalen = s + 2 + l  BY <1>2, <1>3
<1>5. at + 1 = s + 3 /\ datalen = s + 2 + l /\ SubSeq(text, at + 1, datalen) = origin.content
  <2>1. at + 1 = s + 3  BY <1>2, <1>3
  <2> QED  BY <1>2, <1>4, <2>1
<1>6. at \in Nat /\ datalen = at + l /\ Len(text) = datalen + 4  BY <1>2, <1>3, <1>4
<1> QED  BY <1>2, <1>5, <1>6 DEF l

\* From the header to the data block.
LEMMA GetBlocReads ==
  ASSUME ProperFields, HInv, ReadBack, origin # NoOne, GetBlocNext
  PROVE  ReadBack'
<1>1. pc \in {"record", "held"}
  BY DEF GetBlocNext, NextRecord, GetBloc, GetBlocFails, GetBlocAborts
<1>2. UNCHANGED <<text, origin, at, state, key, value, comment, fields, datalen, contlen, dropped>>
  BY DEF GetBlocNext, NextRecord, GetBloc, GetBlocFails, GetBlocAborts, Moves
<1>3. origin \in Written /\ text = StoreRecord(origin) /\ Took  BY <1>1 DEF ReadBack
<1>4. Took'  BY <1>2, <1>3 DEF Took
<1>5. /\ at \in Nat /\ Len(origin.content) \in Nat /\ datalen = at + Len(origin.content)
      /\ Len(text) = datalen + 4 /\ SubSeq(text, at + 1, datalen) = origin.content
  BY <1>3, TookPlace
<1>6. CASE NextRecord
  <2>1. pc' = IF datalen = at THEN "nil" ELSE "held"  BY <1>6 DEF NextRecord
  <2>2. ASSUME datalen = at PROVE origin.content = << >>
    <3>1. Len(origin.content) = 0  BY <1>5, <2>2
    <3>2. origin.content \in Seq(Class)  BY <1>3, HeaderAssumption DEF Line
    <3> HIDE DEF Class
    <3> QED  BY <3>1, <3>2, EmptySeq
  <2> QED  BY <1>2, <1>3, <1>4, <2>1, <2>2 DEF ReadBack
<1>7. CASE GetBloc
  <2>1. pc = "held" /\ pc' = "search" /\ content' = Block  BY <1>7 DEF GetBloc, Moves
  <2>2. datalen # at  BY <2>1 DEF ReadBack
  <2>3. at < datalen /\ datalen <= Len(text)  BY <1>5, <2>2
  <2>4. Block = origin.content  BY <1>5, <2>3 DEF Block
  <2> QED  BY <1>2, <1>3, <2>1, <2>4 DEF ReadBack
<1>8. CASE GetBlocFails \/ GetBlocAborts
  <2>1. pc' \in {"nobloc", "aborted"}  BY <1>8 DEF GetBlocFails, GetBlocAborts, Moves
  <2> QED  BY <1>2, <1>3, <2>1 DEF ReadBack
<1> QED  BY <1>6, <1>7, <1>8 DEF GetBlocNext

\* Every step keeps what was read back.
LEMMA ReadBackStep ==
  ASSUME ProperFields, BInv, ReadBack, [Next]_vars
  PROVE  ReadBack'
<1>1. HInv  BY DEF BInv
<1>2. UNCHANGED <<text, origin>>
  BY DEF Next, ReadHeader, HNext, Version, Parse, KeyFirst, Key, Value, Lf, Space, Continued, EndLf,
         Comment, CommentLf, TakeField, SetKey, SetValue, SetComment, Skip, Takes, Truncated,
         Refuse,
         GetBlocNext, NextRecord, GetBloc, GetBlocFails, GetBlocAborts, Moves, GetContent,
         SearchLine, SearchLineEnd, Ignore, Write, Searches, Made, Deliver, NextOver, NextChunk,
         Delivers,
         Copy, CopyOver, CopyRest, Copied, vars, hvars
<1>3. CASE origin = NoOne  BY <1>2, <1>3 DEF ReadBack
<1>4. CASE origin # NoOne
  <2>1. CASE ReadHeader
    <3>1. CASE Version  BY <1>1, <1>4, <3>1, VersionReads
    <3>2. CASE Parse  BY <1>1, <1>4, <3>2, ParseReads
    <3>3. CASE Truncated
      <4>1. pc = "header" /\ ~ (at < Len(text))
        <5>1. at \in Nat /\ Len(text) \in Nat  BY <1>1 DEF HInv, HTypeOK, Line
        <5> QED  BY <3>3, <5>1 DEF Truncated
      <4>2. Within  BY <1>1, <1>4, <4>1 DEF Within, ReadBack
      <4>3. NextIs  BY <4>2, NextByte
      <4> QED  BY <4>1, <4>3 DEF NextIs
    <3> QED  BY <2>1, <3>1, <3>2, <3>3 DEF ReadHeader, HNext
  <2>2. CASE GetBlocNext  BY <1>1, <1>4, <2>2, GetBlocReads
  <2>3. CASE GetContent \/ Deliver \/ Copy \/ UNCHANGED vars
    <3>1. \/ UNCHANGED <<hvars, content>>
          \/ Made
      BY <2>3 DEF GetContent, SearchLine, SearchLineEnd, Ignore, Write, Searches, Deliver, NextOver,
                  NextChunk, Delivers, Copy, CopyOver, CopyRest, Copied, vars, bvars
    <3>2. CASE UNCHANGED <<hvars, content>>
      BY <3>2 DEF ReadBack, hvars, Reads, Took, InKey, InValue, Empty, All, Start, Present
    <3>3. CASE Made
      <4>1. pc = "search" /\ pc' = "bloc" /\ content' = content  BY <3>3 DEF Made, Moves, bvars
      <4> QED  BY <1>2, <1>4, <4>1 DEF ReadBack
    <3> QED  BY <3>1, <3>2, <3>3
  <2> QED  BY <2>1, <2>2, <2>3 DEF Next
<1> QED  BY <1>3, <1>4

\* Every header that WFile_storeRecord writes (wfile.c:1930) is read back by the automaton
\* (wfsmanvl.c:146) as it was written, and its data block is the content, when the values
\* are on one line and the names are text.
THEOREM WrittenIsReadCorrect ==
  ASSUME ProperFields
  PROVE  Spec => []WrittenIsRead
<1>1. Init => ReadBack
  <2> SUFFICES ASSUME Init, origin # NoOne PROVE ReadBack  BY DEF ReadBack
  <2>1. origin \in Written /\ text = StoreRecord(origin) /\ pc = "version" /\ fields = << >>
    BY DEF Init, HInit
  <2> QED  BY <2>1 DEF ReadBack
<1>2. BInv /\ ReadBack /\ [Next]_vars => ReadBack'  BY ReadBackStep
<1>3. ReadBack => WrittenIsRead
  <2> SUFFICES ASSUME ReadBack, origin # NoOne PROVE WrittenIsRead  BY DEF WrittenIsRead
  <2>1. pc = "nil" => origin.content = << >>  BY DEF ReadBack
  <2>2. pc = "record" => Took  BY DEF ReadBack
  <2> QED  BY <2>1, <2>2 DEF WrittenIsRead, Took, Heads
<1>4. Spec => []BInv  BY BlocInvariant
<1> QED  BY <1>1, <1>2, <1>3, <1>4, PTL DEF Spec

-----------------------------------------------------------------------------
(* The search for the payload. *)

\* Two CR in a row before byte e.
TwoCrs(s, e) == \E i \in 1 .. e - 1 : s[i] = "cr" /\ s[i + 1] = "cr"

\* No HTTP header is to be dropped; the first empty line; one is to be dropped, and the
\* data block is one of those that PayloadExact is about.
Plain    == uri # "other" \/ ~ withhttp
E        == FirstEmpty(content)
Ordinary == ~ Plain /\ Empties(content) # {} /\ ~ TwoCrs(content, E)

\* The first empty line is not behind; where the present line began and what is known
\* of it; no line before it is a status line.
Searching ==
  /\ read <= E
  /\ wasCr = (read >= 1 /\ content[read] = "cr")
  /\ \E l \in 1 .. read + 1 :
       /\ LineStart(content, l) /\ \A k \in l + 1 .. read + 1 : ~ LineStart(content, k)
       /\ \A k \in 1 .. l - 1 : ~ (LineStart(content, k) /\ content[k] = "h")
       /\ line = "empty" <=> read = l - 1 \/ (read = l /\ content[l] = "cr")
       /\ line = "http" <=> read >= l /\ content[l] = "h"

\* Where the automaton is after byte k of s: at the start of a line, behind the CR of
\* an empty one, behind another CR, or within a line.
Stage(s, k) ==
  CASE LineStart(s, k + 1) -> {"S11", "S3"}
    [] LineStart(s, k) /\ s[k] = "cr" -> {"S12", "S4"}
    [] ~ LineStart(s, k) /\ s[k] = "cr" -> {"S2"}
    [] OTHER -> {"S1"}

\* A status line is behind, the first empty line is not.
Ignoring == HttpBefore(content, E) /\ read \in 1 .. E /\ fsm \in Stage(content, read)

\* Where the temporary file begins.
Found ==
  \/ HttpBefore(content, E) /\ from = E + 1
  \/ ~ HttpBefore(content, E) /\ (E + 1 <= unit => from = 0)

\* Every byte of the data block was given to the search that is due.
Sought ==
  /\ pc \in {"version", "header", "record", "held"} => ~ wasCr /\ line = "empty"
  /\ pc \in {"search", "bloc"} =>
       /\ act \in {"SEARCHING_HTTP", "IGNORE_ALL", "WRITEING"}
       /\ Plain => act = "WRITEING" /\ from = 0
       /\ Ordinary => /\ act = "SEARCHING_HTTP" => Searching
                      /\ act = "IGNORE_ALL" => Ignoring
                      /\ act = "WRITEING" => Found

\* The first empty line.
LEMMA FirstEmptyIs ==
  ASSUME NEW s \in Line, Empties(s) # {}
  PROVE  /\ FirstEmpty(s) \in Nat /\ FirstEmpty(s) >= 1 /\ FirstEmpty(s) + 1 <= Len(s)
         /\ LineStart(s, FirstEmpty(s)) /\ s[FirstEmpty(s)] = "cr" /\ s[FirstEmpty(s) + 1] = "lf"
         /\ \A k \in Empties(s) : FirstEmpty(s) <= k
<1> DEFINE e == FirstEmpty(s)
<1>1. Len(s) \in Nat  BY DEF Line
<1>2. Empties(s) \subseteq Nat  BY <1>1 DEF Empties
<1>3. e \in Empties(s) /\ \A k \in Empties(s) : e <= k
  <2>1. \E k \in Empties(s) : \A j \in Empties(s) : k <= j  BY <1>2, LeastNumber
  <2> DEFINE T == Empties(s)
  <2> HIDE DEF T
  <2>2. \E k \in T : \A j \in T : k <= j  BY <2>1 DEF T
  <2>3. (CHOOSE k \in T : \A j \in T : k <= j) \in T
        /\ \A j \in T : (CHOOSE k \in T : \A i \in T : k <= i) <= j
    BY <2>2
  <2> QED  BY <2>3 DEF T, FirstEmpty
<1>4. e \in 1 .. Len(s) - 1 /\ LineStart(s, e) /\ s[e] = "cr" /\ s[e + 1] = "lf"
  <2> HIDE DEF e
  <2> QED  BY <1>3 DEF Empties
<1>5. e \in Nat /\ e >= 1 /\ e + 1 <= Len(s)
  <2> HIDE DEF e
  <2> QED  BY <1>1, <1>4
<1> QED  BY <1>3, <1>4, <1>5

\* Where a line begins.
LEMMA LineStarts ==
  ASSUME NEW s
  PROVE  /\ LineStart(s, 1)
         /\ \A k \in Nat \ {0} : LineStart(s, k + 2) <=> s[k] = "cr" /\ s[k + 1] = "lf"
         /\ \A k \in Nat : k # 1 /\ LineStart(s, k) => k > 2 /\ s[k - 1] = "lf" /\ s[k - 2] = "cr"
<1>1. ASSUME NEW k \in Nat \ {0}
      PROVE  LineStart(s, k + 2) <=> s[k] = "cr" /\ s[k + 1] = "lf"
  <2>1. k + 2 # 1 /\ k + 2 > 2 /\ (k + 2) - 2 = k /\ (k + 2) - 1 = k + 1  OBVIOUS
  <2> QED  BY <2>1 DEF LineStart
<1> QED  BY <1>1 DEF LineStart

\* What is known of an ordinary data block while it is searched.
OrdinaryBlock ==
  /\ E \in Nat /\ E >= 1 /\ E + 1 <= Len(content) /\ Len(content) \in Nat
  /\ LineStart(content, E) /\ content[E] = "cr" /\ content[E + 1] = "lf"
  /\ \A k \in 1 .. Len(content) - 1 :
       LineStart(content, k) /\ content[k] = "cr" /\ content[k + 1] = "lf" => E <= k
  /\ \A k \in 1 .. E - 1 : ~ (content[k] = "cr" /\ content[k + 1] = "cr")
  /\ read \in Nat /\ read < Len(content)

\* It is known of each of them that is not at its end.
LEMMA OrdinaryShape ==
  ASSUME BInv, Ordinary, read < Len(content)
  PROVE  OrdinaryBlock
<1>1. content \in Line /\ Empties(content) # {} /\ ~ TwoCrs(content, E)
  BY DEF BInv, TypeOK, Ordinary
<1>2. Len(content) \in Nat /\ read \in Nat  BY DEF BInv, TypeOK, Line
<1>3. /\ E \in Nat /\ E >= 1 /\ E + 1 <= Len(content)
      /\ LineStart(content, E) /\ content[E] = "cr" /\ content[E + 1] = "lf"
      /\ \A k \in Empties(content) : E <= k
  BY <1>1, FirstEmptyIs DEF E
<1>4. \A k \in 1 .. Len(content) - 1 :
        LineStart(content, k) /\ content[k] = "cr" /\ content[k + 1] = "lf" => E <= k
  BY <1>3 DEF Empties
<1>5. \A k \in 1 .. E - 1 : ~ (content[k] = "cr" /\ content[k + 1] = "cr")  BY <1>1 DEF TwoCrs
<1> QED  BY <1>2, <1>3, <1>4, <1>5 DEF OrdinaryBlock

\* What does not change while a data block is searched.
LEMMA SameBlock ==
  ASSUME UNCHANGED <<hvars, choices, content>>
  PROVE  Plain' = Plain /\ E' = E /\ Ordinary' = Ordinary /\ unit' = unit /\ pc' = pc
BY DEF hvars, choices, Plain, E, Ordinary, FirstEmpty, Empties, LineStart, TwoCrs

\* The first bytes of a block are in the first buffer.
LEMMA FirstBuffer ==
  ASSUME NEW r \in Nat, NEW u \in Nat, r < u
  PROVE  r - (r % u) = 0
<1>1. r % u = r  OBVIOUS
<1> QED  BY <1>1

\* A byte within a line.
LEMMA SearchLineSearches ==
  ASSUME TypeOK, OrdinaryBlock, Searching, SearchLine, E' = E
  PROVE  Searching'
<1> DEFINE s == content
           r == read
           e == E
<1>1. /\ e \in Nat /\ e >= 1 /\ r \in Nat /\ r <= e
      /\ s[e] = "cr" /\ s[e + 1] = "lf"
      /\ \A k \in 1 .. e - 1 : ~ (s[k] = "cr" /\ s[k + 1] = "cr")
  BY DEF OrdinaryBlock, Searching
<1>2. /\ content' = s /\ read' = r + 1 /\ ~ (wasCr /\ s[r + 1] = "lf")
      /\ wasCr = (r >= 1 /\ s[r] = "cr") /\ wasCr' = (s[r + 1] = "cr")
  BY DEF SearchLine, Searches, b, Searching
<1>3. LET before == IF wasCr /\ ~ (b = "cr" /\ First) THEN Longer(line, "cr") ELSE line
      IN  line' = IF b = "cr" THEN before ELSE Longer(before, b)
  BY DEF SearchLine
<1>4. PICK l \in 1 .. r + 1 :
        /\ LineStart(s, l) /\ \A k \in l + 1 .. r + 1 : ~ LineStart(s, k)
        /\ \A k \in 1 .. l - 1 : ~ (LineStart(s, k) /\ s[k] = "h")
        /\ line = "empty" <=> r = l - 1 \/ (r = l /\ s[l] = "cr")
        /\ line = "http" <=> r >= l /\ s[l] = "h"
  BY DEF Searching
<1>5. line \in {"empty", "http", "other"}  BY DEF TypeOK
<1>6. b = s[r + 1]  BY DEF b
<1>7. /\ \A k \in Nat \ {0} : LineStart(s, k + 2) <=> s[k] = "cr" /\ s[k + 1] = "lf"
      /\ \A k \in Nat : k # 1 /\ LineStart(s, k) => k > 2 /\ s[k - 1] = "lf" /\ s[k - 2] = "cr"
  BY LineStarts
<1> HIDE DEF s, r, e
<1>8. r < e
  <2> SUFFICES ASSUME r = e PROVE FALSE  BY <1>1
  <2>1. wasCr  BY <1>1, <1>2
  <2> QED  BY <1>1, <1>2, <2>1
<1>9. ~ (wasCr /\ s[r + 1] = "cr")
  <2> SUFFICES ASSUME wasCr, s[r + 1] = "cr" PROVE FALSE  OBVIOUS
  <2>1. r >= 1 /\ s[r] = "cr"  BY <1>2
  <2>2. r \in 1 .. e - 1  BY <1>1, <1>8, <2>1
  <2> QED  BY <1>1, <2>1, <2>2
<1>10. ~ LineStart(s, r + 2)
  <2>1. CASE r = 0
    <3>1. r + 2 \in Nat /\ r + 2 # 1 /\ ~ (r + 2 > 2)  BY <2>1
    <3> QED  BY <1>7, <3>1
  <2>2. CASE r # 0
    <3>1. r \in Nat \ {0} /\ r >= 1  BY <1>1, <2>2
    <3> QED  BY <1>2, <1>7, <3>1
  <2> QED  BY <2>1, <2>2
<1>11. l \in 1 .. (r + 1) + 1 /\ \A k \in l + 1 .. (r + 1) + 1 : ~ LineStart(s, k)
  <2>1. \A k \in l + 1 .. (r + 1) + 1 : k \in l + 1 .. r + 1 \/ k = r + 2  BY <1>1
  <2> QED  BY <1>1, <1>4, <1>10, <2>1
<1>12. /\ line' = "empty" <=> r + 1 = l - 1 \/ (r + 1 = l /\ s[l] = "cr")
       /\ line' = "http" <=> r + 1 >= l /\ s[l] = "h"
  <2>1. r \in Nat /\ l \in Nat /\ 1 <= l /\ l <= r + 1  BY <1>1
  <2>2. CASE r = l - 1
    <3>1. line = "empty" /\ l = r + 1  BY <1>4, <2>1, <2>2
    <3>2. ~ wasCr
      <4>1. SUFFICES ASSUME r >= 1, s[r] = "cr" PROVE FALSE  BY <1>2
      <4>2. l \in Nat /\ l # 1 /\ l - 1 = r  BY <2>1, <3>1, <4>1
      <4>3. s[l - 1] = "lf"  BY <1>4, <1>7, <4>2
      <4> QED  BY <4>1, <4>2, <4>3
    <3>3. line' = IF s[r + 1] = "cr" THEN line ELSE Longer(line, s[r + 1])  BY <1>3, <1>6, <3>2
    <3>4. line' = IF s[l] = "cr" THEN "empty" ELSE IF s[l] = "h" THEN "http" ELSE "other"
      BY <3>1, <3>3 DEF Longer
    <3> QED  BY <2>1, <3>1, <3>4
  <2>3. CASE r = l /\ s[l] = "cr"
    <3>1. line = "empty" /\ wasCr /\ s[r + 1] # "cr"  BY <1>2, <1>4, <1>9, <2>1, <2>3
    <3>2. line' = Longer(Longer(line, "cr"), s[r + 1])  BY <1>3, <1>6, <3>1
    <3>3. line' = "other"  BY <3>1, <3>2 DEF Longer
    <3> QED  BY <2>1, <2>3, <3>3
  <2>4. CASE r >= l /\ ~ (r = l /\ s[l] = "cr")
    <3>1. line # "empty"  BY <1>4, <2>1, <2>4
    <3>2. line' = line  BY <1>3, <3>1 DEF Longer
    <3> QED  BY <1>4, <2>1, <2>4, <3>1, <3>2
  <2> QED  BY <2>1, <2>2, <2>3, <2>4
<1>13. r + 1 <= e /\ r + 1 >= 1  BY <1>1, <1>8
<1> HIDE <1>3
<1>14. /\ read' <= E'
       /\ wasCr' = (read' >= 1 /\ content'[read'] = "cr")
       /\ l \in 1 .. read' + 1
       /\ LineStart(content', l) /\ \A k \in l + 1 .. read' + 1 : ~ LineStart(content', k)
       /\ \A k \in 1 .. l - 1 : ~ (LineStart(content', k) /\ content'[k] = "h")
       /\ line' = "empty" <=> read' = l - 1 \/ (read' = l /\ content'[l] = "cr")
       /\ line' = "http" <=> read' >= l /\ content'[l] = "h"
  BY <1>2, <1>4, <1>11, <1>12, <1>13 DEF e
<1> QED  BY <1>14 DEF Searching, LineStart

\* The end of a line: it is the first empty one, a status line, or another.
LEMMA SearchLineEndSearches ==
  ASSUME TypeOK, OrdinaryBlock, Searching, SearchLineEnd, E' = E, unit \in Nat \ {0}
  PROVE  \/ act' = "SEARCHING_HTTP" /\ Searching'
         \/ act' = "IGNORE_ALL" /\ Ignoring'
         \/ act' = "WRITEING" /\ Found'
<1> DEFINE s == content
           r == read
           e == E
<1>1. /\ e \in Nat /\ e >= 1 /\ r \in Nat /\ r <= e /\ r < Len(s) /\ Len(s) \in Nat
      /\ LineStart(s, e) /\ s[e] = "cr" /\ s[e + 1] = "lf"
      /\ \A k \in 1 .. Len(s) - 1 : LineStart(s, k) /\ s[k] = "cr" /\ s[k + 1] = "lf" => e <= k
  BY DEF OrdinaryBlock, Searching
<1>2. /\ content' = s /\ read' = r + 1 /\ s[r + 1] = "lf" /\ r >= 1 /\ s[r] = "cr"
      /\ wasCr' = FALSE /\ unit' = unit /\ act = "SEARCHING_HTTP"
  BY DEF SearchLineEnd, Searches, b, Searching, choices
<1>3. PICK l \in 1 .. r + 1 :
        /\ LineStart(s, l) /\ \A k \in l + 1 .. r + 1 : ~ LineStart(s, k)
        /\ \A k \in 1 .. l - 1 : ~ (LineStart(s, k) /\ s[k] = "h")
        /\ line = "empty" <=> r = l - 1 \/ (r = l /\ s[l] = "cr")
        /\ line = "http" <=> r >= l /\ s[l] = "h"
  BY DEF Searching
<1>4. /\ \A k \in Nat \ {0} : LineStart(s, k + 2) <=> s[k] = "cr" /\ s[k + 1] = "lf"
      /\ \A k \in Nat : k # 1 /\ LineStart(s, k) => k > 2 /\ s[k - 1] = "lf" /\ s[k - 2] = "cr"
  BY LineStarts
<1>5. \/ line = "empty" /\ act' = "WRITEING" /\ from' = r - (r % unit)
      \/ line = "http" /\ act' = "IGNORE_ALL" /\ fsm' = "S11"
      \/ line = "other" /\ line' = "empty" /\ act' = act
  BY DEF SearchLineEnd, BufferStart
<1>6. (\A k \in 1 .. e - 1 : ~ (LineStart(s, k) /\ s[k] = "h")) => ~ HttpBefore(content, E)
  BY DEF HttpBefore, s, e
<1>7. \A k \in 1 .. e - 1 : LineStart(s, k) /\ s[k] = "h" => HttpBefore(content, E)
  BY DEF HttpBefore, s, e
<1> HIDE DEF s, r, e
<1>8. r \in Nat \ {0} /\ l \in Nat /\ 1 <= l /\ l <= r + 1 /\ Len(s) \in Nat  BY <1>1, <1>2
<1>9. LineStart(s, r + 2)  BY <1>2, <1>4, <1>8
<1>10. r # l - 1
  <2> SUFFICES ASSUME r = l - 1 PROVE FALSE  OBVIOUS
  <2>1. l # 1  BY <1>8
  <2>2. s[l - 1] = "lf"  BY <1>3, <1>4, <1>8, <2>1
  <2> QED  BY <1>2, <2>2
<1>11. CASE line = "empty"
  <2>1. r = l  BY <1>3, <1>10, <1>11
  <2>2. r \in 1 .. Len(s) - 1  BY <1>1, <1>8
  <2>3. LineStart(s, r) /\ s[r] = "cr" /\ s[r + 1] = "lf"  BY <1>2, <1>3, <2>1
  <2>4. e <= r  BY <1>1, <2>2, <2>3
  <2>5. r = e  BY <1>1, <2>4
  <2>6. ~ HttpBefore(content, E)  BY <1>3, <1>6, <2>1, <2>5
  <2>7. act' = "WRITEING" /\ from' = r - (r % unit)  BY <1>5, <1>11
  <2>8. ASSUME e + 1 <= unit PROVE from' = 0
    <3>1. r < unit  BY <1>1, <2>5, <2>8
    <3> QED  BY <1>1, <2>7, <3>1, FirstBuffer
  <2>9. E + 1 <= unit => from' = 0  BY <2>8 DEF e
  <2>10. ~ HttpBefore(content', E') /\ (E' + 1 <= unit' => from' = 0)
    BY <1>2, <2>6, <2>9 DEF s
  <2>11. ~ HttpBefore(content, E)' /\ (E + 1 <= unit => from = 0)'
    BY <2>10 DEF HttpBefore, LineStart
  <2> QED  BY <2>7, <2>11 DEF Found
<1>12. CASE line = "http"
  <2>1. r >= l /\ s[l] = "h"  BY <1>3, <1>12
  <2>2. r > l  BY <1>2, <1>8, <2>1
  <2>3. r # e
    <3>1. r \in l + 1 .. r + 1  BY <1>8, <2>2
    <3> QED  BY <1>1, <1>3, <3>1
  <2>4. r + 1 \in 1 .. e /\ l \in 1 .. e - 1  BY <1>1, <1>8, <2>2, <2>3
  <2>5. HttpBefore(content, E)  BY <1>3, <1>7, <2>1, <2>4
  <2>6. act' = "IGNORE_ALL" /\ fsm' = "S11"  BY <1>5, <1>12
  <2>7. (r + 1) + 1 = r + 2  BY <1>8
  <2>8. fsm' \in Stage(s, r + 1)
    <3>1. Stage(s, r + 1) = {"S11", "S3"}  BY <1>2, <1>9, <2>7 DEF Stage
    <3> QED  BY <2>6, <3>1
  <2>9. /\ HttpBefore(content', E') /\ read' \in 1 .. E'
        /\ fsm' \in Stage(content', read')
    BY <1>2, <2>4, <2>5, <2>8 DEF s, e
  <2>10. Ignoring'  BY <2>9 DEF Ignoring, HttpBefore, LineStart, Stage
  <2> QED  BY <2>6, <2>10
<1>13. CASE line = "other"
  <2>1. line' = "empty" /\ act' = "SEARCHING_HTTP"  BY <1>2, <1>5, <1>13
  <2>2. r >= l /\ ~ (r = l /\ s[l] = "cr") /\ s[l] # "h"
    <3>1. r >= l  BY <1>8, <1>10
    <3> QED  BY <1>3, <1>13, <3>1
  <2>3. r # l  BY <1>2, <2>2
  <2>4. r # e
    <3>1. r \in l + 1 .. r + 1  BY <1>8, <2>2, <2>3
    <3> QED  BY <1>1, <1>3, <3>1
  <2> DEFINE m == r + 2
  <2>5. m \in 1 .. (r + 1) + 1 /\ (r + 1) + 1 = m /\ r + 1 = m - 1 /\ r + 1 # m /\ ~ (r + 1 >= m)
    BY <1>8
  <2>6. \A k \in 1 .. m - 1 : ~ (LineStart(s, k) /\ s[k] = "h")
    <3> TAKE k \in 1 .. m - 1
    <3>1. k \in 1 .. l - 1 \/ k = l \/ k \in l + 1 .. r + 1  BY <1>8
    <3> QED  BY <1>3, <2>2, <3>1
  <2>7. \A k \in m + 1 .. (r + 1) + 1 : ~ LineStart(s, k)  BY <1>8
  <2>8. r + 1 <= e /\ "lf" # "cr"  BY <1>1, <2>4
  <2>9. LineStart(s, m)  BY <1>9
  <2> HIDE DEF m
  <2>10. /\ read' <= E'
         /\ wasCr' = (read' >= 1 /\ content'[read'] = "cr")
         /\ m \in 1 .. read' + 1
         /\ LineStart(content', m) /\ \A k \in m + 1 .. read' + 1 : ~ LineStart(content', k)
         /\ \A k \in 1 .. m - 1 : ~ (LineStart(content', k) /\ content'[k] = "h")
         /\ line' = "empty" <=> read' = m - 1 \/ (read' = m /\ content'[m] = "cr")
         /\ line' = "http" <=> read' >= m /\ content'[m] = "h"
    BY <1>2, <2>1, <2>5, <2>6, <2>7, <2>8, <2>9 DEF e
  <2>11. Searching'  BY <2>10 DEF Searching, LineStart
  <2> QED  BY <2>1, <2>11
<1> QED  BY <1>5, <1>11, <1>12, <1>13

\* A byte of an HTTP header: the search ends behind the first empty line.
LEMMA IgnoreSearches ==
  ASSUME TypeOK, OrdinaryBlock, Ignoring, Ignore, E' = E
  PROVE  \/ act' = "IGNORE_ALL" /\ Ignoring'
         \/ act' = "WRITEING" /\ Found'
<1> DEFINE s == content
           r == read
           e == E
<1>1. /\ e \in Nat /\ e >= 1 /\ r \in Nat /\ r >= 1 /\ r <= e /\ e + 1 <= Len(s)
      /\ Len(s) \in Nat /\ HttpBefore(content, E) /\ fsm \in Stage(s, r)
      /\ LineStart(s, e) /\ s[e] = "cr" /\ s[e + 1] = "lf"
  BY DEF OrdinaryBlock, Ignoring
<1>2. /\ \A k \in 1 .. Len(s) - 1 : LineStart(s, k) /\ s[k] = "cr" /\ s[k + 1] = "lf" => e <= k
      /\ \A k \in 1 .. e - 1 : ~ (s[k] = "cr" /\ s[k + 1] = "cr")
  BY DEF OrdinaryBlock
<1>3. /\ content' = s /\ read' = r + 1 /\ fsm' = IgnoreNext(fsm, s[r + 1])
      /\ act' = IF fsm' = "S5" THEN "WRITEING" ELSE "IGNORE_ALL"
      /\ from' = IF fsm' = "S5" THEN r + 1 ELSE from
  BY DEF Ignore, b
<1>4. /\ \A k \in Nat \ {0} : LineStart(s, k + 2) <=> s[k] = "cr" /\ s[k + 1] = "lf"
      /\ \A k \in Nat : k # 1 /\ LineStart(s, k) => k > 2 /\ s[k - 1] = "lf" /\ s[k - 2] = "cr"
  BY LineStarts
<1> HIDE DEF s, r, e
<1>5. r \in Nat \ {0}  BY <1>1
<1>6. LineStart(s, (r + 1) + 1) <=> s[r] = "cr" /\ s[r + 1] = "lf"
  <2>1. (r + 1) + 1 = r + 2  BY <1>5
  <2> QED  BY <1>4, <1>5, <2>1
<1>7. LineStart(s, r + 1) => s[r] = "lf"
  <2>1. r + 1 \in Nat /\ r + 1 # 1 /\ (r + 1) - 1 = r  BY <1>5
  <2> QED  BY <1>4, <2>1
<1>8. CASE r = e
  <2>1. Stage(s, r) = {"S12", "S4"}
    <3>1. ~ LineStart(s, r + 1)  BY <1>1, <1>7, <1>8
    <3> QED  BY <1>1, <1>8, <3>1 DEF Stage
  <2>2. fsm' = "S5"  BY <1>1, <1>3, <1>8, <2>1 DEF IgnoreNext
  <2>3. act' = "WRITEING" /\ from' = e + 1  BY <1>3, <1>8, <2>2
  <2>4. HttpBefore(content', E') /\ from' = E' + 1  BY <1>1, <1>3, <2>3 DEF s, e
  <2> QED  BY <2>3, <2>4 DEF Found, HttpBefore, LineStart
<1>9. CASE r # e
  <2>1. r < e /\ r \in 1 .. e - 1 /\ r \in 1 .. Len(s) - 1 /\ r + 1 \in 1 .. e  BY <1>1, <1>9
  <2>2. ~ (LineStart(s, r) /\ s[r] = "cr" /\ s[r + 1] = "lf")
    <3> SUFFICES ASSUME LineStart(s, r) /\ s[r] = "cr" /\ s[r + 1] = "lf" PROVE FALSE  OBVIOUS
    <3>1. e <= r  BY <1>2, <2>1
    <3> QED  BY <1>1, <2>1, <3>1
  <2>3. ~ (s[r] = "cr" /\ s[r + 1] = "cr")  BY <1>2, <2>1
  <2> DEFINE A == LineStart(s, r + 1)
             B == LineStart(s, r)
  <2>4. fsm \in CASE A -> {"S11", "S3"}
                 [] B /\ s[r] = "cr" -> {"S12", "S4"}
                 [] ~ B /\ s[r] = "cr" -> {"S2"}
                 [] OTHER -> {"S1"}
    BY <1>1 DEF Stage
  <2>5. Stage(s, r + 1) = CASE s[r] = "cr" /\ s[r + 1] = "lf" -> {"S11", "S3"}
                            [] A /\ s[r + 1] = "cr" -> {"S12", "S4"}
                            [] ~ A /\ s[r + 1] = "cr" -> {"S2"}
                            [] OTHER -> {"S1"}
    BY <1>6 DEF Stage
  <2>6. A => s[r] = "lf"  BY <1>7
  <2> HIDE DEF A, B
  <2>7. fsm' \in Stage(s, r + 1) /\ fsm' # "S5"
    <3>1. CASE A
      <4>1. fsm \in {"S11", "S3"} /\ s[r] = "lf"  BY <2>4, <2>6, <3>1
      <4>2. fsm' = IF s[r + 1] = "cr" THEN IF fsm = "S11" THEN "S12" ELSE "S4" ELSE "S1"
        BY <1>3, <4>1 DEF IgnoreNext
      <4> QED  BY <2>5, <3>1, <4>1, <4>2
    <3>2. CASE ~ A /\ B /\ s[r] = "cr"
      <4>1. fsm \in {"S12", "S4"} /\ s[r + 1] # "lf" /\ s[r + 1] # "cr"
        BY <2>2, <2>3, <2>4, <3>2 DEF B
      <4>2. fsm' = "S1"  BY <1>3, <4>1 DEF IgnoreNext
      <4> QED  BY <2>5, <4>1, <4>2
    <3>3. CASE ~ A /\ ~ B /\ s[r] = "cr"
      <4>1. fsm = "S2" /\ s[r + 1] # "cr"  BY <2>3, <2>4, <3>3
      <4>2. fsm' = IF s[r + 1] = "lf" THEN "S3" ELSE "S1"  BY <1>3, <4>1 DEF IgnoreNext
      <4> QED  BY <2>5, <3>3, <4>1, <4>2
    <3>4. CASE ~ A /\ s[r] # "cr"
      <4>1. fsm = "S1"  BY <2>4, <3>4
      <4>2. fsm' = IF s[r + 1] = "cr" THEN "S2" ELSE "S1"  BY <1>3, <4>1 DEF IgnoreNext
      <4> QED  BY <2>5, <3>4, <4>2
    <3> QED  BY <3>1, <3>2, <3>3, <3>4
  <2>8. act' = "IGNORE_ALL"  BY <1>3, <2>7
  <2>9. HttpBefore(content', E') /\ read' \in 1 .. E' /\ fsm' \in Stage(content', read')
    BY <1>1, <1>3, <2>1, <2>7 DEF s, e
  <2>10. Ignoring'  BY <2>9 DEF Ignoring, HttpBefore, LineStart, Stage
  <2> QED  BY <2>8, <2>10
<1> QED  BY <1>8, <1>9

\* The start of the search.
LEMMA GetBlocSeeks ==
  ASSUME BInv, Sought, GetBloc
  PROVE  Sought'
<1>1. pc = "held" /\ pc' = "search" /\ read' = 0 /\ wasCr' = FALSE /\ line' = "empty" /\ from' = 0
  <2>1. read = 0 /\ from = 0 /\ ~ wasCr /\ line = "empty" /\ wasCr \in BOOLEAN
    BY DEF GetBloc, BInv, Undelivered, Unread, Writing, TypeOK, Sought, Size
  <2> QED  BY <2>1 DEF GetBloc, Moves
<1>2. act' = IF uri' = "other" /\ withhttp' THEN "SEARCHING_HTTP" ELSE "WRITEING"
  BY DEF GetBloc
<1>3. Plain' <=> ~ (uri' = "other" /\ withhttp')  BY DEF Plain
<1>4. Ordinary' => Searching'
  <2> SUFFICES ASSUME Ordinary' PROVE Searching'  OBVIOUS
  <2>1. content' \in Line /\ Empties(content)' # {}
    <3>1. content' \in Line  BY GetBlocKeeps DEF BInv, TypeOK
    <3> QED  BY <3>1 DEF Ordinary
  <2>2. (\E e \in Nat : e >= 1 /\ E = e)'
    <3>1. Empties(content') # {}  BY <2>1 DEF Empties, LineStart
    <3>2. FirstEmpty(content') \in Nat /\ FirstEmpty(content') >= 1  BY <2>1, <3>1, FirstEmptyIs
    <3> QED  BY <3>2 DEF E, FirstEmpty, Empties, LineStart
  <2>3. read' <= E'  BY <1>1, <2>2
  <2>4. wasCr' = (read' >= 1 /\ content'[read'] = "cr")
    <3>1. ~ (read' >= 1)  BY <1>1
    <3>2. (read' >= 1 /\ content'[read'] = "cr") = FALSE  BY <3>1, Zenon
    <3> QED  BY <1>1, <3>2
  <2>5. /\ 1 \in 1 .. read' + 1 /\ LineStart(content', 1)
        /\ \A k \in 1 + 1 .. read' + 1 : ~ LineStart(content', k)
        /\ \A k \in 1 .. 1 - 1 : ~ (LineStart(content', k) /\ content'[k] = "h")
        /\ line' = "empty" <=> read' = 1 - 1 \/ (read' = 1 /\ content'[1] = "cr")
        /\ line' = "http" <=> read' >= 1 /\ content'[1] = "h"
    BY <1>1, LineStarts
  <2> QED  BY <2>3, <2>4, <2>5 DEF Searching, LineStart
<1>5. act' \in {"SEARCHING_HTTP", "WRITEING"} /\ (Plain' => act' = "WRITEING")
  BY <1>2, <1>3
<1>6. Ordinary' => act' = "SEARCHING_HTTP"
  <2>1. Ordinary' => ~ Plain'  BY DEF Ordinary
  <2> QED  BY <1>2, <1>3, <2>1
<1> QED  BY <1>1, <1>4, <1>5, <1>6 DEF Sought

\* The header is read, and a record may be given, before anything is searched.
LEMMA BeforeSeeks ==
  ASSUME Sought, ReadHeader \/ NextRecord \/ GetBlocFails \/ GetBlocAborts
  PROVE  Sought'
<1>1. pc \in {"version", "header", "record", "held"} /\ UNCHANGED bvars
      /\ pc' \in {"version", "header", "record", "held", "nil", "nobloc", "aborted"}
  BY DEF ReadHeader, HNext, Version, Parse, Truncated, Refuse, KeyFirst, Key, Value, Lf, Space,
         Continued, EndLf, Comment, CommentLf, TakeField, SetKey, SetValue, SetComment, Skip, Takes,
         NextRecord, GetBlocFails, GetBlocAborts, Moves
<1>2. ~ wasCr' /\ line' = "empty"  BY <1>1 DEF Sought, bvars
<1> QED  BY <1>1, <1>2 DEF Sought

\* A byte of the data block.
LEMMA ByteSeeks ==
  ASSUME BInv, Sought, SearchLine \/ SearchLineEnd \/ Ignore \/ Write
  PROVE  Sought'
<1>1. /\ UNCHANGED <<hvars, choices, content>> /\ pc = "search" /\ read < Len(content)
  BY DEF SearchLine, SearchLineEnd, Searches, Ignore, Write
<1>2. Plain' = Plain /\ E' = E /\ Ordinary' = Ordinary /\ unit' = unit /\ pc' = pc
  BY <1>1, SameBlock
<1>3. TypeOK /\ unit \in Nat \ {0}  BY <1>1 DEF BInv, Writing
<1>4. /\ Plain => act = "WRITEING" /\ from = 0
      /\ Ordinary => /\ act = "SEARCHING_HTTP" => Searching
                     /\ act = "IGNORE_ALL" => Ignoring
                     /\ act = "WRITEING" => Found
  BY <1>1 DEF Sought
<1>5. Ordinary => OrdinaryBlock  BY <1>1, OrdinaryShape
<1>6. CASE SearchLine
  <2>1. act = "SEARCHING_HTTP" /\ act' = act  BY <1>6 DEF SearchLine, Searches
  <2>2. Ordinary => Searching'  BY <1>2, <1>3, <1>4, <1>5, <1>6, <2>1, SearchLineSearches
  <2> QED  BY <1>1, <1>2, <1>4, <2>1, <2>2 DEF Sought
<1>7. CASE SearchLineEnd
  <2>1. act = "SEARCHING_HTTP" /\ act' \in {"SEARCHING_HTTP", "IGNORE_ALL", "WRITEING"}
    BY <1>7 DEF SearchLineEnd, Searches
  <2>2. Ordinary => \/ act' = "SEARCHING_HTTP" /\ Searching'
                    \/ act' = "IGNORE_ALL" /\ Ignoring'
                    \/ act' = "WRITEING" /\ Found'
    BY <1>2, <1>3, <1>4, <1>5, <1>7, <2>1, SearchLineEndSearches
  <2> QED  BY <1>1, <1>2, <1>4, <2>1, <2>2 DEF Sought
<1>8. CASE Ignore
  <2>1. act = "IGNORE_ALL" /\ act' \in {"IGNORE_ALL", "WRITEING"}  BY <1>8 DEF Ignore
  <2>2. Ordinary => \/ act' = "IGNORE_ALL" /\ Ignoring'
                    \/ act' = "WRITEING" /\ Found'
    BY <1>2, <1>3, <1>4, <1>5, <1>8, <2>1, IgnoreSearches
  <2> QED  BY <1>1, <1>2, <1>4, <2>1, <2>2 DEF Sought
<1>9. CASE Write
  <2>1. act = "WRITEING" /\ act' = act /\ from' = from /\ content' = content
    BY <1>1, <1>9 DEF Write
  <2>2. Found => Found'
    BY <1>2, <2>1 DEF Found, HttpBefore, LineStart
  <2> QED  BY <1>1, <1>2, <1>4, <2>1, <2>2 DEF Sought
<1> QED  BY <1>6, <1>7, <1>8, <1>9

\* Every step keeps what is known of the search.
LEMMA SoughtStep ==
  ASSUME BInv, Sought, [Next]_vars
  PROVE  Sought'
<1>1. CASE ReadHeader \/ NextRecord \/ GetBlocFails \/ GetBlocAborts  BY <1>1, BeforeSeeks
<1>2. CASE GetBloc  BY <1>2, GetBlocSeeks
<1>3. CASE SearchLine \/ SearchLineEnd \/ Ignore \/ Write  BY <1>3, ByteSeeks
<1>4. CASE Made \/ Deliver \/ Copy \/ UNCHANGED vars
  <2>1. UNCHANGED <<choices, content, search>>
    BY <1>4 DEF Made, Deliver, NextOver, NextChunk, Delivers, Copy, CopyOver, CopyRest, Copied,
                bvars, vars, choices, search
  <2>2. pc' = pc \/ (pc = "search" /\ pc' = "bloc")
    BY <1>4 DEF Made, Moves, Deliver, NextOver, NextChunk, Delivers, Copy, CopyOver,
                CopyRest, Copied, vars, hvars
  <2>3. Plain' = Plain /\ E' = E /\ Ordinary' = Ordinary
    BY <2>1 DEF choices, Plain, E, Ordinary, FirstEmpty, Empties, LineStart, TwoCrs
  <2>4. Searching' = Searching /\ Ignoring' = Ignoring /\ Found' = Found
    BY <2>1, <2>3 DEF choices, search, Searching, Ignoring, Found, HttpBefore, LineStart, Stage
  <2> QED  BY <2>1, <2>2, <2>3, <2>4 DEF Sought, search
<1> QED  BY <1>1, <1>2, <1>3, <1>4 DEF Next, GetBlocNext, GetContent

\* Whatever the size of the buffers that a data block comes in, the temporary file of the
\* WBloc has the payload (b_callback, wrecord.c:186).
THEOREM PayloadExactCorrect ==
  ASSUME ProperFields
  PROVE  Spec => []PayloadExact
<1>1. Init => Sought  BY DEF Init, HInit, Sought
<1>2. Init => ReadBack
  <2> SUFFICES ASSUME Init, origin # NoOne PROVE ReadBack  BY DEF ReadBack
  <2>1. origin \in Written /\ text = StoreRecord(origin) /\ pc = "version" /\ fields = << >>
    BY DEF Init, HInit
  <2> QED  BY <2>1 DEF ReadBack
<1>3. BInv /\ ReadBack /\ [Next]_vars => ReadBack'  BY ReadBackStep
<1>4. BInv /\ Sought /\ [Next]_vars => Sought'  BY SoughtStep
<1>5. BInv /\ ReadBack /\ Sought => PayloadExact
  <2> SUFFICES ASSUME BInv, ReadBack, Sought, pc = "bloc" PROVE PayloadExact
    BY DEF PayloadExact
  <2>1. (IF origin = NoOne THEN content ELSE origin.content) = content  BY DEF ReadBack
  <2>2. /\ content \in Line /\ read = Len(content) /\ Len(content) \in Nat
        /\ from \in Nat /\ to \in Nat
    <3>1. content \in Line /\ from \in 0 .. to /\ to \in 0 .. Len(content) /\ read = Len(content)
      BY DEF BInv, TypeOK, Delivery
    <3>2. Len(content) \in Nat  BY <3>1 DEF Line
    <3> QED  BY <3>1, <3>2
  <2>3. act = "WRITEING" => Payload(0, Size) = SubSeq(content, from + 1, Len(content))
    <3> SUFFICES ASSUME act = "WRITEING"
                 PROVE  Payload(0, Size) = SubSeq(content, from + 1, Len(content))
      OBVIOUS
    <3>1. to = Len(content)  BY <2>2 DEF BInv, Writing
    <3>2. from + 0 + 1 = from + 1 /\ from + Size = to  BY <2>2 DEF Size
    <3> QED  BY <3>1, <3>2 DEF Payload
  <2>4. SubSeq(content, 0 + 1, Len(content)) = content
    <3>1. content \in Seq(Class)  BY <2>2 DEF Line
    <3> HIDE DEF Class
    <3> QED  BY <3>1
  <2>5. Plain => Payload(0, Size) = content
    <3> SUFFICES ASSUME Plain PROVE Payload(0, Size) = content  OBVIOUS
    <3>1. act = "WRITEING" /\ from = 0  BY DEF Sought
    <3> QED  BY <2>3, <2>4, <3>1
  <2>6. Ordinary => \/ HttpBefore(content, E)
                       /\ Payload(0, Size) = SubSeq(content, E + 2, Len(content))
                    \/ ~ HttpBefore(content, E) /\ E + 1 <= unit /\ Payload(0, Size) = content
                    \/ ~ HttpBefore(content, E) /\ E + 1 > unit
    <3> SUFFICES ASSUME Ordinary
                 PROVE  \/ HttpBefore(content, E)
                           /\ Payload(0, Size) = SubSeq(content, E + 2, Len(content))
                        \/ ~ HttpBefore(content, E) /\ E + 1 <= unit /\ Payload(0, Size) = content
                        \/ ~ HttpBefore(content, E) /\ E + 1 > unit
      OBVIOUS
    <3>1. E \in Nat /\ E + 1 <= Len(content)  BY <2>2, FirstEmptyIs DEF Ordinary, E
    <3>2. unit \in Nat  BY DEF BInv, Writing
    <3>3. act = "WRITEING" /\ Found
      <4>1. ~ Searching
        <5> SUFFICES ASSUME Searching PROVE FALSE  OBVIOUS
        <5>1. read <= E  BY DEF Searching
        <5> QED  BY <2>2, <3>1, <5>1
      <4>2. ~ Ignoring
        <5> SUFFICES ASSUME Ignoring PROVE FALSE  OBVIOUS
        <5>1. read \in 1 .. E  BY DEF Ignoring
        <5> QED  BY <2>2, <3>1, <5>1
      <4> QED  BY <4>1, <4>2 DEF Sought
    <3>4. CASE HttpBefore(content, E) /\ from = E + 1
      <4>1. from + 1 = E + 2  BY <3>1, <3>4
      <4> QED  BY <2>3, <3>3, <3>4, <4>1
    <3>5. CASE ~ HttpBefore(content, E) /\ (E + 1 <= unit => from = 0)
      <4>1. CASE E + 1 <= unit
        <5>1. from = 0  BY <3>5, <4>1
        <5> QED  BY <2>3, <2>4, <3>3, <3>5, <4>1, <5>1
      <4>2. CASE E + 1 > unit  BY <3>5, <4>2
      <4> QED  BY <3>1, <3>2, <4>1, <4>2
    <3> QED  BY <3>3, <3>4, <3>5 DEF Found
  <2>7. Ordinary <=> ~ Plain /\ Empties(content) # {} /\ ~ TwoCrs(content, E)  BY DEF Ordinary
  <2> QED  BY <2>1, <2>5, <2>6, <2>7 DEF PayloadExact, Plain, TwoCrs, E
<1>6. Spec => []BInv  BY BlocInvariant
<1> QED  BY <1>1, <1>2, <1>3, <1>4, <1>5, <1>6, PTL DEF Spec
===============================================================================
