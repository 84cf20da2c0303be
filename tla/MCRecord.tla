------------------------------ MODULE MCRecord ------------------------------
(* Records written by WFile_storeRecord, and texts from elsewhere, for WBloc. *)
EXTENDS WBloc, SequencesExt

SeqsUpTo(S, n) == UNION {[1 .. k -> S] : k \in 0 .. n}

\* Data blocks: every one of up to four bytes, with and without a status line before.
Bytes == {"h", "t", "cr", "lf"}
Blocks == {s \in SeqsUpTo(Bytes, 4) : s # << >>}
           \cup {<<"h", "cr", "lf">> \o s : s \in SeqsUpTo({"t", "cr", "lf"}, 3)}
           \cup {<<"h", "cr", "lf", "cr", "lf", "t", "t", "cr", "lf", "t">>}

\* The numbers of one and of two digits.
Figure == <<"0", "1", "2", "3", "4", "5", "6", "7", "8", "9">>
MCNumeral ==
  LET numerals == {<<Figure[1 + n]>> : n \in 0 .. 9}
                \cup {<<Figure[1 + n], Figure[1 + m]>> : n \in 1 .. 9, m \in 0 .. 9}
      figure(d) == CHOOSE n \in 0 .. 9 : Figure[1 + n] = d
  IN  [s \in numerals |-> IF Len(s) = 1 THEN figure(s[1]) ELSE 10 * figure(s[1]) + figure(s[2])]

Anvls == {[key |-> <<"t">>, value |-> << >>],
          [key |-> <<"t", "#">>, value |-> <<"sp", "t", ":", "#">>],
          [key |-> <<"t", "t">>, value |-> <<"p", "cr", "t", "lf", "sp">>]}

MCWritten ==
  {[id |-> <<"t">>, anvls |-> << >>, content |-> s] : s \in Blocks}
  \cup {[id |-> i, anvls |-> a, content |-> s] :
          i \in {<<"t">>, <<"t", "cr", "t">>}, a \in SeqsUpTo(Anvls, 2),
          s \in {<< >>, <<"t", "cr">>}}

\* Texts of other origins: lines in any order, then what follows.
Lines ==
  {<<"L", ":", "2", "cr", "lf">>,
   <<"L", ":", "sp", "t", "cr", "lf">>,
   <<"t", ":", "cr", "lf", "sp", "t", "cr", "lf">>,
   <<"t", ":", "cr", "lf", "sp", "sp", "cr", "lf">>,
   <<"t", ":", "cr", "cr", "lf">>,
   <<"#", "t", "cr", "t", "cr", "lf">>,
   <<"#", "p", "cr", "lf">>,
   <<"#", "cr", "p">>,
   <<"B", ":", "t", "cr", "lf">>,
   <<"t", "cr", "lf">>,
   <<"p">>}
Ends == {<<"cr", "lf", "t", "t", "cr", "lf", "cr", "lf">>, <<"cr", "lf", "t">>, <<"cr">>,
         <<"cr", "t">>, << >>}
MCForeign ==
  {<<"id", "cr", "lf">> \o FlattenSeq(s) \o e : s \in SeqsUpTo(Lines, 3), e \in Ends}
    \cup {<<"t", "cr", "lf">>, <<"id">>, << >>}

\* The hypothesis of the theorems about what is written and read back.
ASSUME WrittenIsProper == ProperFields
=============================================================================
