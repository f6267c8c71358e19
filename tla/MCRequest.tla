----------------------------- MODULE MCRequest -----------------------------
(* Request for TLC: every name of up to five of the characters a . \ 0 6;      *)
(* names of up to five labels, the first of which may be all escapes, that go  *)
(* beyond the limits on labels, on names and on the room; a number over 255    *)
(* with a small value in base 7; and a table in which one type begins the name *)
(* of an earlier one.                                                          *)
EXTENDS Request

Texts == SeqOf({97, 46, 92, 48, 54}, 5)
Plain(n) == [i \in 1 .. n |-> 97]
Escaped(n) == FlattenSeq([i \in 1 .. n |-> <<92, 48, 48, 48>>])
Joined(sizes, first) ==
  FlattenSeq([i \in DOMAIN sizes |-> (IF i = 1 THEN <<>> ELSE <<46>>)
                                        \o IF i = 1 /\ first THEN Escaped(sizes[i]) ELSE Plain(sizes[i])])
LongNames == {Joined(sizes, first) \o dot :
                sizes \in SeqOf({1, 4, 8, 9}, 5) \ {<<>>}, first \in BOOLEAN, dot \in {<<>>, <<46>>}}
Over == {<<92, 51, 48, 48>>}
MCQtypeTable == <<<<1>>, <<2, 1>>, <<2>>>>
MCQuestions == ((Texts \cup LongNames \cup Over) \X {<<1>>})
                 \cup ({<<97>>, <<>>} \X {<<>>, <<1>>, <<2>>, <<2, 1>>, <<3>>})
MCKeys == {<<97>>, <<97, 46>>, <<46, 46>>}
=============================================================================
