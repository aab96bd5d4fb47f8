----------------------------- MODULE MCChunking -----------------------------
(***************************************************************************)
(* Every document of up to four blocks of each kind and size that the      *)
(* chunker tells apart, and every JSON value of up to four items.  A part  *)
(* of (4, 1), four characters that are one word, is of one token, (8, 2)   *)
(* and (5, 1) are of two, (12, 3) of three, and (16, 4) of five.           *)
(***************************************************************************)
EXTENDS Chunking

Line(chars, words) == [chars |-> chars, words |-> words, before |-> 0, after |-> 0, glued |-> 0]
\* A sentence with a blank before it, and one that goes on from the last word.
Sentence(chars, words) == [Line(chars, words) EXCEPT !.before = 1]
Glued(chars, words) == [Line(chars, words) EXCEPT !.glued = 1]

Bare == [chars |-> 0, words |-> 0]
Ticks == [chars |-> 8, words |-> 2]

Of(kind, contents) ==
    [kind : {kind}, level : {0}, parts : contents, tail : {0}, fence : {Bare}]

Blocks ==
    [kind : {"heading"}, level : 1 .. 3, parts : {<<Line(4, 1)>>}, tail : {0}, fence : {Bare}]
        \cup Of("page", {<< >>})
        \cup Of("paragraph",
                {<<Line(4, 1)>>, <<Line(8, 2), Sentence(5, 1)>>,
                 <<Line(8, 2), Sentence(5, 1), Glued(8, 2)>>})
        \cup [kind : {"code"}, level : {0}, parts : {<< >>, <<Line(5, 1)>>, <<Line(16, 4), Line(4, 1)>>},
              tail : {0}, fence : {Ticks}]
        \cup Of("table", {<<Line(5, 1), Line(12, 3)>>})
        \cup Of("list", {<<Line(4, 1), Line(4, 1)>>})

Items == Of("item", {<<Line(4, 1)>>, <<Line(8, 2)>>, <<Line(12, 3), Line(16, 4)>>})

MCDocuments ==
    UNION {[1 .. n -> Blocks] : n \in 0 .. 4} \cup UNION {[1 .. n -> Items] : n \in 0 .. 4}
=============================================================================
