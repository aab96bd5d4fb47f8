---------------------------- MODULE MCExtraction ----------------------------
(***************************************************************************)
(* Instances of Extraction: requests for one page or several, with and     *)
(* without a schema, and a batch of two items with one slot.               *)
(***************************************************************************)
EXTENDS Extraction

Field(type) == [type |-> type, values |-> Fits[type]]
Shop == [array |-> FALSE, wellFormed |-> TRUE, closed |-> FALSE, required |-> {"name"},
         fields |-> "name" :> Field("string") @@ "price" :> Field("number")]
Rows == [Shop EXCEPT !.array = TRUE]
Huge == [Shop EXCEPT !.fields = @ @@ "stock" :> Field("boolean")]

Ask == [batch |-> FALSE, how |-> "single", urls |-> <<"u1">>, schema |-> Shop, mode |-> "auto",
        missing |-> "omit", dedupe |-> << >>, provenance |-> FALSE]
Item == [Ask EXCEPT !.batch = TRUE, !.missing = "null", !.provenance = TRUE]
MCKinds == {Ask,
            Item,
            [Ask EXCEPT !.missing = "null", !.provenance = TRUE, !.mode = "llm"],
            [Ask EXCEPT !.schema = Rows, !.mode = "llm", !.dedupe = <<"name">>],
            [Ask EXCEPT !.schema = NoSchema, !.how = "many", !.urls = <<"u1", "u2">>, !.mode = "llm"],
            [Ask EXCEPT !.how = "crawl", !.urls = <<"u1", "u2">>, !.mode = "rules"],
            [Ask EXCEPT !.schema = Huge, !.urls = << >>]}

\* The first page lacks the name a Shop must have, the second is complete.
MCPageOf ==
    "u1" :> [url |-> "u1", hash |-> 1, list |-> << >>,
             signals |-> <<"price" :> "floatText", << >>, "lowprice" :> "int">>,
             chunks |-> <<[score |-> 1, len |-> 2, text |-> {"word"}],
                          [score |-> 2, len |-> 1, text |-> {"intText"}]>>]
 @@ "u2" :> [url |-> "u2", hash |-> 2, list |-> <<"name" :> "int", "name" :> "word">>,
             signals |-> <<"title" :> "word", "price" :> "boolText", "lowprice" :> "int">>,
             chunks |-> <<[score |-> 2, len |-> 3, text |-> {"word"}]>>]

MCAliases == "name" :> <<"title">> @@ "price" :> <<"lowprice">> @@ "stock" :> << >>

One(o) == [array |-> FALSE, items |-> <<o>>]
MCAnswers == {One("name" :> "word"), One("name" :> "null" @@ "price" :> "boolText"),
              [array |-> TRUE, items |-> <<"name" :> "int", "name" :> "intText", "name" :> "word">>]}
=============================================================================
