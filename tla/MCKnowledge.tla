---------------------------- MODULE MCKnowledge ----------------------------
(***************************************************************************)
(* Instances of Knowledge: two indexes of two tenants and calls that meet. *)
(***************************************************************************)
EXTENDS Knowledge

MCExisting == "ia" :> [name |-> "a", tenant |-> "t1", docs |-> 1, chunks |-> 2]
           @@ "ib" :> [name |-> "b", tenant |-> "t2", docs |-> 1, chunks |-> 1]
MCStored == "da" :> "ia" @@ "db" :> "ib"

\* da and dn share a text; de has no chunks.
MCChunksOf == "da" :> <<"a1", "a2">> @@ "db" :> <<"b1">> @@ "dn" :> <<"n1", "n2">> @@ "de" :> << >>
MCTextOf == "a1" :> "x" @@ "a2" :> "y" @@ "b1" :> "z" @@ "n1" :> "z" @@ "n2" :> "x"
MCTokensOf == "a1" :> 1 @@ "a2" :> 2 @@ "b1" :> 3 @@ "n1" :> 3 @@ "n2" :> 1
MCSimilarity == <<"x" :> 90 @@ "y" :> 60 @@ "z" :> 75, "x" :> 50 @@ "y" :> 80 @@ "z" :> 70>>
MCRelevance == <<"x" :> 0 @@ "y" :> 4 @@ "z" :> 6, "x" :> 2 @@ "y" :> 5 @@ "z" :> 0>>

Ask(op, key) == [op |-> op, key |-> key, tenant |-> "t1", doc |-> Nothing, mode |-> "hybrid",
                 limit |-> 2, queries |-> 1, among |-> DOMAIN MCChunksOf, tagged |-> DOMAIN MCChunksOf]
Put(key, d) == [Ask("put", key) EXCEPT !.doc = d]

Meeting(a, b) == {[c \in Calls |-> IF c = "c1" THEN a ELSE b]}
MCRequests ==
    UNION {Meeting(Put("n", "dn"), Put("n", "de")),
           Meeting(Put("n", "dn"), Ask("delete", "n")),
           Meeting(Ask("delete", "a"), Put("a", "dn")),
           Meeting(Ask("rebuild", "a"), Put("a", "dn")),
           Meeting(Ask("rebuild", "a"), Ask("rebuild", "ia")),
           Meeting(Ask("rebuild", "a"), Ask("answer", "a")),
           Meeting(Ask("retrieve", "b"), [Ask("search", "b") EXCEPT !.mode = "semantic"]),
           Meeting([Ask("retrieve", "a") EXCEPT !.queries = 2], [Ask("search", "a") EXCEPT !.tenant = Nothing]),
           Meeting([Ask("search", "a") EXCEPT !.mode = "lexical"],
                   [Ask("retrieve", "a") EXCEPT !.mode = "semantic", !.among = {"dn"}]),
           Meeting(Put("a", "dn"), [Ask("search", "a") EXCEPT !.mode = "semantic", !.tagged = {"dn"}]),
           Meeting([Ask("search", "a") EXCEPT !.tagged = {"dn"}],
                   [Ask("answer", "a") EXCEPT !.mode = "semantic", !.tagged = {"da"}])}
=============================================================================
