--------------------------- MODULE MCCoordinator ---------------------------
(***************************************************************************)
(* Instances of Coordinator: a site of three pages, home -> a, b and       *)
(* a -> b, home; one or two handlers.                                      *)
(***************************************************************************)
EXTENDS Coordinator, TLC

CONSTANTS job, home, a, b, w1, w2

MCSeed == [j \in Jobs |-> home]
MCLinks == [u \in Urls |-> IF u = home THEN {a, b} \cap Urls
                           ELSE IF u = a THEN {b, home} \cap Urls ELSE {}]
MCSitemapUrls == [j \in Jobs |-> {a} \cap Urls]

Symmetry == Permutations(Workers)
=============================================================================
