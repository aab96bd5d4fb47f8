------------------------------ MODULE MCAgentJob ------------------------------
EXTENDS AgentJob, TLC

CONSTANTS u1, u2, u3, p1, p2, f1

MCMentions == (p1 :> {}) @@ (p2 :> {f1})
MCHolds    == (u1 :> {p1}) @@ (u2 :> {p1, p2}) @@ (u3 :> {p2})
MCQuality  == (u1 :> 2) @@ (u2 :> 1) @@ (u3 :> 1)
Req(mode, urls, entities, schema) ==
    [mode |-> mode, urls |-> urls, entities |-> entities, schema |-> schema]
MCRequests == {Req("research", <<u1, u2, u1, u3>>, 0, {}), Req("research", <<>>, 0, {f1}),
               Req("comparison", <<>>, 2, {}), Req("comparison", <<>>, 1, {}),
               Req("site", <<>>, 0, {}), Req("structured", <<>>, 0, {f1}),
               Req("monitoring", <<>>, 0, {})}
=============================================================================
