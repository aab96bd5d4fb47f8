------------------------------- MODULE AgentJob -------------------------------
(***************************************************************************)
(* One autonomous research job: the executor that plans, searches,         *)
(* scrapes, evaluates and writes an answer, and the client that pauses,    *)
(* resumes and cancels it meanwhile (src/src/agent/).  The two share the   *)
(* job's flags and status: the client stores a flag and then, as a second  *)
(* step, writes the status; the executor reads the flags at its loop heads *)
(* and writes the status at every change of phase.  A test of a flag and   *)
(* the budget call after it are one step: the call reads no flag, so a     *)
(* client's step between the two is a client's step after both.            *)
(***************************************************************************)
EXTENDS Naturals, FiniteSets, Sequences

CONSTANTS
    Urls,            \* addresses a search may find
    Passages,        \* texts a page may hold, equal texts having equal hashes
    Holds,           \* the passages of each address's page
    Fields,          \* fields of the requested output schema
    Mentions,        \* the fields each passage mentions
    Quality,         \* the authority weight of each address
    Requests,        \* [mode, urls, entities, schema]: what a client may ask for
    MaxSteps, MaxPages, MaxSearches,     \* the job's budget
    MaxRounds,       \* config.agent_max_research_rounds
    MinDiversity,    \* config.agent_min_source_diversity
    MaxResults,      \* bound: links of one search
    MaxAsks,         \* bound: calls of the client
    NoUrl, NoResult

ASSUME AgentAssumption ==
    /\ Mentions \in [Passages -> SUBSET Fields]
    /\ {MaxSteps, MaxPages, MaxSearches, MaxRounds, MinDiversity, MaxResults, MaxAsks} \subseteq Nat
    /\ Quality \in [Urls -> Nat]
    /\ Holds \in [Urls -> SUBSET Passages]
    /\ NoUrl \notin Urls
    /\ \A r \in Requests : /\ r.mode \in {"research", "comparison", "site", "structured", "monitoring"}
                           /\ r.urls \in Seq(Urls)
                           /\ r.entities \in Nat
                           /\ r.schema \subseteq Fields
    /\ IsFiniteSet(Fields)

VARIABLES
    request, background,             \* what was asked for, and through which door
    plan, pc, subgoal,               \* the executor's place
    targets, queries, links, calls,  \* what is left of its loops
    back,                            \* the loop a scrape returns to
    url, round,
    steps, pages, searches, late,    \* BudgetTracker, and the deadline
    visited, evidence,               \* EvidenceStore
    status, paused, cancelled,       \* AgentState
    telling, asks,                   \* the client between its flag and its status; its calls
    result, registered, recorded,    \* AgentService: active_states, completed_jobs
    scraped, searched                \* history: the scrapes and searches really made

loops  == <<subgoal, targets, queries, links, calls, back, url, round>>
budget == <<steps, pages, searches>>
store  == <<visited, evidence>>
flags  == <<paused, cancelled, telling, asks>>
door   == <<request, background, registered, recorded>>
done   == <<scraped, searched>>
vars   == <<plan, pc, late, status, result, loops, budget, store, flags, door, done>>

-----------------------------------------------------------------------------
(* The planner *)

Sub(urls, n) == [urls |-> urls, queries |-> n]
Idle == Sub(<<>>, 0)

DirectPlan(r) == [i \in DOMAIN r.urls |-> Sub(<<r.urls[i]>>, 0)] \o <<Idle, Idle>>

ComparisonPlan(r) ==
    IF r.entities >= 2
    THEN [i \in 1..r.entities |-> Sub(<<>>, 2)] \o <<Sub(<<>>, 1)>>
    ELSE <<Sub(<<>>, 1), Idle, Idle>>

SitePlan       == <<Sub(<<>>, 1), Idle, Idle, Idle>>
StructuredPlan == <<Sub(<<>>, 1), Idle, Idle, Idle>>
MonitoringPlan == <<Sub(<<>>, 1), Idle, Idle>>
GeneralPlan    == <<Sub(<<>>, 3), Idle, Idle, Idle>>

(* The model's plan: at least one subgoal, each with some of its queries.  *)
LlmPlans == {<<Sub(<<>>, m), Sub(<<>>, n)>> : m, n \in 0..1}

Plans(r) ==
    IF r.urls # <<>> THEN {DirectPlan(r)}
    ELSE CASE r.mode = "comparison" -> {ComparisonPlan(r)}
           [] r.mode = "site"       -> {SitePlan}
           [] r.mode = "structured" -> {StructuredPlan}
           [] r.mode = "monitoring" -> {MonitoringPlan}
           [] r.mode = "research"   -> LlmPlans \cup {GeneralPlan}

-----------------------------------------------------------------------------
(* The evidence *)

Ids     == DOMAIN evidence
Hashes  == {evidence[i].text : i \in Ids}
Sources == {evidence[i].url : i \in Ids}

InsertAgain(u, t) == Append(evidence, [url |-> u, text |-> t])   \* variant: nothing is deduplicated
Insert(u, t) == IF t \in Hashes THEN evidence ELSE Append(evidence, [url |-> u, text |-> t])

Missing == {f \in request.schema : \A t \in Hashes : f \notin Mentions[t]}
Diverse == Cardinality(Sources) >= MinDiversity

AllQueries(p) ==
    LET f[i \in 0..Len(p)] == IF i = 0 THEN 0 ELSE f[i-1] + p[i].queries IN f[Len(p)]

FollowUps ==
    IF evidence = <<>> THEN AllQueries(plan)
    ELSE IF round < MaxRounds THEN Cardinality(Missing) + (IF Diverse THEN 0 ELSE 1)
    ELSE 0

Sufficient == /\ evidence # <<>>
              /\ \/ Missing = {} /\ Diverse
                 \/ round >= MaxRounds

Best(n) == {S \in SUBSET Ids :
               /\ Cardinality(S) = IF Cardinality(Ids) < n THEN Cardinality(Ids) ELSE n
               /\ \A i \in S, j \in Ids \ S : Quality[evidence[i].url] >= Quality[evidence[j].url]}

(* What the text and the claims cite, checked against the store: cited and *)
(* claimed are any ids, for the language model may make them up.           *)
AnyIds(ids)   == ids             \* variant: nothing is checked
Grounded(ids) == ids \cap Ids

Citations(cited, claimed) ==
    IF Grounded(cited \cup claimed) = {} THEN Best(5) ELSE {Grounded(cited \cup claimed)}

-----------------------------------------------------------------------------
(* The service *)

Init ==
    /\ request \in Requests /\ background \in BOOLEAN
    /\ plan = <<>> /\ pc = "queued" /\ subgoal = 0
    /\ targets = <<>> /\ queries = 0 /\ links = <<>> /\ calls = 0
    /\ back = "none" /\ url = NoUrl /\ round = 1
    /\ steps = 0 /\ pages = 0 /\ searches = 0 /\ late = FALSE
    /\ visited = {} /\ evidence = <<>>
    /\ status = "Queued" /\ paused = FALSE /\ cancelled = FALSE /\ telling = "nothing" /\ asks = 0
    /\ result = NoResult /\ registered = TRUE /\ recorded = FALSE
    /\ scraped = [u \in Urls |-> 0] /\ searched = 0

Confused == paused      \* variant: the flags are mixed up
Stopped  == cancelled
Active   == ~Stopped /\ ~paused

(* submit_and_wait files the result and drops the state; submit_job's task *)
(* does the same to deep copies of both maps, which nobody reads.          *)
File ==
    /\ pc = "filing" /\ pc' = "ended"
    /\ IF background THEN UNCHANGED <<registered, recorded>>
                     ELSE registered' = FALSE /\ recorded' = TRUE
    /\ UNCHANGED <<request, background, plan, late, status, result, loops, budget, store, flags, done>>

(* The calls that stop, or go on: the client of a waiting call does not    *)
(* know the id of its job.                                                 *)
Reaches == registered /\ background /\ telling = "nothing" /\ asks < MaxAsks

Ask(stored, what) ==
    /\ Reaches /\ paused' = stored[1] /\ cancelled' = stored[2] /\ telling' = what /\ asks' = asks + 1
    /\ UNCHANGED <<plan, pc, late, status, result, loops, budget, store, door, done>>

Pause  == Ask(<<TRUE, cancelled>>, "Paused")
Resume == Ask(<<FALSE, cancelled>>, "Researching")
Cancel == Ask(<<paused, TRUE>>, "Cancelled")

WriteStatus ==
    /\ telling # "nothing" /\ status' = telling /\ telling' = "nothing"
    /\ UNCHANGED <<plan, pc, late, result, paused, cancelled, asks, loops, budget, store, door, done>>

Deadline ==
    /\ ~late /\ late' = TRUE
    /\ UNCHANGED <<plan, pc, status, result, loops, budget, store, flags, door, done>>

-----------------------------------------------------------------------------
(* The executor: planning and research *)

StartPlanning ==
    /\ pc = "queued" /\ pc' = "planning" /\ status' = "Planning"
    /\ UNCHANGED <<plan, late, result, loops, budget, store, flags, door, done>>

CreatePlan ==
    /\ pc = "planning" /\ plan' \in Plans(request)
    /\ pc' = "subgoal" /\ status' = "Researching"
    /\ UNCHANGED <<late, result, loops, budget, store, flags, door, done>>

(* record_step, record_search_query: a call past the deadline counts       *)
(* nothing; one past the limit counts and is refused.                      *)
Charged(count, limit) ==
    [granted |-> ~late /\ count < limit, count |-> IF late THEN count ELSE count + 1]

NextSubgoal ==
    /\ pc = "subgoal"
    /\ LET step == Charged(steps, MaxSteps)
           more == subgoal < Len(plan) /\ Active
           go   == more /\ step.granted
       IN /\ steps' = IF more THEN step.count ELSE steps
          /\ subgoal' = IF go THEN subgoal + 1 ELSE subgoal
          /\ targets' = IF go THEN plan[subgoal + 1].urls ELSE <<>>
          /\ queries' = IF go THEN plan[subgoal + 1].queries ELSE 0
          /\ pc' = IF go THEN "targets" ELSE "researched"
    /\ UNCHANGED <<plan, late, status, result, links, calls, back, url, round,
                   pages, searches, store, flags, door, done>>

(* scrape_and_extract_evidence up to its await: a page that is refused is  *)
(* not marked as visited.  (variant: the answer of the budget is ignored)  *)
VisitAnyway(u, from) ==
    LET go == u \notin visited
    IN /\ pages' = IF go THEN Charged(pages, MaxPages).count ELSE pages
       /\ visited' = IF go THEN visited \cup {u} ELSE visited
       /\ scraped' = IF go THEN [scraped EXCEPT ![u] = @ + 1] ELSE scraped
       /\ url' = IF go THEN u ELSE NoUrl
       /\ back' = IF go THEN from ELSE "none"
       /\ pc' = IF go THEN "scraping" ELSE from

Visit(u, from) ==
    LET page == Charged(pages, MaxPages)
        go   == u \notin visited /\ page.granted
    IN /\ pages' = IF u \in visited THEN pages ELSE page.count
       /\ visited' = IF go THEN visited \cup {u} ELSE visited
       /\ scraped' = IF go THEN [scraped EXCEPT ![u] = @ + 1] ELSE scraped
       /\ url' = IF go THEN u ELSE NoUrl
       /\ back' = IF go THEN from ELSE "none"
       /\ pc' = IF go THEN "scraping" ELSE from

NextTarget ==
    /\ pc = "targets"
    /\ \/ /\ targets # <<>> /\ Active
          /\ Visit(Head(targets), "targets") /\ targets' = Tail(targets)
       \/ /\ targets = <<>> \/ ~Active
          /\ targets' = <<>> /\ pc' = "queries"
          /\ UNCHANGED <<pages, visited, scraped, url, back>>
    /\ UNCHANGED <<plan, late, status, result, subgoal, queries, links, calls, round,
                   steps, searches, evidence, flags, door, searched>>

(* The scrape fails, or its page is read: a page of no passage is neither. *)
FindPassage ==
    /\ pc = "scraping"
    /\ \E t \in Holds[url] : evidence' = Insert(url, t)
    /\ UNCHANGED <<plan, pc, late, status, result, loops, budget, visited, flags, door, done>>

ScrapeEnds ==
    /\ pc = "scraping" /\ pc' = back /\ back' = "none" /\ url' = NoUrl
    /\ UNCHANGED <<plan, late, status, result, subgoal, targets, queries, links, calls, round,
                   budget, store, flags, door, done>>

NextQuery ==
    /\ pc = "queries"
    /\ LET query == Charged(searches, MaxSearches)
           more  == queries > 0 /\ Active
           go    == more /\ query.granted
       IN /\ searches' = IF more THEN query.count ELSE searches
          /\ searched' = IF go THEN searched + 1 ELSE searched
          /\ queries' = IF go THEN queries - 1 ELSE 0
          /\ pc' = IF go THEN "searching" ELSE "subgoal"
    /\ UNCHANGED <<plan, late, status, result, subgoal, targets, links, calls, back, url, round,
                   steps, pages, store, flags, door, scraped>>

Take(s, n) == SubSeq(s, 1, IF Len(s) < n THEN Len(s) ELSE n)

(* The answer of a search, or none when it failed.                         *)
Answers == UNION {[1..n -> Urls] : n \in 0..MaxResults}

Ranked(s) == \A i, j \in DOMAIN s : i < j => Quality[s[i]] >= Quality[s[j]]

SearchReturns ==
    /\ pc = "searching" /\ pc' = "links"
    /\ \E found \in Answers : Ranked(found) /\ links' = Take(found, 3)
    /\ UNCHANGED <<plan, late, status, result, subgoal, targets, queries, calls, back, url, round,
                   budget, store, flags, door, done>>

NextLink ==
    /\ pc = "links"
    /\ \/ /\ links # <<>> /\ Active
          /\ Visit(Head(links), "links") /\ links' = Tail(links)
       \/ /\ links = <<>> \/ ~Active
          /\ links' = <<>> /\ pc' = "queries"
          /\ UNCHANGED <<pages, visited, scraped, url, back>>
    /\ UNCHANGED <<plan, late, status, result, subgoal, targets, queries, calls, round,
                   steps, searches, evidence, flags, door, searched>>

-----------------------------------------------------------------------------
(* The executor: evaluation rounds *)

StartEvaluating ==
    /\ pc = "researched" /\ pc' = "evaluating" /\ status' = "Evaluating"
    /\ UNCHANGED <<plan, late, result, loops, budget, store, flags, door, done>>

Evaluate ==
    /\ pc = "evaluating"
    /\ LET again == round <= MaxRounds /\ Active /\ ~Sufficient /\ FollowUps > 0
       IN /\ calls' = IF again THEN FollowUps ELSE 0
          /\ pc' = IF again THEN "calls" ELSE "deciding"
    /\ UNCHANGED <<plan, late, status, result, subgoal, targets, queries, links, back, url, round,
                   budget, store, flags, door, done>>

NextCall ==
    /\ pc = "calls"
    /\ LET step  == Charged(steps, MaxSteps)
           query == Charged(searches, MaxSearches)
           more  == calls > 0 /\ Active
           tries == more /\ step.granted
           go    == tries /\ query.granted
       IN /\ steps' = IF more THEN step.count ELSE steps
          /\ searches' = IF tries THEN query.count ELSE searches
          /\ searched' = IF go THEN searched + 1 ELSE searched
          /\ calls' = IF go THEN calls - 1 ELSE 0
          /\ round' = IF go THEN round ELSE round + 1
          /\ pc' = IF go THEN "followups" ELSE "evaluating"
    /\ UNCHANGED <<plan, late, status, result, subgoal, targets, queries, links, back, url,
                   pages, store, flags, door, scraped>>

FollowUpReturns ==
    /\ pc = "followups" /\ pc' = "moreLinks"
    /\ \E found \in Answers : links' = Take(found, 2)
    /\ UNCHANGED <<plan, late, status, result, subgoal, targets, queries, calls, back, url, round,
                   budget, store, flags, door, done>>

(* The links of a follow-up are scraped whatever the flags say.            *)
NextMoreLink ==
    /\ pc = "moreLinks"
    /\ \/ links # <<>> /\ Visit(Head(links), "moreLinks") /\ links' = Tail(links)
       \/ /\ links = <<>> /\ pc' = "calls"
          /\ UNCHANGED <<links, pages, visited, scraped, url, back>>
    /\ UNCHANGED <<plan, late, status, result, subgoal, targets, queries, calls, round,
                   steps, searches, evidence, flags, door, searched>>

-----------------------------------------------------------------------------
(* The executor: the answer *)

Outcome(s, cited, claimed) == [status |-> s, citations |-> cited, claims |-> claimed]

(* The last look at a flag: only a cancellation is asked for.              *)
Decide ==
    /\ pc = "deciding"
    /\ \/ /\ Stopped
          /\ pc' = "filing" /\ status' = "Cancelled" /\ result' = Outcome("Cancelled", {}, {})
       \/ /\ ~Stopped
          /\ pc' = "synthesis" /\ status' = "Synthesizing" /\ UNCHANGED result
    /\ UNCHANGED <<plan, late, loops, budget, store, flags, door, done>>

Synthesize ==
    /\ pc = "synthesis" /\ pc' = "validating" /\ status' = "Validating"
    /\ UNCHANGED <<plan, late, result, loops, budget, store, flags, door, done>>

(* What a synthesis may cite, in its text and in its claims: nothing when  *)
(* there is no evidence, the best fifteen when no model is asked, and any  *)
(* ids, real or made up (0), when one is.                                  *)
ByModel == (SUBSET (Ids \cup {0})) \X (SUBSET (Ids \cup {0}))
ByRule  == {<<S, S>> : S \in Best(15)}
Drafts  == IF evidence = <<>> THEN {<<{}, {}>>} ELSE ByModel \cup ByRule

Validate ==
    /\ pc = "validating" /\ pc' = "filing" /\ status' = "Completed"
    /\ \E draft \in Drafts : \E cites \in Citations(draft[1], draft[2]) :
          result' = Outcome("Completed", cites, Grounded(draft[2]))
    /\ UNCHANGED <<plan, late, loops, budget, store, flags, door, done>>

-----------------------------------------------------------------------------
Executor ==
    \/ StartPlanning \/ CreatePlan
    \/ NextSubgoal \/ NextTarget \/ NextQuery \/ SearchReturns \/ NextLink
    \/ FindPassage \/ ScrapeEnds
    \/ StartEvaluating \/ Evaluate \/ NextCall \/ FollowUpReturns \/ NextMoreLink
    \/ Decide \/ Synthesize \/ Validate \/ File

Client == Pause \/ Resume \/ Cancel \/ WriteStatus

Next == Executor \/ Client \/ Deadline

Spec     == Init /\ [][Next]_vars
FairSpec == Spec /\ WF_vars(Executor)

-----------------------------------------------------------------------------
Pcs == {"queued", "planning", "subgoal", "targets", "scraping", "queries", "searching", "links",
        "researched", "evaluating", "calls", "followups", "moreLinks",
        "deciding", "synthesis", "validating", "filing", "ended"}

(* The job's variables keep their types, whatever order the executor and   *)
(* the client write them in.                                               *)
TypeOK ==
    /\ pc \in Pcs /\ back \in {"none", "targets", "links", "moreLinks"}
    /\ subgoal \in 0..Len(plan) /\ round \in 1..MaxRounds + 1
    /\ targets \in Seq(Urls) /\ links \in Seq(Urls) /\ Len(links) <= 3
    /\ queries \in Nat /\ calls \in Nat
    /\ url \in Urls \cup {NoUrl} /\ (pc = "scraping") = (url # NoUrl)
    /\ visited \subseteq Urls
    /\ evidence \in Seq([url : Urls, text : Passages])
    /\ \A i, j \in Ids : evidence[i].text = evidence[j].text => i = j
    /\ {telling, status} \subseteq {"nothing", "Queued", "Planning", "Researching", "Evaluating",
                            "Synthesizing", "Validating", "Completed", "Paused", "Cancelled"}

(* The counters of BudgetTracker are raised before they are compared, so   *)
(* they pass the limits; the work done never does, and no page is scraped  *)
(* twice, through whichever of the four loops the address comes.  A        *)
(* passage is stored once per job, under the address it was first found at *)
(* (a part of TypeOK): hashes are of the text alone, though the comment of *)
(* insert has it that identical ones "from the same URL" are left out      *)
(* (src/src/agent/budgets.rs, executor.rs, evidence.rs 75-82).             *)
WorkWithinBudget ==
    /\ TypeOK
    /\ \A u \in Urls : scraped[u] <= 1
    /\ Cardinality({u \in Urls : scraped[u] # 0}) <= MaxPages
    /\ searched <= MaxSearches

(* What a finished answer cites is evidence of this job, from a page that  *)
(* this job scraped; each claim it keeps is among its citations, and an    *)
(* answer from some evidence never goes without a citation, whatever ids   *)
(* the language model makes up (src/src/agent/citations.rs).               *)
CitationsGrounded ==
    (result # NoResult /\ result.status = "Completed") =>
        /\ result.citations \subseteq Ids
        /\ result.claims \subseteq result.citations
        /\ evidence # <<>> => result.citations # {}
        /\ \A i \in result.citations : scraped[evidence[i].url] = 1

Researching == pc \notin {"synthesis", "validating", "filing", "ended"}

(* A job comes to an end, paused or not and past its deadline or not; and  *)
(* one whose cancellation is stored while it researches ends as cancelled, *)
(* through every loop that looks at the flag late or not at all            *)
(* (src/src/agent/executor.rs run_job).                                    *)
JobEnds ==
    /\ <>(pc = "ended")
    /\ (cancelled /\ Researching) ~> (pc = "ended" /\ result.status = "Cancelled")
=============================================================================
