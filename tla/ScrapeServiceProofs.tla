------------------------- MODULE ScrapeServiceProofs -------------------------
(***************************************************************************)
(* Proofs about ScrapeService: the permits of the service and of the       *)
(* browser are counted right, a page that HTTP brought is not lost to the  *)
(* browser, and the scrapes share one browser, for all sets of requests    *)
(* and of bodies, every configuration and every bound of a fetch.          *)
(***************************************************************************)
EXTENDS ScrapeService, FiniteSetTheorems, TLAPS

AtHttp    == {"fetching", "reading"}
Places    == AtHttp \cup AtBrowser \cup {"new", "acquiring", "done"}
WithHttp  == {"http", "document", "fallback", "error"}
Replies   == WithHttp \cup {"none", "overloaded", "browser", "dropped"}

\* What the variables range over, the counts of TypeOK aside.
Ranges ==
    /\ pc \in [Scrapes -> Places] /\ reply \in [Scrapes -> Replies]
    /\ config \in Configs
    /\ hop \in [Scrapes -> 0..MaxRedirects] /\ size \in [Scrapes -> 0..MaxSize]
    /\ cell \in BOOLEAN /\ alive \in BOOLEAN /\ spawned \in Nat

\* A page is kept once its fetch is over, and only a browser renders.
PageInv ==
    \A s \in Scrapes :
        /\ s \in kept => pc[s] \notin AtHttp \cup {"new"}
        /\ s \in kept /\ pc[s] = "done" => reply[s] \in {"browser", "fallback", "dropped"}
        /\ pc[s] \in Rendering \/ reply[s] = "browser" => cell

\* The cell is filled once, under the lock.
LockInv ==
    /\ spawned = IF cell THEN 1 ELSE 0
    /\ holder = {s \in Scrapes : pc[s] = "launching"}
    /\ \A s \in holder : ~cell /\ holder = {s}

TabInv == \A s \in open : pc[s] \in Rendering \ {"opening"} \/ s \in left

ServiceInv == Ranges /\ TypeOK /\ PageInv /\ LockInv /\ TabInv

Held(place, P) == IF place \in P THEN 1 ELSE 0
Running  == Places \ {"new", "done"}
CountInv ==
    /\ slots = config.scrapes - Cardinality({s \in Scrapes : pc[s] \in Running})
    /\ permits = config.pages - Cardinality({s \in Scrapes : pc[s] \in AtBrowser})
    /\ slots \in Nat /\ permits \in Nat
SharedRanges ==
    /\ open \subseteq Scrapes /\ kept \subseteq Scrapes /\ holder \subseteq Scrapes
    /\ (alive => cell) /\ (open # {} => alive)
FetchBounds == hop \in [Scrapes -> 0..MaxRedirects] /\ size \in [Scrapes -> 0..MaxSize]

-----------------------------------------------------------------------------
\* The number of scrapes at given places, when one scrape moves.
LEMMA Moved ==
  ASSUME Ranges, NEW s \in Scrapes, NEW place \in Places, NEW P, pc' = [pc EXCEPT ![s] = place]
  PROVE  Cardinality({x \in Scrapes : pc'[x] \in P})
           = Cardinality({x \in Scrapes : pc[x] \in P})
               - Held(pc[s], P) + Held(place, P)
<1> DEFINE Old == {x \in Scrapes : pc[x] \in P}
           New == {x \in Scrapes : pc'[x] \in P}
           Rest == Old \ {s}
<1> USE DEF Held
<1>1. IsFiniteSet(Old)
  BY ScrapeAssumption, FS_Subset
<1>2. pc \in [Scrapes -> Places]
  BY DEF Ranges
<1>3. New = IF place \in P THEN Rest \cup {s} ELSE Rest
  BY <1>2
<1>4. /\ IsFiniteSet(Rest) /\ Cardinality(Old) \in Nat /\ Cardinality(Rest) \in Nat
      /\ Cardinality(Rest) = Cardinality(Old) - Held(pc[s], P)
  <2>1. s \in Old <=> pc[s] \in P
    OBVIOUS
  <2>2. /\ IsFiniteSet(Rest)
        /\ Cardinality(Rest) = IF s \in Old THEN Cardinality(Old) - 1 ELSE Cardinality(Old)
    BY <1>1, FS_RemoveElement
  <2>3. Cardinality(Old) \in Nat /\ Cardinality(Rest) \in Nat
    BY <1>1, <2>2, FS_CardinalityType
  <2> QED BY <2>1, <2>2, <2>3
<1>5. Cardinality(Rest \cup {s}) = Cardinality(Rest) + 1
  BY <1>4, FS_AddElement
<1> HIDE DEF Old, New, Rest
<1>6. Cardinality(New) = Cardinality(Rest) + Held(place, P)
  BY <1>3, <1>4, <1>5
<1>7. Cardinality(New) = Cardinality(Old) - Held(pc[s], P) + Held(place, P)
  BY <1>4, <1>6
<1> QED BY <1>7 DEF Old, New

\* The counts of TypeOK, by places.
LEMMA CountsOfType ==
  Ranges => (TypeOK <=> CountInv /\ SharedRanges)
<1> SUFFICES ASSUME Ranges PROVE TypeOK <=> CountInv /\ SharedRanges
  OBVIOUS
<1>1. {s \in Scrapes : pc[s] \in Running} = Busy
  BY DEF Ranges, Running, Busy
<1>2. \A s \in Scrapes : hop[s] \in 0..MaxRedirects /\ size[s] \in 0..MaxSize
  BY DEF Ranges
<1> DEFINE R == Cardinality({s \in Scrapes : pc[s] \in Running})
           B == Cardinality({s \in Scrapes : pc[s] \in AtBrowser})
<1>4. CountInv <=> /\ slots = config.scrapes - R /\ permits = config.pages - B
                   /\ slots \in Nat /\ permits \in Nat
  BY DEF CountInv
<1>5. R = Cardinality(Busy) /\ B = Cardinality({s \in Scrapes : pc[s] \in AtBrowser})
  BY <1>1
<1> HIDE DEF R, B
<1> QED BY <1>2, <1>4, <1>5 DEF TypeOK, SharedRanges

\* A step of a scrape that gives back what its new place does not hold.
LEMMA Counted ==
  ASSUME ServiceInv, NEW s \in Scrapes, NEW place \in Places,
         pc' = [pc EXCEPT ![s] = place], config' = config,
         slots' \in Nat, permits' \in Nat,
         slots' = slots + Held(pc[s], Running) - Held(place, Running),
         permits' = permits + Held(pc[s], AtBrowser) - Held(place, AtBrowser)
  PROVE  CountInv'
<1>1. Ranges /\ CountInv
  BY CountsOfType DEF ServiceInv
<1> DEFINE R == Cardinality({x \in Scrapes : pc[x] \in Running})
           B == Cardinality({x \in Scrapes : pc[x] \in AtBrowser})
           RNew == Cardinality({x \in Scrapes : pc'[x] \in Running})
           BNew == Cardinality({x \in Scrapes : pc'[x] \in AtBrowser})
<1>2. R \in Nat /\ B \in Nat
  BY ScrapeAssumption, FS_Subset, FS_CardinalityType
<1>3. RNew = R - Held(pc[s], Running) + Held(place, Running)
  BY <1>1, Moved
<1>4. BNew = B - Held(pc[s], AtBrowser) + Held(place, AtBrowser)
  BY <1>1, Moved
<1>5. /\ slots = config.scrapes - R /\ permits = config.pages - B
      /\ config.scrapes \in Nat /\ config.pages \in Nat
  BY <1>1, ScrapeAssumption DEF Ranges, CountInv
<1>6. CountInv' <=> /\ slots' = config.scrapes - RNew /\ permits' = config.pages - BNew
                    /\ slots' \in Nat /\ permits' \in Nat
  BY DEF CountInv
<1> DEFINE rOut == Held(pc[s], Running)
           rIn  == Held(place, Running)
           bOut == Held(pc[s], AtBrowser)
           bIn  == Held(place, AtBrowser)
<1>7. {rOut, rIn, bOut, bIn} \subseteq Int
  BY DEF Held
<1>8. RNew = R - rOut + rIn /\ BNew = B - bOut + bIn
  BY <1>3, <1>4
<1>9. slots' = slots + rOut - rIn /\ permits' = permits + bOut - bIn
  OBVIOUS
<1> HIDE DEF R, B, RNew, BNew, rOut, rIn, bOut, bIn
<1>10. slots' = config.scrapes - RNew
  BY <1>2, <1>5, <1>7, <1>8, <1>9
<1>11. permits' = config.pages - BNew
  BY <1>2, <1>5, <1>7, <1>8, <1>9
<1> QED BY <1>6, <1>10, <1>11

\* The invariants hold when the service starts.
LEMMA InitInv == Init => ServiceInv
<1> SUFFICES ASSUME Init PROVE ServiceInv
  OBVIOUS
<1>1. Ranges
  <2>1. MaxRedirects \in Nat /\ MaxSize \in Nat
    BY ScrapeAssumption
  <2>2. hop \in [Scrapes -> 0..MaxRedirects] /\ size \in [Scrapes -> 0..MaxSize]
    BY <2>1 DEF Init
  <2>3. pc \in [Scrapes -> Places] /\ reply \in [Scrapes -> Replies]
    BY DEF Init, Places, Replies
  <2> QED BY <2>2, <2>3 DEF Init, Ranges
<1>2. TypeOK
  <2>1. {s \in Scrapes : pc[s] \in Running} = {} /\ {s \in Scrapes : pc[s] \in AtBrowser} = {}
    BY DEF Init, Running, AtBrowser, Rendering
  <2>2. config.scrapes \in Nat /\ config.pages \in Nat
    BY ScrapeAssumption DEF Init
  <2>3. /\ Cardinality({s \in Scrapes : pc[s] \in Running}) = 0
        /\ Cardinality({s \in Scrapes : pc[s] \in AtBrowser}) = 0
    BY <2>1, FS_EmptySet
  <2> DEFINE R == Cardinality({s \in Scrapes : pc[s] \in Running})
             B == Cardinality({s \in Scrapes : pc[s] \in AtBrowser})
  <2>4. CountInv <=> /\ slots = config.scrapes - R /\ permits = config.pages - B
                     /\ slots \in Nat /\ permits \in Nat
    BY DEF CountInv
  <2>5. R = 0 /\ B = 0
    BY <2>3
  <2> HIDE DEF R, B
  <2>6. CountInv
    BY <2>2, <2>4, <2>5 DEF Init
  <2> QED BY <1>1, <2>6, CountsOfType DEF Init, SharedRanges
<1>3. PageInv /\ LockInv /\ TabInv
  BY DEF Init, PageInv, LockInv, TabInv, Rendering, AtHttp
<1> QED BY <1>1, <1>2, <1>3 DEF ServiceInv

-----------------------------------------------------------------------------
\* What the steps of a fetch have in common: the scrape goes on without the
\* browser, or hands over to it, or answers; a page it keeps is one it hands
\* over or answers with.
FetchEffect(s) ==
    \E place \in {"fetching", "reading", "acquiring", "done"}, answer \in Replies :
        /\ pc[s] \in AtHttp /\ pc' = [pc EXCEPT ![s] = place]
        /\ \/ place # "done" /\ UNCHANGED <<slots, reply>>
           \/ place = "done" /\ slots' = slots + 1
              /\ reply' = [reply EXCEPT ![s] = answer] /\ answer \in WithHttp
        /\ \/ UNCHANGED kept
           \/ kept' = kept \cup {s} /\ place = "acquiring"
           \/ kept' = kept \cup {s} /\ place = "done" /\ answer = "fallback"
        /\ FetchBounds' /\ UNCHANGED <<left, browser>>

LEMMA FetchStep ==
  ASSUME ServiceInv, NEW s \in Scrapes, Fetching(s)
  PROVE  FetchEffect(s)
<1> USE DEF WithHttp, Replies, AtHttp
<1>0. /\ hop \in [Scrapes -> 0..MaxRedirects] /\ size \in [Scrapes -> 0..MaxSize]
      /\ MaxRedirects \in Nat /\ MaxSize \in Nat
  BY ScrapeAssumption DEF ServiceInv, Ranges
<1>1. Drop(s) => FetchBounds'
  BY <1>0 DEF Drop, FetchBounds
<1>2. ASSUME pc[s] \in AtHttp, FetchFails(s), UNCHANGED <<kept, left, browser>>
      PROVE  FetchEffect(s)
  BY <1>1, <1>2 DEF FetchFails, ToBrowser, Goto, Answer, Without, FetchEffect
<1>3. ASSUME pc[s] \in AtHttp, NEW place \in AtHttp, Goto(s, place), FetchBounds',
             UNCHANGED <<kept, left, browser>>
      PROVE  FetchEffect(s)
  BY <1>3 DEF Goto, FetchEffect
<1>4. CASE Refused(s) \/ StreamBreaks(s)
  BY <1>2, <1>4 DEF Refused, StreamBreaks
<1>5. CASE Redirected(s)
  <2>1. CASE ~TooMany(hop[s] + 1) /\ hop' = [hop EXCEPT ![s] = @ + 1] /\ UNCHANGED size /\ Goto(s, "fetching")
    <3>1. FetchBounds'
      BY <1>0, <2>1 DEF FetchBounds, TooMany
    <3> QED BY <1>3, <1>5, <2>1, <3>1 DEF Redirected
  <2>2. CASE FetchFails(s)
    BY <1>2, <1>5, <2>2 DEF Redirected
  <2> QED BY <1>5, <2>1, <2>2 DEF Redirected
<1>6. CASE Answered(s)
  <2>1. UNCHANGED <<hop, size>> => FetchBounds'
    BY <1>0 DEF FetchBounds
  <2> QED BY <1>2, <1>3, <1>6, <2>1 DEF Answered
<1>7. CASE Chunk(s)
  <2>1. ASSUME NEW n \in 1..MaxSize + 1, Fits(size[s] + n), size' = [size EXCEPT ![s] = @ + n], UNCHANGED hop
        PROVE  FetchBounds'
    <3>1. size[s] + n \in 0..MaxSize
      BY <1>0, <2>1 DEF Fits
    <3> QED BY <1>0, <2>1, <3>1 DEF FetchBounds
  <2> QED BY <1>2, <1>3, <1>7, <2>1 DEF Chunk
<1>8. CASE ReadHttp(s)
  BY <1>1, <1>8 DEF ReadHttp, Answer, Parsed, FetchEffect
<1>9. CASE ReadAuto(s)
  <2>1. CASE IsHtml(s) /\ NeedsBrowser(sent[s])
    BY <1>1, <1>9, <2>1 DEF ReadAuto, ToBrowser, Goto, Answer, Without, FetchEffect
  <2>2. CASE ~(IsHtml(s) /\ NeedsBrowser(sent[s]))
    BY <1>1, <1>9, <2>2 DEF ReadAuto, Answer, Parsed, FetchEffect
  <2> QED BY <2>1, <2>2
<1> QED BY <1>4, <1>5, <1>6, <1>7, <1>8, <1>9 DEF Fetching

\* What a step leaves to be shown.
LEMMA NextInv ==
  ASSUME Ranges', CountInv', SharedRanges', PageInv', LockInv', TabInv'
  PROVE  ServiceInv'
<1>1. (Ranges => (TypeOK <=> CountInv /\ SharedRanges))'
  BY CountsOfType, PTL
<1> QED BY <1>1 DEF ServiceInv

\* The permits stay natural numbers, for what a scrape gives back it held.
LEMMA Permits ==
  ASSUME ServiceInv
  PROVE  slots \in Nat /\ permits \in Nat /\ slots + 1 \in Nat /\ permits + 1 \in Nat
         /\ (slots # 0 => slots - 1 \in Nat) /\ (permits > 0 => permits - 1 \in Nat)
<1>1. slots \in Nat /\ permits \in Nat
  BY DEF ServiceInv, TypeOK
<1> QED BY <1>1

\* No step of a fetch disturbs the counts, the kept pages, the browser.
LEMMA FetchKeeps ==
  ASSUME ServiceInv, NEW s \in Scrapes, FetchEffect(s)
  PROVE  ServiceInv'
<1>1. PICK place \in {"fetching", "reading", "acquiring", "done"}, answer \in Replies :
        /\ pc[s] \in AtHttp /\ pc' = [pc EXCEPT ![s] = place]
        /\ \/ place # "done" /\ UNCHANGED <<slots, reply>>
           \/ place = "done" /\ slots' = slots + 1
              /\ reply' = [reply EXCEPT ![s] = answer] /\ answer \in WithHttp
        /\ \/ UNCHANGED kept
           \/ kept' = kept \cup {s} /\ place = "acquiring"
           \/ kept' = kept \cup {s} /\ place = "done" /\ answer = "fallback"
        /\ FetchBounds' /\ UNCHANGED <<left, browser>>
  BY DEF FetchEffect
<1>2. place \in Places
  BY DEF Places, AtHttp
<1>3. /\ pc[s] \in Running /\ pc[s] \notin AtBrowser /\ place \notin AtBrowser
      /\ place \in Running <=> place # "done"
      /\ Held(pc[s], Running) = 1 /\ Held(pc[s], AtBrowser) = 0 /\ Held(place, AtBrowser) = 0
      /\ Held(place, Running) = IF place = "done" THEN 0 ELSE 1
  BY <1>1, <1>2 DEF Held, Running, Places, AtHttp, AtBrowser, Rendering
<1>4. CountInv'
  <2>1. slots' \in Nat /\ permits' \in Nat /\ permits' = permits /\ config' = config
    BY <1>1, Permits DEF browser
  <2>2. slots' = slots + Held(pc[s], Running) - Held(place, Running)
    <3> DEFINE out == Held(pc[s], Running)
               in  == Held(place, Running)
    <3>1. slots \in Nat /\ out = 1 /\ in = (IF place = "done" THEN 0 ELSE 1)
          /\ slots' = IF place = "done" THEN slots + 1 ELSE slots
      BY <1>1, <1>3, Permits
    <3> HIDE DEF out, in
    <3>2. slots' = slots + out - in
      BY <3>1
    <3> QED BY <3>2 DEF out, in
  <2>3. permits' = permits + Held(pc[s], AtBrowser) - Held(place, AtBrowser)
    BY <1>3, <2>1
  <2> QED BY <1>1, <1>2, <2>1, <2>2, <2>3, Counted
<1>5. Ranges'
  BY <1>1, <1>2 DEF ServiceInv, Ranges, FetchBounds, browser
<1>6. SharedRanges'
  BY <1>1 DEF ServiceInv, TypeOK, SharedRanges, browser
<1>7. PageInv'
  <2>1. pc \in [Scrapes -> Places] /\ reply \in [Scrapes -> Replies] /\ UNCHANGED cell
    BY <1>1 DEF ServiceInv, Ranges, browser
  <2>2. pc'[s] = place /\ \A x \in Scrapes \ {s} : pc'[x] = pc[x] /\ reply'[x] = reply[x] /\ (x \in kept' <=> x \in kept)
    BY <1>1, <2>1
  <2>3. reply'[s] = "browser" => reply[s] = "browser"
    BY <1>1, <2>1 DEF WithHttp
  <2>4. s \notin kept
    BY <1>1 DEF ServiceInv, PageInv, AtHttp
  <2>5. s \in kept' => place = "acquiring" \/ (place = "done" /\ reply'[s] = "fallback")
    BY <1>1, <2>1, <2>4
  <2>6. ASSUME NEW x \in Scrapes, x # s
        PROVE  /\ x \in kept' => pc'[x] \notin AtHttp \cup {"new"}
               /\ x \in kept' /\ pc'[x] = "done" => reply'[x] \in {"browser", "fallback", "dropped"}
               /\ pc'[x] \in Rendering \/ reply'[x] = "browser" => cell'
    BY <2>1, <2>2, <2>6 DEF ServiceInv, PageInv
  <2>7. /\ s \in kept' => pc'[s] \notin AtHttp \cup {"new"}
        /\ s \in kept' /\ pc'[s] = "done" => reply'[s] \in {"browser", "fallback", "dropped"}
    BY <2>2, <2>5 DEF AtHttp
  <2>8. pc'[s] \in Rendering \/ reply'[s] = "browser" => cell'
    BY <1>3, <2>1, <2>2, <2>3 DEF ServiceInv, PageInv, AtBrowser
  <2> QED BY <2>6, <2>7, <2>8 DEF PageInv
<1>8. LockInv' /\ TabInv'
  <2>1. pc \in [Scrapes -> Places] /\ open \subseteq Scrapes
    BY DEF ServiceInv, Ranges, TypeOK
  <2>2. UNCHANGED <<cell, holder, spawned, open, left>>
    BY <1>1 DEF browser
  <2>3. \A x \in Scrapes : pc'[x] = IF x = s THEN place ELSE pc[x]
    BY <1>1, <2>1
  <2>4. pc[s] \notin Rendering /\ place # "launching" /\ pc[s] # "launching"
    BY <1>3 DEF AtBrowser
  <2>5. LockInv'
    <3>1. \A x \in Scrapes : pc'[x] = "launching" <=> pc[x] = "launching"
      BY <2>3, <2>4
    <3> QED BY <2>2, <3>1 DEF ServiceInv, LockInv
  <2>6. TabInv'
    BY <2>1, <2>2, <2>3, <2>4 DEF ServiceInv, TabInv
  <2> QED BY <2>5, <2>6
<1> QED BY <1>4, <1>5, <1>6, <1>7, <1>8, NextInv

\* What scrapes hold at their places.
LEMMA HeldAt ==
  /\ \A p \in AtBrowser : p \in Places /\ Held(p, Running) = 1 /\ Held(p, AtBrowser) = 1
  /\ \A p \in {"new", "done"} : p \in Places /\ Held(p, Running) = 0 /\ Held(p, AtBrowser) = 0
  /\ \A p \in AtHttp \cup {"acquiring"} : p \in Places /\ Held(p, Running) = 1 /\ Held(p, AtBrowser) = 0
BY DEF Held, Running, Places, AtBrowser, AtHttp, Rendering

\* The same by amounts: what a step gives back and takes.
LEMMA CountedBy ==
  ASSUME ServiceInv, NEW s \in Scrapes, NEW place \in Places,
         pc' = [pc EXCEPT ![s] = place], config' = config,
         NEW rOut \in Nat, NEW rIn \in Nat, NEW bOut \in Nat, NEW bIn \in Nat,
         rOut = Held(pc[s], Running), rIn = Held(place, Running),
         bOut = Held(pc[s], AtBrowser), bIn = Held(place, AtBrowser),
         slots' \in Nat, permits' \in Nat,
         slots' = slots + rOut - rIn, permits' = permits + bOut - bIn
  PROVE  CountInv'
<1>1. slots' = slots + Held(pc[s], Running) - Held(place, Running)
  OBVIOUS
<1>2. permits' = permits + Held(pc[s], AtBrowser) - Held(place, AtBrowser)
  OBVIOUS
<1> QED BY <1>1, <1>2, Counted

\* A scrape that holds a permit of the browser and goes on with it.
LEMMA GoesOn ==
  ASSUME ServiceInv, NEW s \in Scrapes, NEW place \in AtBrowser, pc[s] \in AtBrowser, Goto(s, place),
         UNCHANGED <<kept, left, fetch, config, permits>>,
         cell' \in BOOLEAN, alive' \in BOOLEAN, spawned' \in Nat, cell => cell', place \in Rendering => cell',
         SharedRanges', LockInv', TabInv'
  PROVE  ServiceInv'
<1>1. pc \in [Scrapes -> Places] /\ reply \in [Scrapes -> Replies] /\ place \in Places
  BY HeldAt DEF ServiceInv, Ranges
<1>2. pc' = [pc EXCEPT ![s] = place] /\ UNCHANGED <<slots, reply, kept, config, permits, hop, size>>
  BY DEF Goto, fetch
<1>3. CountInv'
  <2>1. slots' = slots + 1 - 1 /\ permits' = permits + 1 - 1 /\ slots' \in Nat /\ permits' \in Nat
    BY <1>2, Permits
  <2>2. Held(pc[s], Running) = 1 /\ Held(place, Running) = 1
        /\ Held(pc[s], AtBrowser) = 1 /\ Held(place, AtBrowser) = 1
    BY HeldAt
  <2> QED BY <1>1, <1>2, <2>1, <2>2, CountedBy
<1>4. Ranges'
  BY <1>1, <1>2 DEF ServiceInv, Ranges
<1>5. PageInv'
  <2>1. place \notin AtHttp \cup {"new", "done"}
    BY DEF AtBrowser, AtHttp, Rendering
  <2> QED BY <1>1, <1>2, <2>1 DEF ServiceInv, PageInv
<1> QED BY <1>3, <1>4, <1>5, NextInv

\* A scrape that holds a permit of the browser and answers.
LEMMA Answers ==
  ASSUME ServiceInv, NEW s \in Scrapes, pc[s] \in AtBrowser,
         NEW what \in {"browser", "fallback", "error", "dropped"},
         pc' = [pc EXCEPT ![s] = "done"], reply' = [reply EXCEPT ![s] = what], slots' = slots + 1,
         pc[s] \in Rendering \/ what # "browser", s \in kept => what # "error",
         permits' = permits + 1, UNCHANGED <<kept, config>>, UNCHANGED <<cell, alive, spawned>>, FetchBounds',
         SharedRanges', LockInv', TabInv'
  PROVE  ServiceInv'
<1>1. pc \in [Scrapes -> Places] /\ reply \in [Scrapes -> Replies] /\ what \in Replies
  BY DEF ServiceInv, Ranges, Replies, WithHttp
<1>2. /\ pc' = [pc EXCEPT ![s] = "done"] /\ reply' = [reply EXCEPT ![s] = what] /\ slots' = slots + 1
      /\ UNCHANGED <<kept, config, cell, alive, spawned>>
  OBVIOUS
<1>3. CountInv'
  <2>1. slots \in Nat /\ permits \in Nat /\ slots' = slots + 1 /\ permits' = permits + 1
    BY <1>2, Permits
  <2>3. slots' = slots + 1 - 0 /\ permits' = permits + 1 - 0 /\ slots' \in Nat /\ permits' \in Nat
    BY <2>1
  <2>2. Held(pc[s], Running) = 1 /\ Held("done", Running) = 0 /\ "done" \in Places
        /\ Held(pc[s], AtBrowser) = 1 /\ Held("done", AtBrowser) = 0
    BY HeldAt
  <2> DEFINE place == "done"
  <2>4. place \in Places /\ pc' = [pc EXCEPT ![s] = place] /\ config' = config
        /\ Held(place, Running) = 0 /\ Held(place, AtBrowser) = 0
    BY <1>2, <2>2
  <2> HIDE DEF place
  <2>5. /\ slots' = slots + Held(pc[s], Running) - Held(place, Running)
        /\ permits' = permits + Held(pc[s], AtBrowser) - Held(place, AtBrowser)
    BY <2>2, <2>3, <2>4
  <2> QED BY <2>3, <2>4, <2>5, Counted
<1>4. Ranges'
  <2>1. "done" \in Places
    BY DEF Places
  <2> QED BY <1>1, <1>2, <2>1 DEF ServiceInv, Ranges, FetchBounds
<1>5. PageInv'
  <2>1. "done" \notin AtHttp \cup {"new"} /\ "done" \notin Rendering
    BY DEF AtHttp, Rendering
  <2>2. \A x \in Scrapes : /\ pc'[x] = IF x = s THEN "done" ELSE pc[x]
                           /\ reply'[x] = IF x = s THEN what ELSE reply[x]
    BY <1>1, <1>2
  <2>3. kept' = kept /\ cell' = cell
    BY <1>2
  <2>4. ASSUME NEW x \in Scrapes, x # s
        PROVE  /\ x \in kept' => pc'[x] \notin AtHttp \cup {"new"}
               /\ x \in kept' /\ pc'[x] = "done" => reply'[x] \in {"browser", "fallback", "dropped"}
               /\ pc'[x] \in Rendering \/ reply'[x] = "browser" => cell'
    BY <2>2, <2>3, <2>4 DEF ServiceInv, PageInv
  <2>5. /\ s \in kept' => pc'[s] \notin AtHttp \cup {"new"}
        /\ s \in kept' /\ pc'[s] = "done" => reply'[s] \in {"browser", "fallback", "dropped"}
    BY <2>1, <2>2, <2>3
  <2>6. pc'[s] \in Rendering \/ reply'[s] = "browser" => cell'
    BY <2>1, <2>2, <2>3 DEF ServiceInv, PageInv
  <2> QED BY <2>4, <2>5, <2>6 DEF PageInv
<1> QED BY <1>3, <1>4, <1>5, NextInv

\* A render that fails answers with the page that HTTP brought, if there is one.
LEMMA FallsBack ==
  ASSUME NEW s \in Scrapes, Fallback(s)
  PROVE  \E what \in {"fallback", "error"} : Answer(s, what) /\ (s \in kept => what # "error")
BY DEF Fallback, Without

-----------------------------------------------------------------------------
\* A request is taken, or refused for want of a slot or of a browser.
LEMMA StartStep ==
  ASSUME ServiceInv, NEW s \in Scrapes, Start(s)
  PROVE  ServiceInv'
<1>1. pc \in [Scrapes -> Places] /\ reply \in [Scrapes -> Replies] /\ pc[s] = "new"
  BY DEF ServiceInv, Ranges, Start
<1>2. UNCHANGED <<kept, left, hop, size, config, permits, holder, cell, alive, open, spawned>>
  BY DEF Start, fetch, browser
<1>3. PICK place \in {"done", "acquiring", "fetching"} :
        /\ pc' = [pc EXCEPT ![s] = place]
        /\ IF place = "done"
           THEN slots' = slots /\ \E answer \in {"overloaded", "error"} : reply' = [reply EXCEPT ![s] = answer]
           ELSE slots # 0 /\ slots' = slots - 1 /\ reply' = reply
  BY DEF Start
<1>4. CountInv'
  <2>1. Held("new", Running) = 0 /\ Held("new", AtBrowser) = 0 /\ Held(place, AtBrowser) = 0
        /\ place \in Places /\ permits' = permits + 0 - 0 /\ permits' \in Nat
    BY <1>2, HeldAt, Permits DEF AtHttp
  <2>2. CASE place = "done"
    <3>1. slots' = slots + 0 - 0 /\ slots' \in Nat /\ Held(place, Running) = 0
      BY <1>3, <2>2, Permits, HeldAt
    <3> QED BY <1>1, <1>2, <1>3, <2>1, <3>1, CountedBy
  <2>3. CASE place # "done"
    <3>1. slots' = slots + 0 - 1 /\ slots' \in Nat /\ Held(place, Running) = 1
      BY <1>3, <2>3, Permits, HeldAt DEF AtHttp
    <3> QED BY <1>1, <1>2, <1>3, <2>1, <3>1, CountedBy
  <2> QED BY <2>2, <2>3
<1>5. Ranges'
  <2>1. place \in Places /\ {"overloaded", "error"} \subseteq Replies
    BY DEF Places, Replies, WithHttp, AtHttp
  <2> QED BY <1>1, <1>2, <1>3, <2>1 DEF ServiceInv, Ranges
<1>6. PageInv'
  <2>1. s \notin kept
    BY <1>1 DEF ServiceInv, PageInv
  <2>2. place \notin Rendering
    BY DEF Rendering
  <2> QED BY <1>1, <1>2, <1>3, <2>1, <2>2 DEF ServiceInv, PageInv
<1>7. SharedRanges'
  BY <1>2 DEF ServiceInv, TypeOK, SharedRanges
<1>8. LockInv' /\ TabInv'
  <2>1. open \subseteq Scrapes /\ \A x \in Scrapes : pc'[x] = IF x = s THEN place ELSE pc[x]
    BY <1>1, <1>3 DEF ServiceInv, TypeOK
  <2>2. "new" \notin Rendering
    BY DEF Rendering
  <2>3. LockInv'
    <3>1. \A x \in Scrapes : pc'[x] = "launching" <=> pc[x] = "launching"
      BY <1>1, <2>1
    <3> QED BY <1>2, <3>1 DEF ServiceInv, LockInv
  <2>4. TabInv'
    BY <1>1, <1>2, <2>1, <2>2 DEF ServiceInv, TabInv
  <2> QED BY <2>3, <2>4
<1> QED BY <1>4, <1>5, <1>6, <1>7, <1>8, NextInv

-----------------------------------------------------------------------------
\* What is known of the scrape that moves and of the others.
LEMMA Known ==
  ASSUME ServiceInv, NEW s \in Scrapes
  PROVE  /\ pc \in [Scrapes -> Places] /\ cell \in BOOLEAN /\ alive \in BOOLEAN /\ spawned \in Nat
         /\ SharedRanges /\ LockInv /\ TabInv /\ (pc[s] \in Rendering => cell)
<1>1. CountInv /\ SharedRanges
  BY CountsOfType DEF ServiceInv
<1> QED BY <1>1 DEF ServiceInv, Ranges, PageInv

\* Moving a scrape leaves the tabs of the others as they are.
LEMMA TabsKept ==
  ASSUME ServiceInv, NEW s \in Scrapes, NEW place, pc' = [pc EXCEPT ![s] = place],
         left \subseteq left', open' \subseteq open \cup {s},
         s \in open' => place \in Rendering \ {"opening"} \/ s \in left'
  PROVE  TabInv'
<1>1. pc \in [Scrapes -> Places] /\ open \subseteq Scrapes /\ TabInv
  BY Known DEF SharedRanges
<1> QED BY <1>1 DEF TabInv

\* Moving a scrape neither from a launch nor to one leaves the lock as it is.
LEMMA LockKept ==
  ASSUME ServiceInv, NEW s \in Scrapes, NEW place, pc' = [pc EXCEPT ![s] = place],
         pc[s] # "launching", place # "launching",
         holder' = holder, cell' = cell, spawned' = spawned
  PROVE  LockInv'
<1>1. pc \in [Scrapes -> Places] /\ LockInv
  BY Known
<1> QED BY <1>1 DEF LockInv

\* A permit of the browser is taken.
LEMMA AcquireStep ==
  ASSUME ServiceInv, NEW s \in Scrapes, Acquire(s)
  PROVE  ServiceInv'
<1>1. /\ pc[s] = "acquiring" /\ permits > 0 /\ permits' = permits - 1
      /\ pc' = [pc EXCEPT ![s] = "locking"] /\ UNCHANGED <<slots, reply, kept, left, hop, size>>
      /\ UNCHANGED <<config, holder, cell, alive, open, spawned>>
  BY DEF Acquire, Goto, fetch
<1>2. /\ Held("acquiring", Running) = 1 /\ Held("acquiring", AtBrowser) = 0
      /\ Held("locking", Running) = 1 /\ Held("locking", AtBrowser) = 1 /\ "locking" \in Places
  BY HeldAt DEF AtBrowser
<1>3. CountInv'
  <2>1. slots' = slots + 1 - 1 /\ permits' = permits + 0 - 1 /\ slots' \in Nat /\ permits' \in Nat
    BY <1>1, Permits
  <2>2. /\ slots' = slots + Held(pc[s], Running) - Held("locking", Running)
        /\ permits' = permits + Held(pc[s], AtBrowser) - Held("locking", AtBrowser)
    BY <1>1, <1>2, <2>1
  <2> QED BY <1>1, <1>2, <2>1, <2>2, Counted
<1>4. Ranges'
  BY <1>1, <1>2 DEF ServiceInv, Ranges
<1>5. PageInv'
  <2>1. pc \in [Scrapes -> Places] /\ "locking" \notin Rendering \cup AtHttp \cup {"new", "done"}
    BY Known DEF Rendering, AtHttp
  <2> QED BY <1>1, <2>1 DEF ServiceInv, PageInv
<1>6. SharedRanges'
  BY <1>1, Known DEF SharedRanges
<1>7. LockInv'
  BY <1>1, LockKept
<1>8. TabInv'
  <2>1. s \in open => s \in left
    BY <1>1 DEF ServiceInv, TabInv, Rendering
  <2> QED BY <1>1, <2>1, TabsKept
<1> QED BY <1>3, <1>4, <1>5, <1>6, <1>7, <1>8, NextInv

\* No permit came within its timeout.
LEMMA TimesOutStep ==
  ASSUME ServiceInv, NEW s \in Scrapes, AcquireTimesOut(s)
  PROVE  ServiceInv'
<1>1. PICK what \in {"fallback", "error"} :
        /\ pc' = [pc EXCEPT ![s] = "done"] /\ reply' = [reply EXCEPT ![s] = what] /\ slots' = slots + 1
        /\ s \in kept => what # "error"
  BY FallsBack DEF AcquireTimesOut, Answer
<1>2. /\ pc[s] = "acquiring" /\ UNCHANGED <<permits, kept, left, hop, size>>
      /\ UNCHANGED <<config, holder, cell, alive, open, spawned>>
  BY DEF AcquireTimesOut, fetch, browser
<1>3. /\ Held("acquiring", Running) = 1 /\ Held("acquiring", AtBrowser) = 0
      /\ Held("done", Running) = 0 /\ Held("done", AtBrowser) = 0 /\ "done" \in Places
  BY HeldAt
<1>4. CountInv'
  <2>1. slots' = slots + 1 - 0 /\ permits' = permits + 0 - 0 /\ slots' \in Nat /\ permits' \in Nat
    BY <1>1, <1>2, Permits
  <2>2. /\ slots' = slots + Held(pc[s], Running) - Held("done", Running)
        /\ permits' = permits + Held(pc[s], AtBrowser) - Held("done", AtBrowser)
    BY <1>2, <1>3, <2>1
  <2> QED BY <1>1, <1>2, <1>3, <2>1, <2>2, Counted
<1>5. Ranges'
  <2>1. what \in Replies
    BY DEF Replies, WithHttp
  <2> QED BY <1>1, <1>2, <1>3, <2>1 DEF ServiceInv, Ranges
<1>6. PageInv'
  <2>1. pc \in [Scrapes -> Places] /\ reply \in [Scrapes -> Replies] /\ "done" \notin Rendering \cup AtHttp \cup {"new"}
    BY DEF ServiceInv, Ranges, Rendering, AtHttp
  <2> QED BY <1>1, <1>2, <2>1 DEF ServiceInv, PageInv
<1>7. SharedRanges'
  BY <1>2, Known DEF SharedRanges
<1>8. LockInv'
  BY <1>1, <1>2, LockKept
<1>9. TabInv'
  <2>1. s \in open => s \in left
    BY <1>2 DEF ServiceInv, TabInv, Rendering
  <2> QED BY <1>1, <1>2, <2>1, TabsKept
<1> QED BY <1>4, <1>5, <1>6, <1>7, <1>8, <1>9, NextInv

\* The lock is taken, and kept for a launch when there is no browser yet.
LEMMA LockStep ==
  ASSUME ServiceInv, NEW s \in Scrapes, Lock(s) \/ Launched(s)
  PROVE  ServiceInv'
<1>1. PICK place \in {"opening", "launching"} :
        /\ pc[s] \in {"locking", "launching"} /\ Goto(s, place)
        /\ \/ /\ pc[s] = "locking" /\ holder = {} /\ UNCHANGED <<cell, alive, spawned>>
              /\ IF cell THEN place = "opening" /\ holder' = holder
                         ELSE place = "launching" /\ holder' = {s}
           \/ /\ pc[s] = "launching" /\ place = "opening"
              /\ holder' = holder \ {s} /\ cell' = TRUE /\ alive' = TRUE /\ spawned' = spawned + 1
        /\ UNCHANGED <<kept, left, fetch, config, permits, open>>
  BY DEF Lock, Launched, Frees
<1>2. /\ pc \in [Scrapes -> Places] /\ cell \in BOOLEAN /\ alive \in BOOLEAN /\ spawned \in Nat
      /\ SharedRanges /\ LockInv /\ pc' = [pc EXCEPT ![s] = place] /\ UNCHANGED <<kept, open>>
  BY <1>1, Known DEF Goto
<1>3. /\ cell' \in BOOLEAN /\ alive' \in BOOLEAN /\ spawned' \in Nat
      /\ (cell => cell') /\ (place \in Rendering => cell')
  <2>1. "launching" \notin Rendering
    BY DEF Rendering
  <2>2. CASE pc[s] = "locking"
    <3>1. cell' = cell /\ alive' = alive /\ spawned' = spawned /\ (place = "launching" \/ cell)
      BY <1>1, <2>2
    <3> QED BY <1>2, <2>1, <3>1
  <2>3. CASE pc[s] = "launching"
    BY <1>1, <1>2, <2>3
  <2> QED BY <1>1, <2>2, <2>3
<1>4. place \in AtBrowser /\ pc[s] \in AtBrowser
  BY <1>1 DEF AtBrowser, Rendering
<1>5. SharedRanges'
  BY <1>1, <1>2 DEF SharedRanges
<1>6. LockInv'
  <2>1. CASE pc[s] = "locking"
    BY <1>1, <1>2, <2>1 DEF LockInv
  <2>2. CASE pc[s] = "launching"
    <3>1. s \in holder /\ holder = {s} /\ ~cell /\ \A x \in Scrapes : pc[x] = "launching" => x = s
      BY <1>2, <2>2 DEF LockInv
    <3>2. \A x \in Scrapes : pc'[x] # "launching"
      BY <1>1, <1>2, <2>2, <3>1
    <3> QED BY <1>1, <1>2, <2>2, <3>1, <3>2 DEF LockInv
  <2> QED BY <1>1, <2>1, <2>2
<1>7. TabInv'
  <2>1. s \in open => s \in left
    BY <1>1 DEF ServiceInv, TabInv, Rendering
  <2> QED BY <1>1, <1>2, <2>1, TabsKept
<1>8. Goto(s, place) /\ UNCHANGED <<kept, left, fetch, config, permits>>
  BY <1>1
<1> QED BY <1>3, <1>4, <1>5, <1>6, <1>7, <1>8, GoesOn

\* render_page goes on: the tab is opened, navigated, waited for, acted upon, read.
LEMMA RenderingStep ==
  ASSUME ServiceInv, NEW s \in Scrapes, NEW place \in Rendering \ {"opening"},
         pc[s] \in Rendering, Goto(s, place),
         open' = open \/ (alive /\ open' = open \cup {s}),
         UNCHANGED <<kept, left, fetch, config, permits, holder, cell, alive, spawned>>
  PROVE  ServiceInv'
<1>1. /\ cell \in BOOLEAN /\ alive \in BOOLEAN /\ spawned \in Nat /\ cell
      /\ SharedRanges /\ pc' = [pc EXCEPT ![s] = place]
  BY Known DEF Goto
<1>2. /\ cell' \in BOOLEAN /\ alive' \in BOOLEAN /\ spawned' \in Nat
      /\ (cell => cell') /\ (place \in Rendering => cell')
  BY <1>1
<1>3. place \in AtBrowser /\ pc[s] \in AtBrowser /\ place # "launching" /\ pc[s] # "launching"
  BY DEF AtBrowser, Rendering
<1>4. SharedRanges'
  BY <1>1 DEF SharedRanges
<1>5. LockInv'
  BY <1>1, <1>3, LockKept
<1>6. TabInv'
  BY <1>1, TabsKept
<1> QED BY <1>2, <1>3, <1>4, <1>5, <1>6, GoesOn

\* A render is over, however it ends: the permit is given back, and the tab is
\* closed or, when the total timeout ended it, left behind.
LEMMA EndStep ==
  ASSUME ServiceInv, NEW s \in Scrapes, pc[s] \in Rendering,
         NEW what \in {"browser", "fallback", "error", "dropped"},
         pc' = [pc EXCEPT ![s] = "done"], reply' = [reply EXCEPT ![s] = what], slots' = slots + 1,
         s \in kept => what # "error", permits' = permits + 1,
         UNCHANGED <<kept, config, holder, cell, alive, spawned>>, FetchBounds', left \subseteq left',
         open' \subseteq open \cup {s}, open' # {} => alive, s \in open' => s \in left'
  PROVE  ServiceInv'
<1>1. SharedRanges'
  BY Known DEF SharedRanges
<1>2. LockInv'
  BY LockKept DEF Rendering
<1>3. TabInv'
  BY TabsKept
<1>4. pc[s] \in AtBrowser
  BY DEF AtBrowser
<1> QED BY <1>1, <1>2, <1>3, <1>4, Answers

\* The launch failed: the lock and the permit are given back.
LEMMA LaunchFailsStep ==
  ASSUME ServiceInv, NEW s \in Scrapes, LaunchFails(s)
  PROVE  ServiceInv'
<1>1. PICK what \in {"fallback", "error"} :
        /\ pc' = [pc EXCEPT ![s] = "done"] /\ reply' = [reply EXCEPT ![s] = what] /\ slots' = slots + 1
        /\ s \in kept => what # "error"
  BY FallsBack DEF LaunchFails, Answer
<1>2. /\ pc[s] = "launching" /\ holder' = holder \ {s} /\ permits' = permits + 1
      /\ UNCHANGED <<kept, left, fetch, config>> /\ UNCHANGED <<cell, alive, open, spawned>>
  BY DEF LaunchFails, Frees
<1>3. pc \in [Scrapes -> Places] /\ SharedRanges /\ LockInv
  BY Known
<1>4. SharedRanges'
  BY <1>2, <1>3 DEF SharedRanges
<1>5. LockInv'
  <2>1. \A x \in Scrapes : pc'[x] # "launching"
    <3>1. \A x \in Scrapes : pc[x] = "launching" => x = s
      BY <1>2, <1>3 DEF LockInv
    <3> QED BY <1>1, <1>3, <3>1
  <2> QED BY <1>2, <1>3, <2>1 DEF LockInv
<1>6. TabInv'
  <2>1. s \in open => s \in left
    BY <1>2 DEF ServiceInv, TabInv, Rendering
  <2> QED BY <1>1, <1>2, <2>1, TabsKept
<1>7. pc[s] \in AtBrowser
  BY <1>2 DEF AtBrowser
<1>8. FetchBounds'
  BY <1>2 DEF ServiceInv, Ranges, FetchBounds, fetch
<1> QED BY <1>1, <1>2, <1>4, <1>5, <1>6, <1>7, <1>8, Answers

\* render_page, whatever it does next.
LEMMA RenderPageStep ==
  ASSUME ServiceInv, NEW s \in Scrapes,
         \/ OpenTab(s) \/ Navigated(s) \/ Settled(s) \/ Acted(s) \/ GotContent(s) \/ Abandon(s)
         \/ CloseTab(s) \/ RenderTimesOut(s)
  PROVE  ServiceInv'
<1> DEFINE End(what) ==
        /\ pc' = [pc EXCEPT ![s] = "done"] /\ reply' = [reply EXCEPT ![s] = what] /\ slots' = slots + 1
        /\ s \in kept => what # "error"
<1>1. Fallback(s) => End("fallback") \/ End("error")
  BY DEF Fallback, Without, Answer
<1>2. ASSUME pc[s] \in Rendering, End("browser") \/ End("fallback") \/ End("error"), permits' = permits + 1,
             UNCHANGED <<kept, fetch, config, holder, cell, alive, spawned>>, left \subseteq left',
             open' \subseteq open \cup {s}, open' # {} => alive, s \in open' => s \in left'
      PROVE  ServiceInv'
  <2>0. FetchBounds'
    BY <1>2 DEF ServiceInv, Ranges, FetchBounds, fetch
  <2>1. CASE End("browser")
    BY <1>2, <2>0, <2>1, EndStep
  <2>2. CASE End("fallback")
    BY <1>2, <2>0, <2>2, EndStep
  <2>3. CASE End("error")
    BY <1>2, <2>0, <2>3, EndStep
  <2> QED BY <1>2, <2>1, <2>2, <2>3
<1> HIDE DEF End
<1>3. /\ open # {} => alive
      /\ s \in open => pc[s] # "opening" \/ s \in left
      /\ LeavesTab(s) /\ pc[s] \in Rendering =>
            left' = left \cup {s} /\ (open' = open \/ (alive /\ open' = open \cup {s}))
  BY Known DEF SharedRanges, TabInv, LeavesTab
<1>4. CASE OpenTab(s)
  <2>1. CASE alive /\ open' = open \cup {s} /\ Goto(s, "navigating") /\ UNCHANGED <<permits, left>>
    <3>1. "navigating" \in Rendering \ {"opening"} /\ pc[s] \in Rendering
      BY <1>4 DEF OpenTab, Rendering
    <3>2. UNCHANGED <<kept, left, fetch, config, permits, holder, cell, alive, spawned>>
      BY <1>4, <2>1 DEF OpenTab
    <3> QED BY <2>1, <3>1, <3>2, RenderingStep
  <2>2. CASE Fails(s) /\ LeavesTab(s)
    <3>1. /\ pc[s] = "opening" /\ Fallback(s) /\ permits' = permits + 1
          /\ UNCHANGED <<kept, fetch, config, holder, cell, alive, spawned>>
      BY <1>4, <2>2 DEF OpenTab, Fails
    <3>2. pc[s] \in Rendering
      BY <3>1 DEF Rendering
    <3> QED BY <1>1, <1>2, <1>3, <2>2, <3>1, <3>2
  <2> QED BY <1>4, <2>1, <2>2 DEF OpenTab
<1>5. ASSUME NEW from \in Rendering, NEW to \in Rendering \ {"opening"}, Advance(s, from, to)
      PROVE  ServiceInv'
  <2>1. /\ pc[s] \in Rendering /\ Goto(s, to) /\ open' = open
        /\ UNCHANGED <<kept, left, fetch, config, permits, holder, cell, alive, spawned>>
    BY <1>5 DEF Advance, browser
  <2> QED BY <2>1, RenderingStep
<1>6. CASE Navigated(s) \/ Settled(s) \/ Acted(s) \/ GotContent(s) \/ Abandon(s)
  BY <1>5, <1>6 DEF Navigated, Settled, Acted, GotContent, Abandon, Rendering
<1>7. CASE CloseTab(s)
  <2>1. /\ pc[s] \in Rendering /\ (End("browser") \/ Fallback(s)) /\ permits' = permits + 1
        /\ \/ open' = open \ {s} /\ left' = left
           \/ open' = open /\ left' = left \cup {s}
        /\ UNCHANGED <<kept, fetch, config, holder, cell, alive, spawned>>
    BY <1>7 DEF CloseTab, Rendered, Answer, Rendering, End
  <2> QED BY <1>1, <1>2, <1>3, <2>1
<1>8. CASE RenderTimesOut(s)
  <2>1. /\ pc[s] \in Rendering /\ Fallback(s) /\ permits' = permits + 1 /\ LeavesTab(s)
        /\ UNCHANGED <<kept, fetch, config, holder, cell, alive, spawned>>
    BY <1>8 DEF RenderTimesOut, Fails
  <2> QED BY <1>1, <1>2, <1>3, <2>1
<1> QED BY <1>4, <1>6, <1>7, <1>8

\* The client goes: the scrape gives back what it holds, wherever it stands.
LEMMA ClientGoneStep ==
  ASSUME ServiceInv, NEW s \in Scrapes, ClientGone(s)
  PROVE  ServiceInv'
<1>1. /\ pc[s] \notin {"new", "done"} /\ pc' = [pc EXCEPT ![s] = "done"]
      /\ reply' = [reply EXCEPT ![s] = "dropped"] /\ slots' = slots + 1
      /\ permits' = IF pc[s] \in AtBrowser THEN permits + 1 ELSE permits
      /\ holder' = holder \ {s} /\ UNCHANGED <<kept, config, cell, alive, spawned>>
  BY DEF ClientGone, Answer, Frees
<1>2. /\ left' = IF pc[s] \in Rendering THEN left \cup {s} ELSE left
      /\ open' = open \/ (pc[s] = "opening" /\ alive /\ open' = open \cup {s})
  BY DEF ClientGone, LeavesTab
<1>3. /\ pc \in [Scrapes -> Places] /\ reply \in [Scrapes -> Replies]
      /\ SharedRanges /\ LockInv /\ TabInv
  BY Known DEF ServiceInv, Ranges
<1>4. CountInv'
  <2>1. /\ Held(pc[s], Running) = 1 /\ Held("done", Running) = 0 /\ Held("done", AtBrowser) = 0
        /\ Held(pc[s], AtBrowser) = IF pc[s] \in AtBrowser THEN 1 ELSE 0
        /\ "done" \in Places
    BY <1>1, <1>3, HeldAt DEF Held, Running
  <2>2. slots' = slots + 1 - 0 /\ slots' \in Nat /\ permits' \in Nat
    BY <1>1, Permits
  <2>3. CASE pc[s] \in AtBrowser
    <3>1. permits' = permits + 1 - 0 /\ Held(pc[s], AtBrowser) = 1
      BY <1>1, <2>1, <2>3, Permits
    <3> QED BY <1>1, <2>1, <2>2, <3>1, CountedBy
  <2>4. CASE pc[s] \notin AtBrowser
    <3>1. permits' = permits + 0 - 0 /\ Held(pc[s], AtBrowser) = 0
      BY <1>1, <2>1, <2>4, Permits
    <3> QED BY <1>1, <2>1, <2>2, <3>1, CountedBy
  <2> QED BY <2>3, <2>4
<1>5. Ranges'
  <2>1. "done" \in Places /\ "dropped" \in Replies /\ MaxRedirects \in Nat /\ MaxSize \in Nat
    BY ScrapeAssumption DEF Places, Replies
  <2>2. FetchBounds'
    BY <2>1 DEF ServiceInv, Ranges, ClientGone, Drop, FetchBounds
  <2> QED BY <1>1, <1>3, <2>1, <2>2 DEF ServiceInv, Ranges, FetchBounds
<1>6. PageInv'
  <2>1. "done" \notin Rendering \cup AtHttp \cup {"new"}
    BY DEF Rendering, AtHttp
  <2>2. \A x \in Scrapes : /\ pc'[x] = IF x = s THEN "done" ELSE pc[x]
                           /\ reply'[x] = IF x = s THEN "dropped" ELSE reply[x]
    BY <1>1, <1>3
  <2> QED BY <1>1, <2>1, <2>2 DEF ServiceInv, PageInv
<1>7. SharedRanges'
  BY <1>1, <1>2, <1>3 DEF SharedRanges
<1>8. LockInv'
  <2>1. holder' = {x \in Scrapes : pc'[x] = "launching"}
    BY <1>1, <1>3 DEF LockInv
  <2> QED BY <1>1, <1>3, <2>1 DEF LockInv
<1>9. TabInv'
  <2>1. left \subseteq left' /\ open' \subseteq open \cup {s}
    BY <1>2
  <2>2. s \in open' => s \in left'
    BY <1>2, <1>3 DEF TabInv, Rendering
  <2> QED BY <1>1, <2>1, <2>2, TabsKept
<1> QED BY <1>4, <1>5, <1>6, <1>7, <1>8, <1>9, NextInv

\* The browser dies, and its tabs with it: no scrape moves.
LEMMA DiesStep ==
  ASSUME ServiceInv, BrowserDies
  PROVE  ServiceInv'
<1>1. /\ alive' = FALSE /\ open' = {}
      /\ UNCHANGED <<pc, slots, kept, reply, hop, size, config, permits, holder, cell, spawned>>
  BY DEF BrowserDies, fetch
<1>2. CountInv /\ SharedRanges
  BY CountsOfType DEF ServiceInv
<1>3. Ranges' /\ PageInv' /\ LockInv' /\ TabInv'
  BY <1>1 DEF ServiceInv, Ranges, PageInv, LockInv, TabInv
<1>4. CountInv' /\ SharedRanges'
  BY <1>1, <1>2 DEF CountInv, SharedRanges
<1> QED BY <1>3, <1>4, NextInv

\* A stuttering step.
LEMMA StutterStep ==
  ASSUME ServiceInv, UNCHANGED vars
  PROVE  ServiceInv'
BY DEF vars, fetch, browser, ServiceInv, Ranges, TypeOK, PageInv, LockInv, TabInv, Busy

-----------------------------------------------------------------------------
\* The inductive invariant: permits counted, pages kept, one launch at a time,
\* tabs accounted for, in every reachable state.
THEOREM ServiceInvariant == Spec => []ServiceInv
<1>1. ServiceInv /\ [Next]_vars => ServiceInv'
  <2> SUFFICES ASSUME ServiceInv, [Next]_vars PROVE ServiceInv'
    OBVIOUS
  <2>1. ASSUME NEW s \in Scrapes, Step(s) PROVE ServiceInv'
    <3>1. CASE Start(s)
      BY <3>1, StartStep
    <3>2. CASE Fetching(s)
      BY <3>2, FetchStep, FetchKeeps
    <3>3. CASE Render(s)
      BY <3>3, AcquireStep, TimesOutStep, LockStep, LaunchFailsStep, RenderPageStep DEF Render
    <3> QED BY <2>1, <3>1, <3>2, <3>3 DEF Step
  <2> QED BY <2>1, ClientGoneStep, DiesStep, StutterStep DEF Next
<1> QED BY InitInv, <1>1, PTL DEF Spec

\* The permits of the service and of the browser are those that running
\* scrapes do not hold, and every fetch stays within its bounds
\* (src/src/service/mod.rs scrape, src/src/fetch/client.rs fetch).
THEOREM ServiceTypeCorrect == Spec => []TypeOK
<1>1. ServiceInv => TypeOK
  BY DEF ServiceInv
<1> QED BY <1>1, ServiceInvariant, PTL

\* An automatic scrape that has an HTML page in hand answers with a page,
\* whatever the pool, the launch, the rendering or a dying browser do, unless
\* its client goes first.
THEOREM HttpContentNeverLostAlways == Spec => []HttpContentNeverLost
<1>1. ServiceInv => HttpContentNeverLost
  <2> SUFFICES ASSUME ServiceInv PROVE HttpContentNeverLost
    OBVIOUS
  <2>1. \A s \in Scrapes : /\ s \in kept /\ pc[s] = "done" => reply[s] \in {"browser", "fallback", "dropped"}
                           /\ reply[s] = "browser" => cell
    BY DEF ServiceInv, PageInv
  <2> QED BY <2>1 DEF HttpContentNeverLost
<1> QED BY <1>1, ServiceInvariant, PTL

\* At most one browser gets into the cell, only a scrape that launches one holds
\* the lock, and a tab is a running render's, within the pool, or was left by a
\* scrape whose tab failed to open or to close, which timed out or whose client
\* went (src/src/browser/manager.rs, page.rs).
THEOREM BrowserSharedAlways == Spec => []BrowserShared
<1>1. ServiceInv => BrowserShared
  <2> SUFFICES ASSUME ServiceInv PROVE BrowserShared
    OBVIOUS
  <2>1. spawned <= 1
    BY Known DEF ServiceInv, LockInv, Ranges
  <2>2. Cardinality(open \ left) + permits <= config.pages
    <3> DEFINE B == {s \in Scrapes : pc[s] \in AtBrowser}
               b == Cardinality(B)
               t == Cardinality(open \ left)
    <3>1. open \ left \subseteq B
      BY DEF ServiceInv, TypeOK, TabInv, AtBrowser
    <3>2. IsFiniteSet(B)
      BY ScrapeAssumption, FS_Subset
    <3>3. t <= b /\ t \in Nat /\ b \in Nat
      BY <3>1, <3>2, FS_Subset, FS_CardinalityType
    <3>4. permits = config.pages - b /\ permits \in Nat /\ config.pages \in Nat
      BY ScrapeAssumption DEF ServiceInv, TypeOK, Ranges
    <3> HIDE DEF b, t
    <3>5. t + permits <= config.pages
      BY <3>3, <3>4
    <3> QED BY <3>5 DEF t
  <2> QED BY <2>1, <2>2 DEF ServiceInv, LockInv, TabInv, BrowserShared
<1> QED BY <1>1, ServiceInvariant, PTL
=============================================================================
