------------------------------ MODULE Discovery ------------------------------
(***************************************************************************)
(* From a plan to evidence (agents/planner.py, agents/scout.py,            *)
(* connectors/search.py, the DISCOVERING and RETRIEVING stages of          *)
(* orchestration/engine.py, agents/retriever.py, connectors/web.py).       *)
(*                                                                         *)
(* An execution scouts the objective and every subquestion one after the   *)
(* other: what the database knows, then some queries, each put to the      *)
(* search providers in turn.  The candidates of all of them are fetched    *)
(* one after the other, with a retry and the search snippet to fall back   *)
(* on.  Every provider and every page may fail at any time.                *)
(***************************************************************************)
EXTENDS Integers, FiniteSets

CONSTANTS
    MaxTargets,  \* the objective and at most five subquestions
    Angles,      \* queries per target that are executed
    Attempts,    \* tries per fetch
    MaxHops,     \* max_redirects
    Best,        \* candidates a scout returns at most
    Internal,    \* internal://chunk locations, of chunks the database holds
    Stored,      \* locations with a Source row and a document
    Web,         \* the other locations
    Quoted,      \* locations that come with a snippet of some length
    Blocked      \* locations on hosts the domain policy refuses

ASSUME DiscoveryAssumption ==
    /\ MaxTargets \in Nat \ {0} /\ Angles \in Nat
    /\ Attempts \in Nat \ {0} /\ MaxHops \in Nat \ {0}

Locations == Internal \cup Stored \cup Web

-----------------------------------------------------------------------------
(* Search providers *)

\* What comes back from a provider: its answer, with entries or without; something else,
\* such as a page that is no feed or a robot test; an HTTP status; nothing in 10 s.
Responses == {"entries", "blank", "foreign", "challenge", "refused", "unreachable"}

Read(r) == CASE r = "entries" -> "some" [] r = "blank" -> "none" [] OTHER -> "failed"

Tavily(r) == Read(r)

SearXNG(r) == Read(r)

GoogleNews(r) == Read(r)

\* The target first; its first words when that has no entry.
Wikipedia(first, second) == IF Read(first) = "none" THEN Read(second) ELSE Read(first)

\* A page without results and a page of another layout read alike.
DuckDuckGo(r) == IF r = "foreign" THEN "none" ELSE Read(r)

Outcomes == {"failed", "none", "some"}
Providers == {"tavily", "searxng", "news", "wikipedia", "duckduckgo"}

Replies(p) ==
    {CASE p = "tavily" -> Tavily(r)
       [] p = "searxng" -> SearXNG(r)
       [] p = "news" -> GoogleNews(r)
       [] p = "wikipedia" -> Wikipedia(r, r2)
       [] OTHER -> DuckDuckGo(r) : r, r2 \in Responses}

AllReplies ==
    {f \in [Providers -> Outcomes] : \A p \in Providers : f[p] \in Replies(p)}

Configurations == SUBSET {"tavily", "searxng"} \cup {{"mock"}}

\* Those asked one after the other, given what each would reply: the first configured one
\* with results is the last; DuckDuckGo only when the two before it have none.
Asked(providers, reply) ==
    LET stop == {p \in providers : reply[p] = "some"}
    IN  IF "tavily" \in stop THEN {"tavily"}
        ELSE providers \cup
             (IF "searxng" \in stop THEN {}
              ELSE {"news", "wikipedia"} \cup
                   (IF "some" \in {reply["news"], reply["wikipedia"]} THEN {} ELSE {"duckduckgo"}))

\* WebSearchConnector.fetch: results, an honest nothing, or an error when there are no
\* results and somebody failed.
Searched(providers, reply) ==
    LET got == {reply[p] : p \in Asked(providers, reply)}
    IN  IF "some" \in got THEN "some" ELSE IF "failed" \in got THEN "failed" ELSE "none"

\* Files instead of providers: they never fail.
MockResults == {"none", "some"}

\* What a search can come to under a configuration.
Results ==
    {<<c, Searched(c, reply)>> : c \in SUBSET {"tavily", "searxng"}, reply \in AllReplies}
        \cup ({{"mock"}} \X MockResults)

-----------------------------------------------------------------------------
VARIABLES
    conf,        \* which of the optional providers are configured
    targets,     \* the objective and the plan's subquestions
    pc,
    scout,       \* the scout at work: [target, angle, seen, failed]
    found,       \* all_candidates
    branches,    \* whether failed_scout_branches is positive
    told,        \* degradations: targets and locations
    fetch,       \* the fetch at work: [left, attempt, hop]
    retrieved,   \* locations with a document, or with the bytes for one (SourceStore)
    outages      \* history: the targets for which a search raised

discoveryVars ==
    <<conf, targets, pc, scout, found, branches, told, fetch, retrieved, outages>>

TypeOK ==
    /\ conf \in Configurations
    /\ targets \in 1 .. MaxTargets
    /\ pc \in {"plan", "scout", "search", "fetch", "request", "failed", "ended"}
    /\ scout \in [target : 1 .. MaxTargets, angle : 1 .. Angles + 1,
                  seen : SUBSET Locations, failed : BOOLEAN]
    /\ found \subseteq Locations
    /\ branches \in BOOLEAN
    /\ told \subseteq (1 .. MaxTargets) \cup Locations
    /\ fetch \in [left : SUBSET Locations, attempt : 1 .. Attempts, hop : 1 .. MaxHops]
    /\ retrieved \subseteq Locations
    /\ outages \subseteq 1 .. MaxTargets

NewScout(t) == [target |-> t, angle |-> 1, seen |-> {}, failed |-> FALSE]

NewFetch(left) == [left |-> left, attempt |-> 1, hop |-> 1]

Init ==
    /\ conf \in Configurations
    /\ targets = 1
    /\ pc = "plan"
    /\ scout = NewScout(1)
    /\ found = {} /\ branches = FALSE /\ told = {}
    /\ fetch = NewFetch({})
    /\ retrieved = {} /\ outages = {}

\* A plan without usable subquestions is replaced by the domain's templates; it never has
\* more than five, and the objective is scouted before them.
Plan ==
    /\ pc = "plan"
    /\ targets' \in 1 .. MaxTargets
    /\ pc' = "scout"
    /\ UNCHANGED <<conf, scout, found, branches, told, fetch, retrieved, outages>>

-----------------------------------------------------------------------------
(* A scout *)

\* Chunks that contain the keywords and sources with them in the title; both lookups are
\* given up on when they raise.
LookUp ==
    /\ pc = "scout"
    /\ \E known \in SUBSET (Internal \cup Stored) : scout' = [scout EXCEPT !.seen = known]
    /\ pc' = "search"
    /\ UNCHANGED <<conf, targets, found, branches, told, fetch, retrieved, outages>>

\* Mutant: a failed query is skipped like one without results.
QueryForgiven ==
    /\ pc = "search"
    /\ scout.angle <= Angles
    /\ \E result \in {r \in Outcomes : <<conf, r>> \in Results} :
         \E hits \in (IF result = "some" THEN SUBSET (Stored \cup Web) ELSE {{}}) :
            /\ scout' = [scout EXCEPT !.angle = @ + 1, !.seen = @ \cup (hits \ Blocked)]
            /\ outages' = IF result = "failed" THEN outages \cup {scout.target}
                          ELSE outages
    /\ UNCHANGED <<conf, targets, pc, found, branches, told, fetch, retrieved>>

Query ==
    /\ pc = "search"
    /\ scout.angle <= Angles
    /\ \E result \in {r \in Outcomes : <<conf, r>> \in Results} :
         \E hits \in (IF result = "some" THEN SUBSET (Stored \cup Web) ELSE {{}}) :
            /\ scout' = [scout EXCEPT !.angle = @ + 1,
                                      !.seen = @ \cup (hits \ Blocked),
                                      !.failed = @ \/ result = "failed"]
            /\ outages' = IF result = "failed" THEN outages \cup {scout.target}
                          ELSE outages
    /\ UNCHANGED <<conf, targets, pc, found, branches, told, fetch, retrieved>>

\* On to the next target, or to the retrieval; an execution whose searches failed and
\* found nothing stops.
NextTarget(all, failedBranch) ==
    /\ branches' = (branches \/ failedBranch)
    /\ found' = all
    /\ IF scout.target < targets
       THEN /\ scout' = NewScout(scout.target + 1)
            /\ pc' = "scout"
            /\ UNCHANGED fetch
       ELSE /\ UNCHANGED scout
            /\ pc' = IF branches' /\ all = {} THEN "failed" ELSE "fetch"
            /\ fetch' = NewFetch(all)
    /\ UNCHANGED <<conf, targets, retrieved, outages>>

Told(what) == told' = told \cup what

\* Those of the highest scores.
BestOf(seen) ==
    {best \in SUBSET seen : \/ best = seen /\ Cardinality(best) <= Best
                            \/ Cardinality(best) = Best}

\* Its best candidates; without any it raises when a query failed.
ScoutReturns ==
    /\ pc = "search"
    /\ scout.angle > Angles
    /\ Told(IF scout.failed THEN {scout.target} ELSE {})
    /\ \E best \in BestOf(scout.seen) : NextTarget(found \cup best, scout.failed)

\* Another error, such as a result whose URL does not parse: what this scout has found is
\* gone, and the branch is not counted.
ScoutRaises ==
    /\ pc = "search"
    /\ scout.angle <= Angles
    /\ <<conf, "some">> \in Results
    /\ Told({scout.target})
    /\ NextTarget(found, FALSE)

-----------------------------------------------------------------------------
(* The retriever *)

\* The candidate is done with.
Leave(l) ==
    /\ fetch' = NewFetch(fetch.left \ {l})
    /\ pc' = "fetch"
    /\ UNCHANGED <<conf, targets, scout, found, branches, outages>>

\* An internal reference is passed over, a stored source is used as it is.
Bypass(l) ==
    /\ pc = "fetch"
    /\ l \in fetch.left \ Web
    /\ retrieved' = IF l \in Stored THEN retrieved \cup {l} ELSE retrieved
    /\ UNCHANGED told
    /\ Leave(l)

Current == CHOOSE l \in fetch.left : l \in Web

Request ==
    /\ pc = "fetch"
    /\ fetch.left # {}
    /\ fetch.left \subseteq Web
    /\ pc' = "request"
    /\ UNCHANGED <<conf, targets, scout, found, branches, told, fetch, retrieved, outages>>

\* A document, from the page or from the snippet.
Keep(l) == retrieved' = retrieved \cup {l} /\ UNCHANGED told /\ Leave(l)

\* No document: the failure goes to the degradations.
Lose(l) == Told({l}) /\ UNCHANGED retrieved /\ Leave(l)

\* Content of an allowed type and size; an empty page is replaced by the snippet.
Page == pc = "request" /\ Keep(Current)

\* The site's robots.txt denies the page, or could not be read.
Denied ==
    /\ pc = "request"
    /\ fetch.hop = 1
    /\ IF Current \in Quoted THEN Keep(Current) ELSE Lose(Current)

\* The policy, the address, the content type or the size is refused, at any hop.
Rejected ==
    /\ pc = "request"
    /\ IF Current \in Quoted THEN Keep(Current) ELSE Lose(Current)

Redirect ==
    /\ pc = "request"
    /\ IF fetch.hop < MaxHops
       THEN /\ fetch' = [fetch EXCEPT !.hop = @ + 1]
            /\ UNCHANGED <<conf, targets, pc, scout, found, branches, told, retrieved, outages>>
       ELSE IF Current \in Quoted THEN Keep(Current) ELSE Lose(Current)

\* Mutant: the tries are not counted.
BrokenUncounted ==
    /\ pc = "request"
    /\ fetch' = [fetch EXCEPT !.hop = 1]
    /\ UNCHANGED <<conf, targets, pc, scout, found, branches, told, retrieved, outages>>

\* A network error or an HTTP status: one more try.
Broken ==
    /\ pc = "request"
    /\ IF fetch.attempt < Attempts
       THEN /\ fetch' = [fetch EXCEPT !.attempt = @ + 1, !.hop = 1]
            /\ UNCHANGED <<conf, targets, pc, scout, found, branches, told, retrieved, outages>>
       ELSE IF Current \in Quoted THEN Keep(Current) ELSE Lose(Current)

End ==
    /\ pc = "fetch"
    /\ fetch.left = {}
    /\ pc' = "ended"
    /\ UNCHANGED <<conf, targets, scout, found, branches, told, fetch, retrieved, outages>>

Step ==
    \/ Plan \/ LookUp \/ Query \/ ScoutReturns \/ ScoutRaises
    \/ \E l \in Locations : Bypass(l)
    \/ Request \/ Page \/ Denied \/ Rejected \/ Redirect \/ Broken \/ End

Next == Step

Spec == Init /\ [][Next]_discoveryVars

\* Every request has a timeout (10 s for searches, FETCH_TIMEOUT_S for pages).
FairSpec == Spec /\ WF_discoveryVars(Step)

-----------------------------------------------------------------------------
(* Properties *)

\* What failed is told: when the retrieval is over, every target for which a search
\* raised and every candidate without a document is among the degradations of the run,
\* however queries and fetches failed and recovered, but for the internal references
\* (engine.py:510, engine.py:536, engine.py:574).
FailuresAreTold ==
    pc = "ended" => outages \cup (found \ (retrieved \cup Internal)) \subseteq told

\* A run whose searches failed and that has nothing to fetch does not pass for one that
\* had nothing to find ("refusing to report a no-evidence result", engine.py:545).
OutageIsNotNoEvidence ==
    pc = "ended" /\ found \subseteq Internal => outages = {}

\* Whatever redirects and retries do, the two stages end.
DiscoveryEnds == (pc = "scout") ~> (pc \in {"ended", "failed"})
=============================================================================
