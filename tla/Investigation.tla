---------------------------- MODULE Investigation ----------------------------
(***************************************************************************)
(* Staged onion research (services/real_investigation_pipeline.py, with    *)
(* real_research_transport.py and real_robin_llm.py).                      *)
(*                                                                         *)
(* Callers in threads of one process search, filter and scrape through     *)
(* sessions that live in a bounded dict with an age limit, or let run()    *)
(* chain the stages and keep the outcome as a durable case.  Sessions are  *)
(* read under a lock, the network and the model are asked without it, and  *)
(* the session is looked up again for the result.                          *)
(***************************************************************************)
EXTENDS Integers, Sequences, FiniteSets, SequencesExt

CONSTANTS
    Callers,      \* threads, each with one request after the other
    Endpoints,    \* search engines configured
    MaxHits,      \* bound: results of a search
    MaxScrape,    \* max_scrape of the requests
    MaxSessions,  \* max_sessions
    MaxSearches   \* bound: searches in all

\* What the parameters are; the instance that gives them assumes it.
InvestigationAssumption ==
    /\ IsFiniteSet(Endpoints) /\ Endpoints # {}
    /\ MaxHits \in Nat /\ MaxScrape \in Nat \ {0}
    /\ MaxSessions \in Nat \ {0} /\ MaxSearches \in Nat

VARIABLES
    sessions,  \* the live sessions by number, in the order of their creation
    born,      \* searches so far
    request,   \* [Callers -> Request]
    cases,     \* [Callers -> Case], the durable case of the caller's run()
    shown,     \* [1 .. born -> SUBSET Nat], results some filter() picked (ghost)
    upset      \* callers for whom a model, a network call or the ingestion raised (ghost)

investigationVars == <<sessions, born, request, cases, shown, upset>>

Hits == 1 .. MaxHits
Session == [results : 0 .. MaxHits, filtered : Seq(Hits), sources : SUBSET Hits]

Statuses == {"none", "running", "engines_unreachable", "no_results", "nothing_relevant",
             "nothing_readable", "ok", "failed"}

\* chain: inside run().  sid: its session, 0 for none.  count, ids: what was read under the
\* lock.
Request == [pc : {"idle", "refine", "search", "filter", "filtering", "scrape", "scraping",
                  "analyze", "save"},
            chain : BOOLEAN, sid : Nat, count : 0 .. MaxHits, ids : Seq(Hits),
            status : Statuses]

Case == [status : Statuses, sid : Nat]
Quiet == [pc |-> "idle", chain |-> FALSE, sid |-> 0, count |-> 0, ids |-> <<>>,
          status |-> "none"]
NoCase == [status |-> "none", sid |-> 0]

TypeOK ==
    /\ born \in 0 .. MaxSearches
    /\ DOMAIN sessions \subseteq 1 .. born
    /\ \A s \in DOMAIN sessions : sessions[s] \in Session
    /\ Cardinality(DOMAIN sessions) <= MaxSessions
    /\ request \in [Callers -> Request]
    /\ cases \in [Callers -> Case]

Init ==
    /\ sessions = << >> /\ born = 0
    /\ request = [c \in Callers |-> Quiet]
    /\ cases = [c \in Callers |-> NoCase]
    /\ shown = << >> /\ upset = {}

Become(c, r) ==
    /\ request' = [request EXCEPT ![c] = r]
    /\ UNCHANGED <<born, cases, upset>>

\* What ends a request: run() notes the status and saves, a single stage answers.
Leave(r, status) ==
    IF r.chain THEN [r EXCEPT !.pc = "save", !.status = status] ELSE Quiet

-----------------------------------------------------------------------------
(* Requests *)

Run(c) ==
    /\ request[c].pc = "idle"
    /\ cases[c] = NoCase
    /\ request' = [request EXCEPT ![c] =
                     [Quiet EXCEPT !.pc = "refine", !.chain = TRUE, !.status = "running"]]
    /\ upset' = upset \ {c}
    /\ UNCHANGED <<sessions, born, cases, shown>>

\* A search id is an answer of search() or part of what run() returns: nobody else knows the
\* one of a run() in progress.
Secret(s) == \E c \in Callers : request[c].chain /\ request[c].sid = s

Call(c, stage) ==
    /\ request[c].pc = "idle"
    /\ \E s \in {s \in 0 .. born : s = 0 \/ ~Secret(s)} :
         /\ (stage = "search") = (s = 0)
         /\ Become(c, [Quiet EXCEPT !.pc = stage, !.sid = s])
    /\ UNCHANGED <<sessions, shown>>

\* With a model the refined query is its, else the query's own words.
Refine(c) ==
    /\ request[c].pc = "refine"
    /\ Become(c, [request[c] EXCEPT !.pc = "search"])
    /\ UNCHANGED <<sessions, shown>>

\* The model, the network or the ingestion raises: run() notes the failure.
Raise(c) ==
    /\ request[c].pc \in {"refine", "search", "filtering", "scraping", "analyze"}
    /\ request' = [request EXCEPT ![c] = Leave(@, "failed")]
    /\ upset' = upset \cup {c}
    /\ UNCHANGED <<sessions, born, cases, shown>>

-----------------------------------------------------------------------------
(* The stages *)

\* An engine answers with links or without, or fails: no answer, a status other than 200, a
\* page that is no HTML.
Outcomes == [Endpoints -> {"ok", "empty", "failed"}]

\* Links the policy refuses, duplicates and those beyond the host's cap are no hits.
SearchStatus(outcome, hits) ==
    IF \A e \in Endpoints : outcome[e] = "failed" THEN "engines_unreachable"
    ELSE IF hits = 0 THEN "no_results" ELSE "ok"

\* Sessions past their age go, then the oldest while there is no room.
Live(aged) == {s \in DOMAIN sessions : s > aged}
Spared(aged) ==
    {s \in Live(aged) : Cardinality({t \in Live(aged) : t >= s}) < MaxSessions}

Search(c) ==
    /\ request[c].pc = "search"
    /\ born < MaxSearches
    /\ \E outcome \in Outcomes, hits \in 0 .. MaxHits, aged \in 0 .. born :
         LET status == SearchStatus(outcome, hits)
             new == born + 1
         IN /\ hits > 0 => \E e \in Endpoints : outcome[e] = "ok"
            /\ sessions' = [s \in Spared(aged) \cup {new} |->
                              IF s = new
                              THEN [results |-> hits, filtered |-> <<>>, sources |-> {}]
                              ELSE sessions[s]]
            /\ born' = new
            /\ shown' = Append(shown, {})
            /\ request' = [request EXCEPT ![c] =
                             IF @.chain /\ status = "ok"
                             THEN [@ EXCEPT !.pc = "filter", !.sid = new]
                             ELSE Leave([@ EXCEPT !.sid = new], status)]
            /\ UNCHANGED <<cases, upset>>

\* The session is gone: a KeyError.
Missed(c) ==
    /\ request[c].pc \in {"filter", "filtering", "scrape", "scraping"}
    /\ request[c].sid \notin DOMAIN sessions
    /\ Become(c, Leave(request[c], "failed"))
    /\ UNCHANGED <<sessions, shown>>

FilterRead(c) ==
    /\ request[c].pc = "filter"
    /\ request[c].sid \in DOMAIN sessions
    /\ LET count == sessions[request[c].sid].results
       IN Become(c, IF count = 0 THEN Leave(request[c], "nothing_relevant")
                    ELSE [request[c] EXCEPT !.pc = "filtering", !.count = count])
    /\ UNCHANGED <<sessions, shown>>

\* The model's answer, one-based: an index is held against the zero-based ones before it, so
\* that one named after its successor is dropped and a repeated one may stay.
Parsed(answer, count) ==
    FoldLeft(LAMBDA kept, i :
                IF i \in 1 .. count /\ ~\E k \in DOMAIN kept : kept[k] - 1 = i
                THEN Append(kept, i) ELSE kept, <<>>, answer)

Answers(count) == SeqOf(1 .. count + 1, 2)

\* Without a model, or when its answer is unusable: by the words the titles share with the
\* query, best first.
Ranked(count) == {q \in SeqOf(1 .. count, count) : IsInjective(q)}

Chosen(count) == {Parsed(a, count) : a \in Answers(count)} \cup Ranked(count)

\* Mutant: the session does not learn what was picked.
FilterForgets(c) ==
    /\ request[c].pc = "filtering"
    /\ request[c].sid \in DOMAIN sessions
    /\ \E chosen \in Chosen(request[c].count) :
         LET picked == SubSeq(chosen, 1, IF Len(chosen) < MaxScrape THEN Len(chosen) ELSE MaxScrape)
             sid == request[c].sid
         IN /\ UNCHANGED sessions
            /\ shown' = [shown EXCEPT ![sid] = @ \cup ToSet(picked)]
            /\ Become(c, IF ~request[c].chain THEN Quiet
                         ELSE IF picked = <<>> THEN Leave(request[c], "nothing_relevant")
                         ELSE [request[c] EXCEPT !.pc = "scrape", !.ids = picked])

FilterWrite(c) ==
    /\ request[c].pc = "filtering"
    /\ request[c].sid \in DOMAIN sessions
    /\ \E chosen \in Chosen(request[c].count) :
         LET picked == SubSeq(chosen, 1, IF Len(chosen) < MaxScrape THEN Len(chosen) ELSE MaxScrape)
             sid == request[c].sid
         IN /\ sessions' = [sessions EXCEPT ![sid].filtered = picked]
            /\ shown' = [shown EXCEPT ![sid] = @ \cup ToSet(picked)]
            /\ Become(c, IF ~request[c].chain THEN Quiet
                         ELSE IF picked = <<>> THEN Leave(request[c], "nothing_relevant")
                         ELSE [request[c] EXCEPT !.pc = "scrape", !.ids = picked])

\* The ids asked for, or the session's own; others than the session's are a ValueError.
Wanted(c) ==
    IF request[c].chain THEN {request[c].ids}
    ELSE {<<h>> : h \in Hits} \cup {sessions[request[c].sid].filtered}

\* Mutant: any result of the session may be scraped.
ScrapeAny(c) ==
    /\ request[c].pc = "scrape"
    /\ request[c].sid \in DOMAIN sessions
    /\ \E ids \in Wanted(c) :
         Become(c, IF ~(ToSet(ids) \subseteq 1 .. sessions[request[c].sid].results)
                   THEN Leave(request[c], "failed")
                   ELSE IF ids = <<>> THEN Leave(request[c], "nothing_readable")
                   ELSE [request[c] EXCEPT !.pc = "scraping", !.ids = ids])
    /\ UNCHANGED <<sessions, shown>>

ScrapeRead(c) ==
    /\ request[c].pc = "scrape"
    /\ request[c].sid \in DOMAIN sessions
    /\ \E ids \in Wanted(c) :
         Become(c, IF ~(ToSet(ids) \subseteq ToSet(sessions[request[c].sid].filtered))
                   THEN Leave(request[c], "failed")
                   ELSE IF ids = <<>> THEN Leave(request[c], "nothing_readable")
                   ELSE [request[c] EXCEPT !.pc = "scraping", !.ids = ids])
    /\ UNCHANGED <<sessions, shown>>

\* Each page is readable or a record of its failure: a redirect refused, looping or beyond
\* the limit, a status, a type, an encoding, a size, no connection, no text.
Pages == {"ok", "failed"}

ScrapeWrite(c) ==
    /\ request[c].pc = "scraping"
    /\ request[c].sid \in DOMAIN sessions
    /\ \E pages \in [ToSet(request[c].ids) -> Pages] :
         /\ sessions' = [sessions EXCEPT ![request[c].sid].sources = DOMAIN pages]
         /\ Become(c, IF ~request[c].chain THEN Quiet
                      ELSE IF \A h \in DOMAIN pages : pages[h] # "ok"
                      THEN Leave(request[c], "nothing_readable")
                      ELSE [request[c] EXCEPT !.pc = "analyze"])
    /\ UNCHANGED shown

\* Ingestion, summary and pivots.
Analyze(c) ==
    /\ request[c].pc = "analyze"
    /\ Become(c, Leave(request[c], "ok"))
    /\ UNCHANGED <<sessions, shown>>

-----------------------------------------------------------------------------
(* Cases *)

\* The finally block: the case is stored whatever happened, unless the store fails, which
\* the caller is told.
Save(c) ==
    /\ request[c].pc = "save"
    /\ cases' \in {[cases EXCEPT ![c] = [status |-> request[c].status, sid |-> request[c].sid]],
                   cases}
    /\ request' = [request EXCEPT ![c] = Quiet]
    /\ UNCHANGED <<sessions, born, shown, upset>>

Delete(c) ==
    /\ cases[c] # NoCase
    /\ cases' = [cases EXCEPT ![c] = NoCase]
    /\ UNCHANGED <<sessions, born, request, shown, upset>>

\* The process dies: what it held is gone, a run() in progress leaves no case.
Restart ==
    /\ born > 0
    /\ sessions' = << >>
    /\ request' = [c \in Callers |-> Quiet]
    /\ UNCHANGED <<born, cases, shown, upset>>

Next ==
    \/ \E c \in Callers :
         \/ Run(c)
         \/ \E stage \in {"search", "filter", "scrape"} : Call(c, stage)
         \/ Refine(c) \/ Raise(c) \/ Search(c) \/ Missed(c) \/ FilterRead(c) \/ FilterWrite(c)
         \/ ScrapeRead(c) \/ ScrapeWrite(c) \/ Analyze(c) \/ Save(c) \/ Delete(c)
    \/ Restart

Spec == Init /\ [][Next]_investigationVars

-----------------------------------------------------------------------------
(* Properties *)

\* "Fetch only explicitly filtered result IDs": whatever a session's sources are, some
\* filter() of that session picked them, with filters and scrapes of one session in any
\* order and other callers evicting sessions in between (real_investigation_pipeline.py:404).
OnlyFilteredScraped ==
    \A s \in DOMAIN sessions : sessions[s].sources \subseteq shown[s]

\* A case says "failed" only if something it called raised or its session was taken from it
\* in mid-run, by its age, by later searches or by a restart: the pipeline does not fail by
\* itself, however its stages interleave with the other callers' (:387, :437, :510).
FailedForAReason ==
    \A c \in Callers :
        cases[c].status = "failed" /\ c \notin upset => cases[c].sid \notin DOMAIN sessions

\* Staged calls of several callers in any order scrape only what the filter kept, and a case
\* is reported failed only when something failed (real_investigation_pipeline.py:354, :404).
CasesHold == OnlyFilteredScraped /\ FailedForAReason
=============================================================================
