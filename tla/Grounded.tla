------------------------------ MODULE Grounded ------------------------------
(***************************************************************************)
(* The one-call investigation (services/real_grounded_investigation.py):   *)
(* search, filter, fetch, extract, save, with an optional model whose      *)
(* every answer may be unusable.  Reports are files of their own, written  *)
(* once.                                                                   *)
(***************************************************************************)
EXTENDS Integers, FiniteSets

CONSTANTS
    Inquiries,  \* calls of investigate()
    Engines,    \* search engines
    Sites,      \* destinations a search can find
    MaxScrape   \* max_scrape

\* What the parameters are; the instance that gives them assumes it.
GroundedAssumption ==
    IsFiniteSet(Engines) /\ IsFiniteSet(Sites) /\ MaxScrape \in Nat \ {0}

VARIABLES
    model,    \* whether a model was given
    inquiry,  \* [Inquiries -> Inquiry]
    files     \* [Inquiries -> {"none", "torn", "whole"}], the reports directory

groundedVars == <<model, inquiry, files>>

\* A sentence of a site; "invented" is a text no site holds.
Texts == Sites \cup {"invented"}
Quotes == [source : Texts, quote : Texts]

Inquiry == [pc : {"new", "search", "filter", "fetch", "summarize", "save", "done", "gone"},
            answered : BOOLEAN, hits : SUBSET Sites, picked : SUBSET Sites,
            readable : SUBSET Sites, excluded : SUBSET Sites, findings : SUBSET Quotes,
            status : {"none", "engines_unreachable", "no_results", "nothing_relevant",
                      "nothing_readable", "ok"}]

Blank == [pc |-> "new", answered |-> FALSE, hits |-> {}, picked |-> {}, readable |-> {},
          excluded |-> {}, findings |-> {}, status |-> "none"]

TypeOK ==
    /\ model \in BOOLEAN
    /\ inquiry \in [Inquiries -> Inquiry]
    /\ files \in [Inquiries -> {"none", "torn", "whole"}]

Init ==
    /\ model \in BOOLEAN
    /\ inquiry = [i \in Inquiries |-> Blank]
    /\ files = [i \in Inquiries |-> "none"]

Become(i, x) ==
    /\ inquiry' = [inquiry EXCEPT ![i] = x]
    /\ UNCHANGED <<model, files>>

Conclude(x, status) == [x EXCEPT !.pc = "save", !.status = status]

\* The model's refinement is taken if it is a short text.
Refine(i) ==
    /\ inquiry[i].pc = "new"
    /\ Become(i, [inquiry[i] EXCEPT !.pc = "search"])

\* A failed engine adds nothing; links to the engines, refused ones, duplicates and those
\* beyond a host's limit are left out.
Search(i) ==
    /\ inquiry[i].pc = "search"
    /\ \E ok, empty \in SUBSET Engines, hits \in SUBSET Sites :
         /\ ok \cap empty = {}
         /\ hits # {} => ok # {}
         /\ LET x == [inquiry[i] EXCEPT !.answered = (ok \cup empty # {}), !.hits = hits]
            IN Become(i, IF hits # {} THEN [x EXCEPT !.pc = "filter"]
                         ELSE Conclude(x, IF x.answered THEN "no_results"
                                          ELSE "engines_unreachable"))

\* By shared words, or by the indices the model names when all of them are known; the best
\* max_scrape.
Filter(i) ==
    /\ inquiry[i].pc = "filter"
    /\ \E picked \in SUBSET inquiry[i].hits :
         /\ Cardinality(picked) <= MaxScrape
         /\ LET x == [inquiry[i] EXCEPT !.picked = picked]
            IN Become(i, IF picked = {} THEN Conclude(x, "nothing_relevant")
                         ELSE [x EXCEPT !.pc = "fetch"])

\* What the transport makes of a destination: a redirect to somewhere not allowed, one seen
\* before or a sixth, another type or encoding, a page too large, an error or no connection
\* all leave it unread.
Reached == {"ok", "unread"}

\* A page with text is readable unless its text is excluded material.
Readable(reached, text) ==
    {s \in DOMAIN reached : reached[s] = "ok" /\ text[s] = "plain"}

\* The first sentences of every readable page are findings, whatever the model says next.
Fetch(i) ==
    /\ inquiry[i].pc = "fetch"
    /\ \E reached \in [inquiry[i].picked -> Reached],
          text \in [inquiry[i].picked -> {"plain", "prohibited", "none"}] :
         LET readable == Readable(reached, text)
             x == [inquiry[i] EXCEPT
                     !.readable = readable,
                     !.excluded = {s \in DOMAIN reached : text[s] = "prohibited"},
                     !.findings = {[source |-> s, quote |-> s] : s \in readable}]
         IN Become(i, IF readable = {} THEN Conclude(x, "nothing_readable")
                      ELSE [x EXCEPT !.pc = "summarize"])

\* Mutant: the model may cite any known source for any text.
ProposeUngrounded(i) ==
    /\ inquiry[i].pc = "summarize"
    /\ \E proposed \in SUBSET Quotes :
         /\ ~model => proposed = {}
         /\ LET accepted == proposed # {} /\ \A f \in proposed : f.source \in inquiry[i].readable
            IN Become(i, Conclude([inquiry[i] EXCEPT !.findings = IF accepted THEN proposed ELSE @],
                                  "ok"))

\* Its quotes are taken all together or not at all.
Propose(i) ==
    /\ inquiry[i].pc = "summarize"
    /\ \E proposed \in SUBSET Quotes :
         /\ ~model => proposed = {}
         /\ LET accepted == /\ proposed # {}
                            /\ \A f \in proposed : /\ f.source \in inquiry[i].readable
                                                   /\ f.quote = f.source
            IN Become(i, Conclude([inquiry[i] EXCEPT !.findings = IF accepted THEN proposed ELSE @],
                                  "ok"))

\* The file is created exclusively, then filled.
Create(i) ==
    /\ inquiry[i].pc = "save"
    /\ files[i] = "none"
    /\ files' = [files EXCEPT ![i] = "torn"]
    /\ UNCHANGED <<model, inquiry>>

Fill(i) ==
    /\ inquiry[i].pc = "save"
    /\ files[i] = "torn"
    /\ files' = [files EXCEPT ![i] = "whole"]
    /\ inquiry' = [inquiry EXCEPT ![i].pc = "done"]
    /\ UNCHANGED model

Crash(i) ==
    /\ inquiry[i].pc \notin {"new", "done", "gone"}
    /\ Become(i, [inquiry[i] EXCEPT !.pc = "gone"])

\* history(), get(), followup() and export() read what is stored; a torn file is skipped by
\* the first and an error to the others.
History == {i \in Inquiries : files[i] = "whole"}

Next == \E i \in Inquiries :
    \/ Refine(i) \/ Search(i) \/ Filter(i) \/ Fetch(i) \/ Propose(i)
    \/ Create(i) \/ Fill(i) \/ Crash(i)

Spec == Init /\ [][Next]_groundedVars

-----------------------------------------------------------------------------
(* Properties *)

\* "Model claims must cite known sources and quote evidence; otherwise the extractive report
\* is retained": in every report that can be read, each finding is a quote of the page it
\* cites, that page was fetched and holds no excluded material, and a report that claims
\* success has findings (real_grounded_investigation.py:271, :407).
ReportsAreGrounded ==
    \A i \in History :
        LET r == inquiry[i]
        IN /\ \A f \in r.findings : f.quote = f.source /\ f.source \in r.picked \ r.excluded
           /\ r.status = "ok" <=> r.findings # {}
           /\ r.status = "engines_unreachable" <=> ~r.answered
=============================================================================
