--------------------------- MODULE ExecutionParts ---------------------------
\* What an execution rests on, in parts that do not touch each other's state, for any values
\* of their parameters: the way from its plan to documents, its questions to the models with
\* their budget, the crawl of the news, its report, the primitives of the library and the
\* registry of propositions.
EXTENDS Discovery

\* Gateway
CONSTANTS Executions, Processes, Home, Ceiling, Calls, Tries

VARIABLES setup, usage, cost, exec

Gates == INSTANCE Gateway

\* News
CONSTANTS Crawlers, Feeds, Agent, Articles, Lists, Batch, Cycles, Nobody

VARIABLES article, crawl, notices

Crawl == INSTANCE News

\* Reports
CONSTANTS Runs, ClaimIds, SourceIds, Least, Drafts, Prose, Unknown, Fallback

VARIABLES claim, source, report, finding, printed

Paper == INSTANCE Reports

\* Library
CONSTANTS Tasks, MaxCost, Most, Kept, Phases, Versions, Keys, MaxKeys, Limit, Window, Horizon,
          Threshold, Successes, Retries, Slots

VARIABLES tool, ledger, held, exceeded, saved, stored, clock, grants, dropped, logs, buckets,
          rank, breaker, flight, task

Tools == INSTANCE Library WITH Attempts <- Retries

\* Ledger
CONSTANTS Use, MaxClaims, Statements, Opposing, Items, NoItem, Tiers, Credibilities, Debates,
          NoDebate, Penalties, Corroborated, Similarity

VARIABLES use, records, given, rows, clashes

Register == INSTANCE Ledger

ASSUME ExecutionAssumption ==
    /\ Gates!GatewayAssumption
    /\ Crawl!NewsAssumption
    /\ Paper!ReportsAssumption
    /\ Tools!LibraryAssumption
    /\ Register!LedgerAssumption

\* An execution overspends by what was in flight and no more, and never takes a canned text
\* for a model's answer outside mock mode (gateway.py:122, :207).
GatewayHolds == Gates!GatewayHolds

\* No article is announced twice, and each is found in the feed of the agent it was
\* announced for (news_ingester.py:640).
AnnouncedOnceWhereRead == Crawl!AnnouncedOnceWhereRead

\* Every citation of a report names a row of its run, the gate objects to nothing but stray
\* tokens of its prose, and a token opens the row that was cited (report.py:69,
\* report_gate.py:37, web/routes.py:426).
CitationsHold == Paper!CitationsHold

\* Money and tokens are neither lost nor spent twice, the newest checkpoint is one that is
\* kept, and no key is let through above its limit (budget.py:145, checkpoint.py:137,
\* rate_limit.py:88, :185).
PrimitivesHold == Tools!PrimitivesHold

\* A proposition keeps the evidence it was given through merging and resolution, and what
\* is disputed does not come out trusted (claim_ledger.py:132, contradiction.py:323).
PropositionsHold == Register!PropositionsHold
=============================================================================
