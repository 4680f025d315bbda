------------------------------ MODULE DeskParts ------------------------------
\* Where work comes in, in parts that share no state, for any values of their parameters:
\* the submission of runs, staged and grounded investigations, the indicator file, and the
\* start of the replicas.
EXTENDS Submission

\* Investigation
CONSTANTS Callers, Endpoints, MaxHits, MaxScrape, MaxSessions, MaxSearches

VARIABLES sessions, born, asked, cases, shown, upset

Staged == INSTANCE Investigation WITH request <- asked

\* Grounded
CONSTANTS Inquiries, Engines, Sites, MaxPages

VARIABLES model, inquiry, files

Inquire == INSTANCE Grounded WITH MaxScrape <- MaxPages

\* ThreatFile
CONSTANTS Processes, Values, MaxReports

VARIABLES engine, file, kept, overlapped, torn

Intel == INSTANCE ThreatFile

\* Startup
CONSTANTS Replicas, ApiKeys, DemoKeys, AdminNamed, Friday, Configs, Boots

VARIABLES tables, keys, demo, boot, starts, hooks, cookies, answer, revoked

Boot == INSTANCE Startup WITH Keys <- ApiKeys

ASSUME DeskAssumption ==
    /\ Staged!InvestigationAssumption
    /\ Inquire!GroundedAssumption
    /\ Intel!ThreatFileAssumption
    /\ Boot!StartupAssumption

\* Staged calls scrape only what a filter kept, and a case is reported failed only when
\* something failed (real_investigation_pipeline.py:354, :404).
CasesHold == Staged!CasesHold

\* A finding quotes the page it cites, which was fetched and holds nothing excluded, and a
\* report that claims success has findings (real_grounded_investigation.py:271, :407).
ReportsAreGrounded == Inquire!ReportsAreGrounded

\* As long as engines run one after the other and none goes down in a save or after one that
\* failed, no indicator is lost; no ingestion's report that loads cites one its state lacks
\* (real_threat_intel_engine.py:180, :195, :247).
OneWriterKeepsAll == Intel!OneWriterKeepsAll

\* A revoked key stays revoked through every later start, and nobody is let in with it
\* (core/auth.py:372, web/auth.py:84).
RevocationLasts == Boot!RevocationLasts

\* A replica that serves finds every key of its settings, and the demonstrations complete
\* when it seeds them (app/lifespan.py:153, db/demo_seeder.py:55).
ServingIsSeeded == Boot!ServingIsSeeded
=============================================================================
