---------------------------- MODULE ServiceParts ----------------------------
\* Parts of the service around a run that do not touch each other's state, for any values
\* of their parameters: its handoff, its telemetry, the answers made of it, and the
\* registries of threat intelligence mounted beside it.
EXTENDS Delivery

\* EventStream
CONSTANTS Sessions, Handlers, Processes, Home, Clients, MaxEvents, None

VARIABLES last, author, row, pending, spoken, hub, stream, polled

Events == INSTANCE EventStream

\* Answers
CONSTANTS Requests, Caller, Admins, Runs, Owner, Claims, RunOf, Created, Findings, Names,
          RunLimit, ClaimLimit, FindingLimit, Fallback, Chain, MeshFindings

VARIABLES run, rows, disputed, req, moved

Store == INSTANCE Answers

\* Registries, in the same processes
CONSTANTS Desks, Tags, Room, Phases, Depth, Burst, Top

VARIABLES desk, store, next

Threats == INSTANCE Registries

ASSUME ServiceAssumption ==
    /\ Events!EventAssumption
    /\ Store!AnswersAssumption
    /\ Threats!RegistriesAssumption

\* A reader of a run's events misses one only when another session committed late or the
\* stream is in another process (events.py:101, endpoints.py:326).
EventsReachReaders == Events!EventsReachReaders

\* What the peers are told rests on runs that ended and that they may see, and a market is
\* moved by evidence and not by an outage (router.py:130, stratex.py:188).
AnswersHold == Store!AnswersHold

\* What was disputed before a task was asked gets into its answer only with a finding that
\* concludes from it (router.py:190, :202).
DisputesComeWithTheirFinding == Store!DisputesComeWithTheirFinding

\* What a visitor is shown as verified comes from a run that is complete
\* (api/v1/cortex.py:167).
VisitorsSeeFinishedWork == Store!VisitorsSeeFinishedWork

\* What the registries derive names rows they have, a collection is there as a whole or
\* tells what is missing, and experts and graph agree (routers/*, services/*,
\* api/v1/expert_network.py).
RegistriesHold == Threats!RegistriesHold
=============================================================================
