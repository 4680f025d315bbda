----------------------------- MODULE Submission -----------------------------
(***************************************************************************)
(* How runs come to be: job submissions with an Idempotency-Key            *)
(* (api/v1/endpoints.py), those without one (endpoints.py, web/routes.py,  *)
(* trigger_for_agent), and the spawning loops of the processes             *)
(* (orchestration/autonomous_researcher.py).                               *)
(*                                                                         *)
(* Every one of them reads, awaits and then inserts: what it read may be   *)
(* stale by then.  Of the runs' later life (RunLifecycle) only what the    *)
(* reads look at is kept: whether a run is active, older than an hour or a *)
(* day, or purged.                                                         *)
(***************************************************************************)
EXTENDS Integers, FiniteSets

CONSTANTS
    Requests,  \* submissions with a key
    Keys,
    Key,       \* [Requests -> Keys]
    Caller,    \* [Requests -> API key names]
    Loops,     \* how many processes run a spawning loop
    Limit,     \* MAX_CONCURRENT_AUTONOMOUS_RUNS
    Recent,    \* the runs of the last hour that stop a loop
    MaxRuns,   \* bound on the runs created
    Loop,
    None

Ids == 1 .. MaxRuns

\* What the parameters are.
ASSUME SubmissionAssumption ==
    /\ Key \in [Requests -> Keys]
    /\ Loops \in Nat \ {0} /\ {Recent, MaxRuns} \subseteq Nat
    /\ {Loop, None} \cap Requests = {} /\ Loop # None /\ None \notin Ids

VARIABLES
    created,  \* how many runs were ever inserted
    job,      \* [Ids -> Job]
    request,  \* [Requests -> [pc, run]]
    counted   \* how many loops are between their count and their insert

submissionVars == <<created, job, request, counted>>

\* origin: the request that inserted it, Loop, or None for another one without a key.
Job == [origin : Requests \cup {Loop, None},
        age : {"absent", "hour", "day", "old", "purged"},
        active : BOOLEAN]

\* The answers: 202 with a new run, 200 with an earlier one, or none: 404 for another
\* caller's key, 400 by the policy, 500 when the insert violates the UNIQUE key.
Pcs == {"new", "looked", "created", "replayed", "refused"}

TypeOK ==
    /\ created \in 0 .. MaxRuns
    /\ job \in [Ids -> Job]
    /\ request \in [Requests -> [pc : Pcs, run : Ids \cup {None}]]
    /\ counted \in 0 .. Loops

Init ==
    /\ created = 0
    /\ job = [i \in Ids |-> [origin |-> None, age |-> "absent", active |-> FALSE]]
    /\ request = [q \in Requests |-> [pc |-> "new", run |-> None]]
    /\ counted = 0

Exists(i) == job[i].age \notin {"absent", "purged"}

\* The runs whose row holds the key.
Holding(k) == {i \in Ids : Exists(i) /\ job[i].origin \in Requests /\ Key[job[i].origin] = k}

\* RunRepo.create_run and the commit after it.
Insert(o) ==
    /\ created < MaxRuns
    /\ created' = created + 1
    /\ job' = [job EXCEPT ![created + 1] = [origin |-> o, age |-> "hour", active |-> TRUE]]

-----------------------------------------------------------------------------
(* A submission with a key *)

Answer(q, pc, i) == request' = [request EXCEPT ![q] = [pc |-> pc, run |-> i]]

\* The handler looks its key up; a run of more than 24 hours ago does not count.
Look(q) ==
    /\ request[q].pc = "new"
    /\ UNCHANGED <<created, job, counted>>
    /\ \/ Holding(Key[q]) = {} /\ Answer(q, "looked", None)
       \/ \E i \in Holding(Key[q]) :
            IF Caller[job[i].origin] # Caller[q]
            THEN Answer(q, "refused", None)
            ELSE IF job[i].age = "old"
            THEN Answer(q, "looked", None)
            ELSE Answer(q, "replayed", i)

Deny(q) ==
    /\ request[q].pc = "looked"
    /\ Answer(q, "refused", None)
    /\ UNCHANGED <<created, job, counted>>

\* Mutant: the column is not UNIQUE.
CreateAnyway(q) ==
    /\ request[q].pc = "looked"
    /\ Insert(q)
    /\ Answer(q, "created", created + 1)
    /\ UNCHANGED counted

Create(q) ==
    /\ request[q].pc = "looked"
    /\ UNCHANGED counted
    /\ IF Holding(Key[q]) = {}
       THEN Insert(q) /\ Answer(q, "created", created + 1)
       ELSE Answer(q, "refused", None) /\ UNCHANGED <<created, job>>

-----------------------------------------------------------------------------
(* The others *)

\* A submission without a key: web form, follow-up, one for an agent, an API client.
CreatePlain == Insert(None) /\ UNCHANGED <<request, counted>>

Room ==
    /\ Cardinality({i \in Ids : Exists(i) /\ job[i].active}) < Limit
    /\ Cardinality({i \in Ids : job[i].age = "hour"}) < Recent

\* Mutant: the runs of the last hour are not looked at.
CountActive ==
    /\ counted < Loops
    /\ Cardinality({i \in Ids : Exists(i) /\ job[i].active}) < Limit
    /\ counted' = counted + 1
    /\ UNCHANGED <<created, job, request>>

\* A loop's cycle counts; without room it does nothing more.
Count ==
    /\ counted < Loops
    /\ Room
    /\ counted' = counted + 1
    /\ UNCHANGED <<created, job, request>>

Spawn ==
    /\ counted > 0
    /\ Insert(Loop)
    /\ counted' = counted - 1
    /\ UNCHANGED request

\* An error, or the stop of the process, between the two.
Fail ==
    /\ counted > 0
    /\ counted' = counted - 1
    /\ UNCHANGED <<created, job, request>>

-----------------------------------------------------------------------------
(* What happens to runs *)

Become(i, age) ==
    /\ job' = [job EXCEPT ![i].age = age]
    /\ UNCHANGED <<created, request, counted>>

\* The oldest first.
HourPasses(i) ==
    /\ job[i].age = "hour"
    /\ \A j \in 1 .. i - 1 : job[j].age # "hour"
    /\ Become(i, "day")

DayPasses(i) ==
    /\ job[i].age = "day"
    /\ \A j \in 1 .. i - 1 : job[j].age # "day"
    /\ Become(i, "old")

\* Retention removes a run that ended (one that never left the queue, see Evidence).
Purge(i) ==
    /\ job[i].age = "old"
    /\ ~job[i].active
    /\ Become(i, "purged")

\* It ends, or a review puts it back in the queue.
Switch(i) ==
    /\ Exists(i)
    /\ job' = [job EXCEPT ![i].active = ~@]
    /\ UNCHANGED <<created, request, counted>>

Next ==
    \/ \E q \in Requests : Look(q) \/ Deny(q) \/ Create(q)
    \/ CreatePlain
    \/ Count \/ Spawn \/ Fail
    \/ \E i \in Ids : HourPasses(i) \/ DayPasses(i) \/ Purge(i) \/ Switch(i)

Spec == Init /\ [][Next]_submissionVars

-----------------------------------------------------------------------------
(* Properties *)

\* All submissions with one key that are answered with a run are answered with the same
\* run, however they race and retry, unless retention removed it in between
\* (endpoints.py:158).
KeyNamesOneRun ==
    \A q, r \in Requests :
        LET i == request[q].run
            j == request[r].run
        IN  Key[q] = Key[r] /\ None \notin {i, j} /\ i # j =>
                "purged" \in {job[i].age, job[j].age}

\* However their counts and inserts interleave, the loops start at most one run more in
\* an hour than the rule allows for each process after the first
\* (autonomous_researcher.py:135).
SpawnRateBound ==
    Cardinality({i \in Ids : job[i].age = "hour" /\ job[i].origin = Loop})
        <= Recent + Loops - 1
=============================================================================
