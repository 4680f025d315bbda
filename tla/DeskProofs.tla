----------------------------- MODULE DeskProofs -----------------------------
(***************************************************************************)
(* Safety of the parts where work comes in, each by itself, for any values *)
(* of their constants: a key names one run and the loops spawn at their    *)
(* rate, one engine at a time keeps its indicators, a revoked key and a    *)
(* seeded replica stay what they are, and investigations show what they    *)
(* fetched.  The parts other than the submission are instances, so that    *)
(* their names do not meet.                                                *)
(***************************************************************************)
EXTENDS DeskParts, FiniteSetTheorems, SequenceTheorems, TLAPS

-----------------------------------------------------------------------------
(* Submission *)

Keyed(i) == job[i].origin \in Requests

\* Runs above the counter are not there yet; of the runs with one key at most one is
\* stored; and what a submission was answered was inserted for its key
\* (endpoints.py 158-222).
KeyInv ==
    /\ \A i \in Ids : i > created => job[i].age = "absent"
    /\ \A i, j \in Ids :
         Exists(i) /\ Exists(j) /\ Keyed(i) /\ Keyed(j)
           /\ Key[job[i].origin] = Key[job[j].origin] => i = j
    /\ \A q \in Requests : request[q].run # None =>
         LET i == request[q].run
         IN  Keyed(i) /\ job[i].age # "absent" /\ Key[job[i].origin] = Key[q]

Spawned == {i \in Ids : job[i].age = "hour" /\ job[i].origin = Loop}

\* A loop that has counted is as good as a run it spawned (autonomous_researcher.py 136-175).
QuotaInv == Cardinality(Spawned) + counted <= Recent + Loops - 1

JobsInv == TypeOK /\ KeyInv /\ QuotaInv

-----------------------------------------------------------------------------
(* The steps of a run row *)

LEMMA SpawnedFinite ==
    ASSUME NEW S, S \subseteq Ids
    PROVE  IsFiniteSet(S) /\ Cardinality(S) \in Nat
<1>1. IsFiniteSet(Ids)
  BY FS_Interval, SubmissionAssumption DEF Ids
<1>2. QED
  BY <1>1, FS_Subset, FS_CardinalityType

\* An insert takes the next id and leaves the other rows alone.
LEMMA Inserted ==
    ASSUME TypeOK, NEW o \in Requests \cup {Loop, None}, Insert(o)
    PROVE  /\ created + 1 \in Ids /\ created' = created + 1
           /\ job' \in [Ids -> Job]
           /\ job'[created + 1] = [origin |-> o, age |-> "hour", active |-> TRUE]
           /\ \A i \in Ids : i # created + 1 => job'[i] = job[i]
<1>1. created + 1 \in Ids
  BY SubmissionAssumption DEF TypeOK, Insert, Ids
<1>2. [origin |-> o, age |-> "hour", active |-> TRUE] \in Job
  BY DEF Job
<1>3. QED
  BY <1>1, <1>2 DEF TypeOK, Insert

\* A new row without a key disturbs no key.
LEMMA PlainKeys ==
    ASSUME JobsInv, NEW o \in {Loop, None}, Insert(o),
           UNCHANGED request
    PROVE  KeyInv'
<1>1. job[created + 1].age = "absent" /\ created \in Nat
  <2>1. created \in Nat /\ created + 1 > created
    BY SubmissionAssumption DEF JobsInv, TypeOK
  <2>2. created + 1 \in Ids
    BY Inserted DEF JobsInv
  <2>3. QED
    BY <2>1, <2>2 DEF JobsInv, KeyInv
<1>2. /\ created' = created + 1 /\ created + 1 \in Ids
      /\ job'[created + 1] = [origin |-> o, age |-> "hour", active |-> TRUE]
      /\ \A i \in Ids : i # created + 1 => job'[i] = job[i]
  BY Inserted DEF JobsInv
<1>3. o \notin Requests
  BY SubmissionAssumption
<1>4. \A i \in Ids : i > created' => job'[i].age = "absent"
  BY <1>1, <1>2 DEF JobsInv, KeyInv, Ids
<1>5. \A i \in Ids : Exists(i)' /\ Keyed(i)' => i # created + 1 /\ Exists(i) /\ Keyed(i)
  BY <1>2, <1>3 DEF Exists, Keyed
<1>6. \A q \in Requests : request[q].run # None =>
         request[q].run \in Ids /\ request[q].run # created + 1
  BY <1>1 DEF JobsInv, TypeOK, KeyInv
<1>7. QED
  BY <1>2, <1>4, <1>5, <1>6 DEF JobsInv, KeyInv, Keyed

\* A row that changes its age or its activity keeps its origin and is not a new one.
LEMMA ChangedKeys ==
    ASSUME JobsInv, NEW i \in Ids, NEW x \in Job,
           job' = [job EXCEPT ![i] = x], x.origin = job[i].origin, x.age # "absent",
           job[i].age # "absent", x.age \notin {"purged"} => Exists(i),
           UNCHANGED <<created, request>>
    PROVE  KeyInv'
<1>1. /\ job'[i] = x
      /\ \A j \in Ids : job'[j].origin = job[j].origin
      /\ \A j \in Ids : Exists(j)' => Exists(j)
      /\ \A j \in Ids : job'[j].age = "absent" <=> job[j].age = "absent"
  BY DEF JobsInv, TypeOK, Exists
<1>2. \A q \in Requests : request[q].run # None => request[q].run \in Ids
  BY DEF JobsInv, TypeOK
<1>3. QED
  BY <1>1, <1>2 DEF JobsInv, KeyInv, Keyed

\* Only a loop's insert adds to what the loops have spawned in the hour.
LEMMA SpawnedShrinks ==
    ASSUME JobsInv, Spawned' \subseteq Spawned,
           UNCHANGED counted
    PROVE  QuotaInv'
<1>1. Spawned \subseteq Ids
  BY DEF Spawned
<1>2. Cardinality(Spawned') <= Cardinality(Spawned)
  BY <1>1, SpawnedFinite, FS_Subset
<1>3. Cardinality(Spawned) \in Nat /\ Cardinality(Spawned') \in Nat
  BY <1>1, SpawnedFinite
<1>4. counted \in Nat
  BY SubmissionAssumption DEF JobsInv, TypeOK
<1>5. QED
  BY <1>2, <1>3, <1>4, SubmissionAssumption DEF JobsInv, QuotaInv

-----------------------------------------------------------------------------
(* The actions *)

LEMMA LookStep ==
    ASSUME JobsInv, NEW q \in Requests, Look(q)
    PROVE  TypeOK' /\ KeyInv'
<1>1. PICK pc \in Pcs, i \in Ids \cup {None} :
         /\ Answer(q, pc, i)
         /\ i # None => i \in Holding(Key[q])
  BY DEF Look, Pcs, Holding
<1>2. UNCHANGED <<created, job, counted>>
  BY DEF Look
<1>3. TypeOK'
  BY <1>1, <1>2 DEF JobsInv, TypeOK, Answer
<1>4. i # None => Keyed(i) /\ job[i].age # "absent" /\ Key[job[i].origin] = Key[q]
  BY <1>1 DEF Holding, Exists, Keyed
<1>5. request' = [request EXCEPT ![q] = [pc |-> pc, run |-> i]]
  BY <1>1 DEF Answer
<1>6. KeyInv'
  BY <1>2, <1>4, <1>5 DEF JobsInv, TypeOK, KeyInv, Keyed, Exists
<1>7. QED
  BY <1>3, <1>6

LEMMA DenyStep ==
    ASSUME JobsInv, NEW q \in Requests,
           Answer(q, "refused", None), UNCHANGED <<created, job, counted>>
    PROVE  TypeOK' /\ KeyInv'
<1>1. TypeOK'
  BY DEF JobsInv, TypeOK, Answer, Pcs
<1>2. KeyInv'
  BY DEF JobsInv, TypeOK, Answer, KeyInv, Keyed, Exists
<1>3. QED
  BY <1>1, <1>2

\* The key's only run is the new one: no stored run has the key when it is inserted.
LEMMA CreateStep ==
    ASSUME JobsInv, NEW q \in Requests,
           Holding(Key[q]) = {}, Insert(q), Answer(q, "created", created + 1),
           UNCHANGED counted
    PROVE  TypeOK' /\ KeyInv'
<1>1. /\ created' = created + 1 /\ created + 1 \in Ids
      /\ job' \in [Ids -> Job]
      /\ job'[created + 1] = [origin |-> q, age |-> "hour", active |-> TRUE]
      /\ \A i \in Ids : i # created + 1 => job'[i] = job[i]
  BY Inserted DEF JobsInv
<1>2. job[created + 1].age = "absent" /\ created \in Nat
  <2>1. created \in Nat /\ created + 1 > created
    BY SubmissionAssumption DEF JobsInv, TypeOK
  <2>2. QED
    BY <1>1, <2>1 DEF JobsInv, KeyInv
<1>3. request' = [request EXCEPT ![q] = [pc |-> "created", run |-> created + 1]]
  BY DEF Answer
<1>4. TypeOK'
  <2>1. created' \in 0 .. MaxRuns
    BY <1>1, <1>2, SubmissionAssumption DEF Ids
  <2>2. QED
    BY <1>1, <1>3, <2>1 DEF JobsInv, TypeOK, Pcs
<1>5. \A i \in Ids : i > created' => job'[i].age = "absent"
  BY <1>1, <1>2 DEF JobsInv, KeyInv, Ids
<1>6. \A i \in Ids : i # created + 1 =>
         ~(Exists(i)' /\ Keyed(i)' /\ Key[job'[i].origin] = Key[q])
  BY <1>1 DEF Holding, Exists, Keyed
<1>7. \A i \in Ids : i # created + 1 =>
         (Exists(i)' <=> Exists(i)) /\ (Keyed(i)' <=> Keyed(i)) /\ job'[i].origin = job[i].origin
  BY <1>1 DEF Exists, Keyed
<1>8. \A i, j \in Ids :
         Exists(i)' /\ Exists(j)' /\ Keyed(i)' /\ Keyed(j)'
           /\ Key[job'[i].origin] = Key[job'[j].origin] => i = j
  BY <1>1, <1>6, <1>7 DEF JobsInv, KeyInv
<1>9. \A r \in Requests : request'[r].run # None =>
         /\ job'[request'[r].run].origin \in Requests
         /\ job'[request'[r].run].age # "absent"
         /\ Key[job'[request'[r].run].origin] = Key[r]
  <2>1. \A r \in Requests \ {q} : request'[r] = request[r]
    BY <1>3 DEF JobsInv, TypeOK
  <2>2. request'[q].run = created + 1
    BY <1>3 DEF JobsInv, TypeOK
  <2>3. \A r \in Requests : request[r].run # None =>
           request[r].run \in Ids /\ request[r].run # created + 1
    BY <1>2 DEF JobsInv, TypeOK, KeyInv
  <2>4. ASSUME NEW r \in Requests \ {q}, request[r].run # None
        PROVE  /\ job[request[r].run].origin \in Requests
               /\ job[request[r].run].age # "absent"
               /\ Key[job[request[r].run].origin] = Key[r]
    BY <2>4 DEF JobsInv, KeyInv, Keyed
  <2>5. QED
    BY <1>1, <2>1, <2>2, <2>3, <2>4
<1>10. KeyInv'
  BY <1>5, <1>8, <1>9 DEF KeyInv, Keyed
<1>11. QED
  BY <1>4, <1>10

\* The quota: what is not a loop's insert or count does not add to it.
LEMMA QuotaKept ==
    ASSUME JobsInv, NEW o \in Requests \cup {None}, Insert(o),
           UNCHANGED counted
    PROVE  QuotaInv'
<1>1. \A i \in Ids : job'[i].age = "hour" /\ job'[i].origin = Loop =>
         job[i].age = "hour" /\ job[i].origin = Loop
  <2>1. o # Loop
    BY SubmissionAssumption
  <2>2. /\ \A i \in Ids : i # created + 1 => job'[i] = job[i]
        /\ job'[created + 1] = [origin |-> o, age |-> "hour", active |-> TRUE]
    <3>1. o \in Requests \cup {Loop, None}
      OBVIOUS
    <3>2. QED
      BY <3>1, Inserted DEF JobsInv
  <2>3. QED
    BY <2>1, <2>2
<1>2. Spawned' \subseteq Spawned
  BY <1>1 DEF Spawned
<1>3. QED
  BY <1>2, SpawnedShrinks

LEMMA PlainTyped ==
    ASSUME TypeOK, NEW o \in {Loop, None}, Insert(o),
           UNCHANGED request, counted' \in 0 .. Loops
    PROVE  TypeOK'
<1>1. created' = created + 1 /\ created + 1 \in Ids /\ job' \in [Ids -> Job]
  BY Inserted
<1>2. created' \in 0 .. MaxRuns
  BY <1>1, SubmissionAssumption DEF Ids
<1>3. QED
  BY <1>1, <1>2 DEF TypeOK

\* The count saw the hour's runs of all kinds below the quota.
LEMMA CountStep ==
    ASSUME JobsInv, Count
    PROVE  JobsInv'
<1>1. Spawned' = Spawned /\ Spawned \subseteq Ids
  BY DEF Count, Spawned
<1>2. Spawned \subseteq {i \in Ids : job[i].age = "hour"}
  BY DEF Spawned
<1>3. Cardinality(Spawned) <= Cardinality({i \in Ids : job[i].age = "hour"})
  BY <1>2, SpawnedFinite, FS_Subset
<1>4. Cardinality(Spawned) \in Nat /\ Cardinality({i \in Ids : job[i].age = "hour"}) \in Nat
  BY <1>1, SpawnedFinite
<1>5. counted \in 0 .. Loops /\ counted < Loops /\ counted' = counted + 1
  BY DEF JobsInv, TypeOK, Count
<1>6. Cardinality({i \in Ids : job[i].age = "hour"}) < Recent
  BY DEF Count, Room
<1>7. QuotaInv'
  BY <1>1, <1>3, <1>4, <1>5, <1>6, SubmissionAssumption DEF QuotaInv
<1>8. TypeOK' /\ KeyInv'
  BY <1>5, SubmissionAssumption DEF JobsInv, TypeOK, KeyInv, Keyed, Exists, Count
<1>9. QED
  BY <1>7, <1>8 DEF JobsInv

LEMMA SpawnStep ==
    ASSUME JobsInv, Spawn
    PROVE  JobsInv'
<1>1. Insert(Loop) /\ counted > 0 /\ counted' = counted - 1 /\ counted' \in 0 .. Loops
  BY SubmissionAssumption DEF Spawn, JobsInv, TypeOK
<1>2. TypeOK' /\ KeyInv'
  BY <1>1, PlainTyped, PlainKeys DEF JobsInv, Spawn
<1>3. Spawned' \subseteq Spawned \cup {created + 1}
  BY <1>1, Inserted DEF JobsInv, Spawned
<1>4. /\ IsFiniteSet(Spawned) /\ IsFiniteSet(Spawned \cup {created + 1})
      /\ Cardinality(Spawned) \in Nat
      /\ Cardinality(Spawned \cup {created + 1}) <= Cardinality(Spawned) + 1
  <2>1. Spawned \subseteq Ids
    BY DEF Spawned
  <2>2. IsFiniteSet(Spawned) /\ Cardinality(Spawned) \in Nat
    BY <2>1, SpawnedFinite
  <2>3. QED
    BY <2>2, FS_AddElement
<1>5. /\ Cardinality(Spawned') <= Cardinality(Spawned \cup {created + 1})
      /\ IsFiniteSet(Spawned')
  BY <1>3, <1>4, FS_Subset
<1>6. Cardinality(Spawned') \in Nat /\ Cardinality(Spawned \cup {created + 1}) \in Nat
  BY <1>4, <1>5, FS_CardinalityType
<1>7. QuotaInv'
  BY <1>1, <1>4, <1>5, <1>6, SubmissionAssumption DEF JobsInv, TypeOK, QuotaInv
<1>8. QED
  BY <1>2, <1>7 DEF JobsInv

LEMMA FailStep ==
    ASSUME JobsInv, Fail
    PROVE  JobsInv'
<1>1. Spawned' = Spawned /\ Cardinality(Spawned) \in Nat
  BY SpawnedFinite DEF Fail, Spawned
<1>2. counted \in 0 .. Loops /\ counted > 0 /\ counted' = counted - 1
  BY DEF JobsInv, TypeOK, Fail
<1>3. QuotaInv'
  BY <1>1, <1>2, SubmissionAssumption DEF JobsInv, QuotaInv
<1>4. TypeOK' /\ KeyInv'
  BY <1>2, SubmissionAssumption DEF JobsInv, TypeOK, KeyInv, Keyed, Exists, Fail
<1>5. QED
  BY <1>3, <1>4 DEF JobsInv

\* Time passes, a run ends or is requeued, retention removes it.
LEMMA LifeStep ==
    ASSUME JobsInv, NEW i \in Ids,
           HourPasses(i) \/ DayPasses(i) \/ Purge(i) \/ Switch(i)
    PROVE  JobsInv'
<1>1. PICK x \in Job :
         /\ job' = [job EXCEPT ![i] = x]
         /\ x.origin = job[i].origin /\ x.age # "absent" /\ job[i].age # "absent"
         /\ x.age # "purged" => Exists(i)
         /\ x.age = "hour" => job[i].age = "hour"
  <2>1. job[i] \in Job
    BY DEF JobsInv, TypeOK
  <2>2. CASE HourPasses(i)
    <3>1. [job[i] EXCEPT !.age = "day"] \in Job
      BY <2>1 DEF Job
    <3>2. QED
      BY <2>1, <2>2, <3>1 DEF HourPasses, Become, Exists, Job
  <2>3. CASE DayPasses(i)
    <3>1. [job[i] EXCEPT !.age = "old"] \in Job
      BY <2>1 DEF Job
    <3>2. QED
      BY <2>1, <2>3, <3>1 DEF DayPasses, Become, Exists, Job
  <2>4. CASE Purge(i)
    <3>1. [job[i] EXCEPT !.age = "purged"] \in Job
      BY <2>1 DEF Job
    <3>2. QED
      BY <2>1, <2>4, <3>1 DEF Purge, Become, Exists, Job
  <2>5. CASE Switch(i)
    <3>1. [job[i] EXCEPT !.active = ~@] \in Job
      BY <2>1 DEF Job
    <3>2. QED
      BY <2>1, <2>5, <3>1 DEF Switch, Exists, Job
  <2>6. QED
    BY <2>2, <2>3, <2>4, <2>5
<1>2. UNCHANGED <<created, request, counted>>
  BY DEF HourPasses, DayPasses, Purge, Switch, Become
<1>3. KeyInv'
  BY <1>1, <1>2, ChangedKeys
<1>4. Spawned' \subseteq Spawned
  BY <1>1 DEF JobsInv, TypeOK, Spawned
<1>5. QuotaInv'
  BY <1>2, <1>4, SpawnedShrinks
<1>6. TypeOK'
  BY <1>1, <1>2 DEF JobsInv, TypeOK
<1>7. QED
  BY <1>3, <1>5, <1>6 DEF JobsInv

LEMMA JobsStep ==
    ASSUME JobsInv, [Next]_submissionVars
    PROVE  JobsInv'
<1>1. ASSUME NEW q \in Requests, Look(q) \/ Deny(q)
      PROVE  JobsInv'
  <2>1. UNCHANGED <<job, counted>>
    BY <1>1 DEF Look, Deny
  <2>2. QuotaInv'
    BY <2>1, SpawnedShrinks DEF Spawned
  <2>3. TypeOK' /\ KeyInv'
    BY <1>1, LookStep, DenyStep DEF Deny
  <2>4. QED
    BY <2>2, <2>3 DEF JobsInv
<1>2. ASSUME NEW q \in Requests, Create(q)
      PROVE  JobsInv'
  <2>1. CASE Holding(Key[q]) = {}
    BY <1>2, <2>1, CreateStep, QuotaKept DEF Create, JobsInv
  <2>2. CASE Holding(Key[q]) # {}
    <3>1. Answer(q, "refused", None) /\ UNCHANGED <<created, job, counted>>
      BY <1>2, <2>2 DEF Create
    <3>2. QuotaInv'
      BY <3>1, SpawnedShrinks DEF Spawned
    <3>3. QED
      BY <3>1, <3>2, DenyStep DEF JobsInv
  <2>3. QED
    BY <2>1, <2>2
<1>3. CASE CreatePlain
  <2>1. counted' \in 0 .. Loops
    BY <1>3 DEF CreatePlain, JobsInv, TypeOK
  <2>2. QED
    BY <1>3, <2>1, PlainTyped, PlainKeys, QuotaKept DEF CreatePlain, JobsInv
<1>4. CASE UNCHANGED submissionVars
  BY <1>4 DEF JobsInv, TypeOK, KeyInv, QuotaInv, Spawned, Keyed, Exists, submissionVars
<1>5. QED
  BY <1>1, <1>2, <1>3, <1>4, CountStep, SpawnStep, FailStep, LifeStep DEF Next

LEMMA JobsStart ==
    ASSUME Init
    PROVE  JobsInv
<1>1. TypeOK /\ KeyInv
  BY SubmissionAssumption DEF Init, TypeOK, KeyInv, Job, Pcs, Exists
<1>2. Spawned = {}
  BY DEF Init, Spawned
<1>3. Cardinality(Spawned) = 0
  BY <1>2, FS_EmptySet
<1>4. counted = 0
  BY DEF Init
<1>5. QuotaInv
  BY <1>3, <1>4, SubmissionAssumption DEF QuotaInv
<1>6. QED
  BY <1>1, <1>5 DEF JobsInv

\* All submissions with one key that are answered with a run get the same one, unless
\* retention removed it in between, for any submissions, keys, callers and loops
\* (endpoints.py:158).
THEOREM OneRunPerKey == Spec => []KeyNamesOneRun
<1>1. Init => JobsInv
  BY JobsStart
<1>2. JobsInv /\ [Next]_submissionVars => JobsInv'
  BY JobsStep
<1>3. JobsInv => KeyNamesOneRun
  BY DEF JobsInv, TypeOK, KeyInv, KeyNamesOneRun, Exists
<1>4. QED
  BY <1>1, <1>2, <1>3, PTL DEF Spec

\* However many loops count and insert at once, they start at most one run more in an hour
\* than the rule allows for each loop after the first (autonomous_researcher.py:135).
THEOREM SpawnRateHolds == Spec => []SpawnRateBound
<1>1. Init => JobsInv
  BY JobsStart
<1>2. JobsInv /\ [Next]_submissionVars => JobsInv'
  BY JobsStep
<1>3. JobsInv => SpawnRateBound
  <2>1. SUFFICES ASSUME JobsInv
                 PROVE  SpawnRateBound
    OBVIOUS
  <2>2. Cardinality(Spawned) \in Nat
    BY SpawnedFinite DEF Spawned
  <2>3. QED
    BY <2>1, <2>2, SubmissionAssumption DEF JobsInv, TypeOK, QuotaInv, SpawnRateBound,
       Spawned
<1>4. QED
  BY <1>1, <1>2, <1>3, PTL DEF Spec

-----------------------------------------------------------------------------
(* The indicator file *)

\* What an ingestion is to report is stored, or still to be.
Sound(e) == Intel!Whole(e.state) /\ e.cites \subseteq e.state.found \cup e.todo

OneUp == \A p, q \in Processes : Intel!Up(p) /\ Intel!Up(q) => p = q

\* An engine that is down has nothing to save; one that is up has, while it writes and after it
\* could not.
Saved(e) == e.pc # "down" => e.pc = "up" /\ ~e.behind

\* The file has what was kept, except while the engine that is up has not saved it.
KeptIsThere ==
    /\ \A p \in Processes : Intel!Up(p) => kept \subseteq engine[p].state.found
    /\ (\A p \in Processes : Saved(engine[p])) => kept \subseteq file.state.found

ThreatInv ==
    /\ Intel!TypeOK
    /\ Intel!Whole(file.state) /\ \A p \in Processes : Sound(engine[p])
    /\ ~overlapped => OneUp
    /\ ~overlapped /\ ~torn => KeptIsThere

LEMMA NothingFacts ==
    /\ Intel!Nothing \in Intel!State /\ Intel!Down \in Intel!Engine /\ Intel!Down.pc = "down" /\ Intel!Down.state = Intel!Nothing
    /\ Saved(Intel!Down) /\ Intel!Whole(Intel!Nothing) /\ Sound(Intel!Down) /\ Intel!TornFile \in Intel!File /\ Intel!TornFile.state = Intel!Nothing
<1>1. Intel!Nothing \in Intel!State /\ Intel!Nothing.reports = {}
  BY DEF Intel!Nothing, Intel!State
<1>2. Intel!Whole(Intel!Nothing)
  BY <1>1 DEF Intel!Whole
<1>3. /\ Intel!Down \in Intel!Engine /\ Intel!Down.pc = "down" /\ Intel!Down.state = Intel!Nothing /\ Intel!Down.cites = {}
      /\ ~Intel!Down.behind
      /\ Intel!TornFile \in Intel!File /\ Intel!TornFile.state = Intel!Nothing
  BY <1>1 DEF Intel!Down, Intel!TornFile, Intel!Engine, Intel!File
<1>4. QED
  BY <1>1, <1>2, <1>3 DEF Sound, Saved

LEMMA ThreatStart == Intel!Init => ThreatInv
<1> SUFFICES ASSUME Intel!Init
             PROVE  ThreatInv
  OBVIOUS
<1>1. file \in Intel!File /\ file.state = Intel!Nothing
  BY NothingFacts DEF Intel!Init, Intel!File
<1>2. QED
  BY <1>1, NothingFacts DEF Intel!Init, ThreatInv, Intel!TypeOK, OneUp, KeptIsThere, Intel!Up

\* An engine changes what it has in memory, keeps what it had, and begins to save or fails to.
LEMMA ChangeStep ==
    ASSUME ThreatInv, NEW p \in Processes, NEW e \in Intel!Engine, Intel!Change(p, e),
           engine[p].pc = "up", e.pc = "up", Sound(e), engine[p].state.found \subseteq e.state.found
    PROVE  ThreatInv'
<1>1. ASSUME NEW x \in Intel!Engine, engine' = [engine EXCEPT ![p] = x],
             Intel!Up(p), x.pc # "down", x.state = e.state, x.todo = e.todo, x.cites = e.cites,
             ~Saved(x), file' = Intel!TornFile \/ file' = file,
             kept' \subseteq kept \cup e.state.found, UNCHANGED <<overlapped, torn>>
      PROVE  ThreatInv'
  <2>1. /\ engine' \in [Processes -> Intel!Engine] /\ engine'[p] = x
        /\ \A q \in Processes : q # p => engine'[q] = engine[q]
    BY <1>1 DEF ThreatInv, Intel!TypeOK
  <2>2. e.state.found \subseteq Values
    BY DEF Intel!Engine, Intel!State
  <2>3. Intel!TypeOK'
    BY <1>1, <2>1, <2>2, NothingFacts DEF ThreatInv, Intel!TypeOK
  <2>4. Sound(x)
    BY <1>1 DEF Sound
  <2>5. Intel!Whole(file'.state) /\ \A q \in Processes : Sound(engine'[q])
    BY <1>1, <2>1, <2>4, NothingFacts DEF ThreatInv
  <2>6. \A q \in Processes : Intel!Up(q)' <=> Intel!Up(q)
    BY <1>1, <2>1 DEF Intel!Up
  <2>7. ASSUME OneUp, KeptIsThere
        PROVE  KeptIsThere'
    <3>1. \A q \in Processes : Intel!Up(q) => q = p
      BY <1>1, <2>7 DEF OneUp
    <3>2. kept \subseteq engine[p].state.found
      BY <1>1, <2>7 DEF KeptIsThere
    <3>3. QED
      BY <1>1, <2>1, <2>6, <3>1, <3>2 DEF KeptIsThere
  <2>8. OneUp => OneUp'
    BY <2>6 DEF OneUp
  <2>9. QED
    BY <1>1, <2>3, <2>5, <2>7, <2>8 DEF ThreatInv, Sound, Intel!Whole
<1>2. Intel!Up(p)
  BY DEF Intel!Up
<1>3. CASE /\ engine' = [engine EXCEPT ![p] = [e EXCEPT !.pc = "saving"]]
           /\ file' = Intel!TornFile /\ UNCHANGED <<kept, overlapped, torn>>
  <2> DEFINE x == [e EXCEPT !.pc = "saving"]
  <2>1. /\ x \in Intel!Engine /\ x.pc = "saving" /\ x.state = e.state /\ x.todo = e.todo
        /\ x.cites = e.cites
    BY DEF Intel!Engine
  <2>2. engine' = [engine EXCEPT ![p] = x]
    BY <1>3
  <2> HIDE DEF x
  <2>3. ~Saved(x)
    BY <2>1 DEF Saved
  <2>4. QED
    BY <1>1, <1>2, <1>3, <2>1, <2>2, <2>3
<1>4. CASE /\ engine' = [engine EXCEPT ![p] = [e EXCEPT !.behind = TRUE]]
           /\ kept' = kept \cup e.state.found /\ UNCHANGED <<file, overlapped, torn>>
  <2> DEFINE x == [e EXCEPT !.behind = TRUE]
  <2>1. /\ x \in Intel!Engine /\ x.pc = "up" /\ x.state = e.state /\ x.todo = e.todo
        /\ x.cites = e.cites /\ x.behind
    BY DEF Intel!Engine
  <2>2. engine' = [engine EXCEPT ![p] = x]
    BY <1>4
  <2> HIDE DEF x
  <2>3. ~Saved(x)
    BY <2>1 DEF Saved
  <2>4. QED
    BY <1>1, <1>2, <1>4, <2>1, <2>2, <2>3
<1>5. QED
  BY <1>3, <1>4 DEF Intel!Change

LEMMA ThreatStep ==
    ASSUME ThreatInv, [Intel!Next]_(Intel!threatVars)
    PROVE  ThreatInv'
<1>1. CASE UNCHANGED Intel!threatVars
  BY <1>1 DEF ThreatInv, Intel!TypeOK, Sound, Intel!Whole, OneUp, KeptIsThere, Saved, Intel!Up,
              Intel!threatVars
<1>2. ASSUME NEW p \in Processes
      PROVE  /\ engine \in [Processes -> Intel!Engine] /\ engine[p] \in Intel!Engine
             /\ engine[p].state \in Intel!State /\ Sound(engine[p])
  BY DEF ThreatInv, Intel!TypeOK, Intel!Engine
<1>3. ASSUME NEW p \in Processes, Intel!Start(p)
      PROVE  ThreatInv'
  <2> DEFINE x == [Intel!Down EXCEPT !.pc = "up", !.state = file.state]
  <2>1. /\ ~Intel!Up(p) /\ engine' = [engine EXCEPT ![p] = x]
        /\ overlapped' = (overlapped \/ \E q \in Processes : Intel!Up(q))
        /\ UNCHANGED <<file, kept, torn>>
    BY <1>3 DEF Intel!Start, Intel!Loaded
  <2>2. file.state \in Intel!State
    BY DEF ThreatInv, Intel!TypeOK, Intel!File
  <2>3. x \in Intel!Engine /\ x.pc = "up" /\ x.state = file.state /\ x.cites = {}
        /\ ~x.behind
    BY <2>2 DEF Intel!Down, Intel!Engine
  <2> HIDE DEF x
  <2>4. /\ engine' \in [Processes -> Intel!Engine] /\ engine'[p] = x
        /\ \A q \in Processes : q # p => engine'[q] = engine[q]
    BY <1>2, <2>1, <2>3
  <2>5. Intel!TypeOK'
    BY <2>1, <2>4 DEF ThreatInv, Intel!TypeOK
  <2>6. Intel!Whole(file'.state) /\ \A q \in Processes : Sound(engine'[q])
    BY <2>1, <2>3, <2>4 DEF ThreatInv, Sound
  <2>7. ASSUME ~overlapped'
        PROVE  OneUp' /\ (~torn' => KeptIsThere')
    <3>1. ~overlapped /\ \A q \in Processes : ~Intel!Up(q)
      BY <2>1, <2>7
    <3>2. OneUp'
      BY <2>4, <3>1 DEF OneUp, Intel!Up
    <3>3. ASSUME ~torn'
          PROVE  KeptIsThere'
      <4>1. kept \subseteq file.state.found
        <5>1. \A q \in Processes : Saved(engine[q])
          BY <3>1 DEF Saved, Intel!Up
        <5>2. KeptIsThere
          BY <2>1, <3>1, <3>3 DEF ThreatInv
        <5>3. QED
          BY <5>1, <5>2 DEF KeptIsThere
      <4>2. QED
        BY <2>1, <2>3, <2>4, <3>1, <4>1 DEF KeptIsThere, Intel!Up
    <3>4. QED
      BY <3>2, <3>3
  <2>8. QED
    BY <2>5, <2>6, <2>7 DEF ThreatInv, Sound, Intel!Whole
<1>4. ASSUME NEW p \in Processes, NEW v \in Values, Intel!AddIndicator(p, v)
      PROVE  ThreatInv'
  <2> DEFINE s == [engine[p].state EXCEPT !.found = @ \cup {v}]
             x == [engine[p] EXCEPT !.state = s]
  <2>1. engine[p].pc = "up" /\ engine[p].cites = {} /\ Intel!Change(p, x)
    BY <1>4 DEF Intel!AddIndicator, Intel!Ready
  <2>2. /\ s \in Intel!State /\ s.found = engine[p].state.found \cup {v}
        /\ s.reports = engine[p].state.reports
    BY <1>2 DEF Intel!State
  <2> HIDE DEF s
  <2>3. x \in Intel!Engine /\ x.pc = "up" /\ x.state = s /\ x.cites = engine[p].cites
    BY <1>2, <2>1, <2>2 DEF Intel!Engine
  <2>4. Sound(x)
    BY <1>2, <2>1, <2>2, <2>3 DEF Sound, Intel!Whole
  <2> HIDE DEF x
  <2>5. QED
    BY <2>1, <2>2, <2>3, <2>4, ChangeStep
<1>5. ASSUME NEW p \in Processes, Intel!CorrelateIndicators(p)
      PROVE  ThreatInv'
  BY <1>2, <1>5, ChangeStep DEF Intel!CorrelateIndicators, Intel!Ready
<1>6. ASSUME NEW p \in Processes, NEW stray \in BOOLEAN, Intel!TrackCampaign(p, stray)
      PROVE  ThreatInv'
  <2>1. engine[p].pc = "up" /\ engine[p].cites = {}
    BY <1>6 DEF Intel!TrackCampaign, Intel!Ready
  <2>2. PICK s \in Intel!State :
          /\ s.found = engine[p].state.found /\ s.reports = engine[p].state.reports
          /\ Intel!Change(p, [engine[p] EXCEPT !.state = s])
    <3> DEFINE t == [engine[p].state EXCEPT !.campaign = TRUE, !.strays = @ \/ stray]
    <3>1. t \in Intel!State /\ t.found = engine[p].state.found /\ t.reports = engine[p].state.reports
      BY <1>2 DEF Intel!State
    <3>2. Intel!Change(p, [engine[p] EXCEPT !.state = t])
      BY <1>2, <1>6 DEF Intel!TrackCampaign, Intel!State, Intel!Engine
    <3>3. QED
      BY <3>1, <3>2
  <2> DEFINE x == [engine[p] EXCEPT !.state = s]
  <2>3. x \in Intel!Engine /\ x.pc = "up" /\ x.state = s /\ x.cites = engine[p].cites
    BY <1>2, <2>1 DEF Intel!Engine
  <2>4. Sound(x)
    BY <1>2, <2>1, <2>2, <2>3 DEF Sound, Intel!Whole
  <2>5. Intel!Change(p, x)
    BY <2>2
  <2> HIDE DEF x
  <2>6. QED
    BY <2>1, <2>2, <2>3, <2>4, <2>5, ChangeStep
<1>7. ASSUME NEW p \in Processes, NEW stray \in BOOLEAN, Intel!GenerateReport(p, stray)
      PROVE  ThreatInv'
  <2>1. engine[p].pc = "up" /\ engine[p].cites = {}
    BY <1>7 DEF Intel!GenerateReport, Intel!Ready
  <2>2. PICK s \in Intel!State :
          /\ s.found = engine[p].state.found /\ s.reports = engine[p].state.reports
          /\ Intel!Change(p, [engine[p] EXCEPT !.state = s])
    <3> DEFINE t == [engine[p].state EXCEPT !.strays = @ \/ stray]
    <3>1. t \in Intel!State /\ t.found = engine[p].state.found /\ t.reports = engine[p].state.reports
      BY <1>2 DEF Intel!State
    <3>2. Intel!Change(p, [engine[p] EXCEPT !.state = t])
      BY <1>2, <1>7 DEF Intel!GenerateReport, Intel!State, Intel!Engine
    <3>3. QED
      BY <3>1, <3>2
  <2> DEFINE x == [engine[p] EXCEPT !.state = s]
  <2>3. x \in Intel!Engine /\ x.pc = "up" /\ x.state = s /\ x.cites = engine[p].cites
    BY <1>2, <2>1 DEF Intel!Engine
  <2>4. Sound(x)
    BY <1>2, <2>1, <2>2, <2>3 DEF Sound, Intel!Whole
  <2>5. Intel!Change(p, x)
    BY <2>2
  <2> HIDE DEF x
  <2>6. QED
    BY <2>1, <2>2, <2>3, <2>4, <2>5, ChangeStep
<1>8. ASSUME NEW p \in Processes, NEW v \in Values, Intel!LinkIndicator(p, v)
      PROVE  ThreatInv'
  BY <1>2, <1>8, ChangeStep DEF Intel!LinkIndicator, Intel!Ready
<1>9. ASSUME NEW p \in Processes, Intel!IngestNext(p)
      PROVE  ThreatInv'
  <2>0. PICK v \in engine[p].todo :
          Intel!Change(p, [engine[p] EXCEPT !.todo = @ \ {v}, !.state.found = @ \cup {v}])
    BY <1>9 DEF Intel!IngestNext
  <2> DEFINE s == [engine[p].state EXCEPT !.found = @ \cup {v}]
             x == [engine[p] EXCEPT !.todo = @ \ {v}, !.state = s]
  <2>1. engine[p].pc = "up" /\ Intel!Change(p, x) /\ v \in Values
    BY <1>2, <1>9, <2>0 DEF Intel!IngestNext, Intel!Engine
  <2>2. /\ s \in Intel!State /\ s.found = engine[p].state.found \cup {v}
        /\ s.reports = engine[p].state.reports
    BY <1>2, <2>1 DEF Intel!State
  <2> HIDE DEF s
  <2>3. /\ x \in Intel!Engine /\ x.pc = "up" /\ x.state = s /\ x.cites = engine[p].cites
        /\ x.todo = engine[p].todo \ {v}
    BY <1>2, <2>1, <2>2 DEF Intel!Engine
  <2>4. Sound(x)
    BY <1>2, <2>2, <2>3 DEF Sound, Intel!Whole
  <2> HIDE DEF x
  <2>5. QED
    BY <2>1, <2>2, <2>3, <2>4, ChangeStep
<1>10. ASSUME NEW p \in Processes, Intel!IngestReport(p)
      PROVE  ThreatInv'
  <2> DEFINE s == [engine[p].state EXCEPT !.reports = @ \cup {engine[p].cites}]
             x == [engine[p] EXCEPT !.state = s, !.cites = {}]
  <2>1. engine[p].pc = "up" /\ engine[p].todo = {} /\ Intel!Change(p, x)
    BY <1>10 DEF Intel!IngestReport
  <2>2. /\ s \in Intel!State /\ s.found = engine[p].state.found
        /\ s.reports = engine[p].state.reports \cup {engine[p].cites}
    <3>1. engine[p].state.reports \cup {engine[p].cites} \in SUBSET SUBSET Values
      BY <1>2 DEF Intel!Engine, Intel!State
    <3>2. QED
      BY <1>2, <3>1 DEF Intel!State
  <2> HIDE DEF s
  <2>3. x \in Intel!Engine /\ x.pc = "up" /\ x.state = s /\ x.cites = {}
    BY <1>2, <2>1, <2>2 DEF Intel!Engine
  <2>4. Sound(x)
    BY <1>2, <2>1, <2>2, <2>3 DEF Sound, Intel!Whole
  <2> HIDE DEF x
  <2>5. QED
    BY <2>1, <2>2, <2>3, <2>4, ChangeStep
<1>11. ASSUME NEW p \in Processes, NEW values \in SUBSET Values, Intel!IngestResearch(p, values)
       PROVE  ThreatInv'
  <2> DEFINE x == [engine[p] EXCEPT !.todo = values \ engine[p].state.found, !.cites = values]
  <2>1. /\ engine' = [engine EXCEPT ![p] = x] /\ UNCHANGED <<file, kept, overlapped, torn>>
    BY <1>2, <1>11 DEF Intel!IngestResearch
  <2>2. /\ x \in Intel!Engine /\ x.pc = engine[p].pc /\ x.state = engine[p].state
        /\ x.todo = values \ engine[p].state.found /\ x.cites = values
        /\ x.behind = engine[p].behind
    BY <1>2 DEF Intel!Engine
  <2> HIDE DEF x
  <2>3. /\ engine' \in [Processes -> Intel!Engine]
        /\ engine'[p] = x /\ \A q \in Processes : q # p => engine'[q] = engine[q]
    BY <1>2, <2>1, <2>2
  <2>4. /\ \A q \in Processes : engine'[q].pc = engine[q].pc /\ engine'[q].state = engine[q].state
        /\ \A q \in Processes : engine'[q].behind = engine[q].behind
        /\ \A q \in Processes : Sound(engine'[q])
    BY <1>2, <2>2, <2>3 DEF ThreatInv, Sound
  <2>5. QED
    BY <2>1, <2>3, <2>4 DEF ThreatInv, Intel!TypeOK, Sound, Intel!Whole, OneUp, KeptIsThere, Saved,
                            Intel!Up
<1>12. ASSUME NEW p \in Processes, Intel!Dump(p)
       PROVE  ThreatInv'
  <2> DEFINE x == [engine[p] EXCEPT !.pc = "up", !.behind = FALSE]
  <2>1. /\ engine[p].pc = "saving" /\ engine' = [engine EXCEPT ![p] = x]
        /\ file' \in Intel!Written(p, engine[p].state)
        /\ kept' = kept \cup engine[p].state.found
        /\ UNCHANGED <<overlapped, torn>>
    BY <1>2, <1>12 DEF Intel!Dump
  <2>2. /\ x \in Intel!Engine /\ x.pc = "up" /\ x.state = engine[p].state
        /\ x.todo = engine[p].todo /\ x.cites = engine[p].cites
    BY <1>2 DEF Intel!Engine
  <2> HIDE DEF x
  <2>3. /\ engine' \in [Processes -> Intel!Engine]
        /\ engine'[p] = x /\ \A q \in Processes : q # p => engine'[q] = engine[q]
    BY <1>2, <2>1, <2>2
  <2>4. file' \in Intel!File /\ (file'.state = engine[p].state \/ file' = Intel!TornFile)
    BY <1>2, <2>1, NothingFacts DEF Intel!Written, Intel!File
  <2>5. Intel!TypeOK'
    BY <1>2, <2>1, <2>3, <2>4 DEF ThreatInv, Intel!TypeOK, Intel!State
  <2>6. Intel!Whole(file'.state) /\ \A q \in Processes : Sound(engine'[q])
    BY <1>2, <2>2, <2>3, <2>4, NothingFacts DEF ThreatInv, Sound
  <2>7. \A q \in Processes : Intel!Up(q)' <=> Intel!Up(q)
    BY <2>1, <2>2, <2>3 DEF Intel!Up
  <2>8. OneUp => OneUp'
    BY <2>7 DEF OneUp
  <2>9. ASSUME OneUp, KeptIsThere
        PROVE  KeptIsThere'
    <3>1. \A q \in Processes : q # p => ~Intel!Up(q)
      BY <2>1, <2>9 DEF OneUp, Intel!Up
    <3>2. file'.state = engine[p].state
      BY <2>1, <3>1 DEF Intel!Written
    <3>3. kept' = engine[p].state.found
      BY <2>1, <2>9 DEF KeptIsThere, Intel!Up
    <3>4. QED
      BY <2>2, <2>3, <2>7, <3>1, <3>2, <3>3 DEF KeptIsThere
  <2>10. QED
    BY <2>1, <2>5, <2>6, <2>8, <2>9 DEF ThreatInv, Sound, Intel!Whole
<1>13. ASSUME NEW p \in Processes, Intel!DumpFails(p)
       PROVE  ThreatInv'
  <2> DEFINE x == [engine[p] EXCEPT !.pc = "up", !.behind = TRUE]
  <2>1. /\ engine[p].pc = "saving" /\ engine' = [engine EXCEPT ![p] = x]
        /\ file' = file \/ file' = Intel!TornFile
        /\ kept' = kept \cup engine[p].state.found
        /\ UNCHANGED <<overlapped, torn>>
    BY <1>2, <1>13 DEF Intel!DumpFails
  <2>2. /\ x \in Intel!Engine /\ x.pc = "up" /\ x.state = engine[p].state
        /\ x.todo = engine[p].todo /\ x.cites = engine[p].cites /\ x.behind
    BY <1>2 DEF Intel!Engine
  <2> HIDE DEF x
  <2>3. /\ engine' \in [Processes -> Intel!Engine]
        /\ engine'[p] = x /\ \A q \in Processes : q # p => engine'[q] = engine[q]
    BY <1>2, <2>1, <2>2
  <2>4. Intel!TypeOK'
    BY <1>2, <2>1, <2>3, NothingFacts DEF ThreatInv, Intel!TypeOK, Intel!State
  <2>5. Intel!Whole(file'.state) /\ \A q \in Processes : Sound(engine'[q])
    BY <1>2, <2>1, <2>2, <2>3, NothingFacts DEF ThreatInv, Sound
  <2>6. \A q \in Processes : Intel!Up(q)' <=> Intel!Up(q)
    BY <2>1, <2>2, <2>3 DEF Intel!Up
  <2>7. OneUp => OneUp'
    BY <2>6 DEF OneUp
  <2>8. ASSUME OneUp, KeptIsThere
        PROVE  KeptIsThere'
    <3>1. \A q \in Processes : Intel!Up(q) => q = p
      BY <2>1, <2>8 DEF OneUp, Intel!Up
    <3>2. kept' = engine[p].state.found
      BY <2>1, <2>8 DEF KeptIsThere, Intel!Up
    <3>3. ~Saved(engine'[p])
      BY <2>2, <2>3 DEF Saved
    <3>4. QED
      BY <2>2, <2>3, <2>6, <3>1, <3>2, <3>3 DEF KeptIsThere
  <2>9. QED
    BY <2>1, <2>4, <2>5, <2>7, <2>8 DEF ThreatInv, Sound, Intel!Whole
<1>14. ASSUME NEW p \in Processes, Intel!Stop(p)
       PROVE  ThreatInv'
  <2>1. /\ engine' = [engine EXCEPT ![p] = Intel!Down]
        /\ torn' = (torn \/ engine[p].pc = "saving" \/ engine[p].behind)
        /\ UNCHANGED <<file, kept, overlapped>>
    BY <1>14 DEF Intel!Stop
  <2>2. /\ engine' \in [Processes -> Intel!Engine]
        /\ engine'[p] = Intel!Down /\ \A q \in Processes : q # p => engine'[q] = engine[q]
    BY <1>2, <2>1, NothingFacts
  <2>3. Intel!TypeOK'
    BY <2>1, <2>2 DEF ThreatInv, Intel!TypeOK
  <2>4. Intel!Whole(file'.state) /\ \A q \in Processes : Sound(engine'[q])
    BY <2>1, <2>2, NothingFacts DEF ThreatInv
  <2>5. \A q \in Processes : Intel!Up(q)' => Intel!Up(q) /\ q # p
    BY <2>2, NothingFacts DEF Intel!Up
  <2>6. OneUp => OneUp'
    BY <2>5 DEF OneUp
  <2>7. ASSUME KeptIsThere, ~torn'
        PROVE  KeptIsThere'
    <3>1. Saved(engine[p])
      BY <1>2, <2>1, <2>7 DEF Saved, Intel!Engine
    <3>2. (\A q \in Processes : Saved(engine'[q])) => \A q \in Processes : Saved(engine[q])
      BY <2>2, <3>1
    <3>3. QED
      BY <2>1, <2>2, <2>5, <2>7, <3>2 DEF KeptIsThere
  <2>8. QED
    BY <2>1, <2>3, <2>4, <2>6, <2>7 DEF ThreatInv, Sound, Intel!Whole
<1>15. ASSUME NEW p \in Processes,
              \/ Intel!Start(p) \/ Intel!CorrelateIndicators(p) \/ Intel!IngestNext(p)
              \/ Intel!IngestReport(p) \/ Intel!Dump(p) \/ Intel!DumpFails(p) \/ Intel!Stop(p)
       PROVE  ThreatInv'
  BY <1>3, <1>5, <1>9, <1>10, <1>12, <1>13, <1>14, <1>15
<1>16. CASE Intel!Next
  <2>1. PICK p \in Processes :
          \/ Intel!Start(p) \/ Intel!CorrelateIndicators(p) \/ Intel!IngestNext(p)
          \/ Intel!IngestReport(p) \/ Intel!Dump(p) \/ Intel!DumpFails(p) \/ Intel!Stop(p)
          \/ \E v \in Values : Intel!AddIndicator(p, v) \/ Intel!LinkIndicator(p, v)
          \/ \E values \in SUBSET Values : Intel!IngestResearch(p, values)
          \/ \E stray \in BOOLEAN :
                Intel!TrackCampaign(p, stray) \/ Intel!GenerateReport(p, stray)
    BY <1>16, Zenon DEF Intel!Next
  <2>2. QED
    BY <1>4, <1>6, <1>7, <1>8, <1>11, <1>15, <2>1
<1>17. QED
  BY <1>1, <1>16

\* As long as engines run one after the other and none goes down inside a save or after one
\* that failed, an indicator that was stored is in the memory of the one that is up; and no
\* ingestion's report in a state that loads cites an indicator it lacks, whatever was
\* overwritten, torn or not saved, for any processes and indicators
\* (real_threat_intel_engine.py:180, :195, :247).
THEOREM IndicatorsKept == Intel!Spec => []OneWriterKeepsAll
<1>1. ThreatInv => OneWriterKeepsAll
  BY DEF ThreatInv, KeptIsThere, OneWriterKeepsAll, Intel!OneWriterKeepsAll, Intel!Loaded
<1>2. QED
  BY ThreatStart, ThreatStep, <1>1, PTL DEF Intel!Spec

-----------------------------------------------------------------------------
(* The start of the replicas *)

Starting == [pc : {"down", "tables", "create", "lookup", "store", "demo", "write", "hooks",
                   "serving", "stopping"},
             conf : Configs \cup {Boot!Down.conf}, todo : SUBSET ApiKeys, adds : SUBSET ApiKeys]

\* What a start has found out by its place: the settings it runs with, the keys that it has
\* seen stored or is about to store, and whether the demonstrations were there.
Prepared(b) ==
    /\ b.pc # "down" => b.conf \in Configs
    /\ b.pc = "store" => Boot!Listed(b.conf) \subseteq b.todo \cup b.adds \cup DOMAIN keys
    /\ b.pc \in {"demo", "write", "hooks", "serving"} => Boot!Listed(b.conf) \subseteq DOMAIN keys
    /\ b.pc \in {"hooks", "serving"} => (b.conf.demo => demo = Boot!Whole)

KeysTyped == keys \in [DOMAIN keys -> Boot!Roles]

BootInv ==
    /\ KeysTyped
    /\ boot \in [Replicas -> Starting]
    /\ \A r \in Replicas : Prepared(boot[r])
    /\ demo \in {{}, Boot!Whole}
    /\ \A k \in revoked : k \in DOMAIN keys /\ keys[k].revoked
    /\ ~answer.late

LEMMA ListedKeys == ASSUME Boot!StartupAssumption, NEW c \in Configs PROVE Boot!Listed(c) \subseteq ApiKeys
<1>1. c \in Boot!Settings /\ DemoKeys \subseteq ApiKeys
  BY DEF Boot!StartupAssumption
<1>2. Boot!Range(c.apiKeys) \subseteq ApiKeys /\ c.services \subseteq ApiKeys
  BY <1>1 DEF Boot!Settings, Boot!Range
<1>3. \/ Boot!Listed(c) = ((Boot!Range(c.apiKeys) \cup c.services) \ DemoKeys) \cup (c.services \cap {Friday})
      \/ Boot!Listed(c) = Boot!Range(c.apiKeys) \cup c.services \cup DemoKeys
      \/ Boot!Listed(c) = Boot!Range(c.apiKeys) \cup c.services
  BY Zenon DEF Boot!Listed
<1>4. QED
  BY <1>1, <1>2, <1>3

LEMMA DownFacts ==
    Boot!Down \in Starting /\ Boot!Down.pc = "down" /\ Prepared(Boot!Down)
<1>1. Boot!Down \in Starting /\ Boot!Down.pc = "down"
  <2> DEFINE c == CHOOSE c \in Configs : TRUE
  <2>1. Boot!Down = [pc |-> "down", conf |-> c, todo |-> {}, adds |-> {}] /\ Boot!Down.conf = c
    BY DEF Boot!Down
  <2> HIDE DEF c
  <2>2. QED
    BY <2>1 DEF Starting
<1>2. QED
  BY <1>1 DEF Prepared

LEMMA StartupStart == Boot!Init => BootInv
<1> SUFFICES ASSUME Boot!Init
             PROVE  BootInv
  OBVIOUS
<1>1. keys = <<>> /\ DOMAIN keys = {} /\ keys \in [DOMAIN keys -> Boot!Roles]
  BY DEF Boot!Init
<1>2. QED
  BY <1>1, DownFacts DEF Boot!Init, BootInv, KeysTyped

\* A start goes on, the tables as they are.
LEMMA BootStep ==
    ASSUME BootInv, NEW r \in Replicas, NEW b \in Starting, Prepared(b),
           boot' = [boot EXCEPT ![r] = b], UNCHANGED <<keys, demo, revoked, answer>>
    PROVE  BootInv'
<1>1. /\ boot' \in [Replicas -> Starting]
      /\ boot'[r] = b /\ \A q \in Replicas : q # r => boot'[q] = boot[q]
  BY DEF BootInv
<1>2. \A q \in Replicas : Prepared(boot[q])'
  BY <1>1 DEF BootInv, Prepared
<1>3. QED
  BY <1>1, <1>2 DEF BootInv, KeysTyped

LEMMA GoToStep ==
    ASSUME BootInv, NEW r \in Replicas,
           NEW pc2 \in {"down", "create", "lookup", "write", "hooks", "serving", "stopping"},
           Boot!GoTo(r, pc2), UNCHANGED <<keys, demo, revoked, answer>>,
           boot[r].pc # "down",
           pc2 \in {"write", "hooks", "serving"} => boot[r].pc \in {"demo", "write", "hooks"},
           pc2 \in {"hooks", "serving"} => (boot[r].conf.demo => demo = Boot!Whole)
    PROVE  BootInv'
<1> DEFINE b == [boot[r] EXCEPT !.pc = pc2]
<1>1. boot[r] \in Starting /\ Prepared(boot[r])
  BY DEF BootInv
<1>2. CASE pc2 = "down"
  <2>1. boot' = [boot EXCEPT ![r] = Boot!Down]
    BY <1>2 DEF Boot!GoTo
  <2>2. QED
    BY <2>1, DownFacts, BootStep
<1>3. CASE pc2 # "down"
  <2>1. boot' = [boot EXCEPT ![r] = b]
    BY <1>3 DEF Boot!GoTo, BootInv
  <2>2. /\ b \in Starting /\ b.pc = pc2 /\ b.conf = boot[r].conf /\ b.todo = boot[r].todo
        /\ b.adds = boot[r].adds
    BY <1>1 DEF Starting
  <2> HIDE DEF b
  <2>3. Prepared(b)
    BY <1>1, <2>2 DEF Prepared
  <2>4. QED
    BY <2>1, <2>2, <2>3, BootStep
<1>4. QED
  BY <1>2, <1>3

\* New keys join the table; what is there stays as it is.
LEMMA StoreKeysStep ==
    ASSUME BootInv, NEW r \in Replicas, Boot!StoreKeys(r)
    PROVE  BootInv'
<1> DEFINE b == [boot[r] EXCEPT !.adds = {}, !.pc = "demo"]
<1>1. /\ boot[r] \in Starting /\ Prepared(boot[r]) /\ boot[r].pc = "store" /\ boot[r].todo = {}
      /\ UNCHANGED <<demo, revoked, answer>>
  BY DEF BootInv, Boot!StoreKeys, Boot!At, Boot!sessionVars
<1>2. CASE boot[r].adds \cap DOMAIN keys = {}
  <2>1. /\ keys' = [k \in DOMAIN keys \cup boot[r].adds |->
                      IF k \in DOMAIN keys THEN keys[k] ELSE Boot!NewRows(r)[k]]
        /\ boot' = [boot EXCEPT ![r] = b]
    BY <1>2 DEF Boot!StoreKeys, BootInv
  <2>2. \A k \in boot[r].adds : Boot!NewRows(r)[k] \in Boot!Roles
    BY DEF Boot!NewRows, Boot!RoleOf, Boot!Roles
  <2>3. DOMAIN keys' = DOMAIN keys \cup boot[r].adds
    BY <2>1
  <2>4. \A k \in DOMAIN keys : keys'[k] = keys[k]
    BY <2>1
  <2>5. KeysTyped'
    <3>1. \A k \in DOMAIN keys : keys[k] \in Boot!Roles
      BY DEF BootInv, KeysTyped
    <3>2. keys' \in [DOMAIN keys \cup boot[r].adds -> Boot!Roles]
      BY <2>1, <2>2, <3>1
    <3>3. QED
      BY <2>3, <3>2 DEF KeysTyped
  <2>6. /\ b \in Starting /\ b.pc = "demo" /\ b.conf = boot[r].conf
    BY <1>1 DEF Starting
  <2> HIDE DEF b
  <2>7. /\ boot' \in [Replicas -> Starting]
        /\ boot'[r] = b /\ \A q \in Replicas : q # r => boot'[q] = boot[q]
    BY <2>1, <2>6 DEF BootInv
  <2>8. Prepared(boot[r])'
    <3>1. Boot!Listed(boot[r].conf) \subseteq DOMAIN keys'
      BY <1>1, <2>3 DEF Prepared
    <3>2. QED
      BY <1>1, <2>6, <2>7, <3>1 DEF Prepared
  <2>9. ASSUME NEW q \in Replicas, q # r
        PROVE  Prepared(boot[q])'
    <3>1. Prepared(boot[q]) /\ boot'[q] = boot[q]
      BY <2>7, <2>9 DEF BootInv
    <3>2. QED
      BY <1>1, <2>3, <3>1 DEF Prepared
  <2>10. \A k \in revoked' : k \in DOMAIN keys' /\ keys'[k].revoked
    BY <1>1, <2>3, <2>4 DEF BootInv
  <2>11. QED
    BY <1>1, <2>5, <2>7, <2>8, <2>9, <2>10 DEF BootInv
<1>3. CASE boot[r].adds \cap DOMAIN keys # {}
  <2>1. Boot!GoTo(r, "down") /\ UNCHANGED keys
    BY <1>3 DEF Boot!StoreKeys
  <2>2. QED
    BY <1>1, <2>1, GoToStep
<1>4. QED
  BY <1>2, <1>3

LEMMA WriteDemoStep ==
    ASSUME BootInv, NEW r \in Replicas, Boot!WriteDemo(r)
    PROVE  BootInv'
<1> DEFINE b == [boot[r] EXCEPT !.pc = "hooks"]
<1>1. /\ boot[r] \in Starting /\ Prepared(boot[r]) /\ boot[r].pc = "write"
      /\ UNCHANGED <<keys, revoked, answer>>
  BY DEF BootInv, Boot!WriteDemo, Boot!At, Boot!sessionVars
<1>2. CASE demo' = Boot!Whole /\ demo = {} /\ Boot!GoTo(r, "hooks")
  <2>1. boot' = [boot EXCEPT ![r] = b]
    BY <1>2 DEF Boot!GoTo, BootInv
  <2>2. b \in Starting /\ b.pc = "hooks" /\ b.conf = boot[r].conf
    BY <1>1 DEF Starting
  <2> HIDE DEF b
  <2>3. /\ boot' \in [Replicas -> Starting]
        /\ boot'[r] = b /\ \A q \in Replicas : q # r => boot'[q] = boot[q]
    BY <2>1, <2>2 DEF BootInv
  <2>4. Prepared(boot[r])'
    BY <1>1, <1>2, <2>2, <2>3 DEF Prepared
  <2>5. ASSUME NEW q \in Replicas, q # r
        PROVE  Prepared(boot[q])'
    <3>1. Prepared(boot[q]) /\ boot'[q] = boot[q]
      BY <2>3, <2>5 DEF BootInv
    <3>2. QED
      BY <1>1, <1>2, <3>1 DEF Prepared
  <2>6. QED
    BY <1>1, <1>2, <2>3, <2>4, <2>5 DEF BootInv, KeysTyped
<1>3. CASE UNCHANGED demo /\ Boot!GoTo(r, "down")
  BY <1>1, <1>3, GoToStep
<1>4. QED
  BY <1>2, <1>3 DEF Boot!WriteDemo

LEMMA StartupStep ==
    ASSUME Boot!StartupAssumption, BootInv, [Boot!Next]_(Boot!startupVars)
    PROVE  BootInv'
<1> USE DEF Boot!databaseVars, Boot!sessionVars
<1>1. CASE UNCHANGED Boot!startupVars
  BY <1>1 DEF BootInv, KeysTyped, Prepared, Boot!startupVars
<1>2. ASSUME NEW r \in Replicas
      PROVE  boot[r] \in Starting /\ Prepared(boot[r])
  BY DEF BootInv
<1>3. ASSUME NEW r \in Replicas, NEW c \in Configs, Boot!Start(r, c)
      PROVE  BootInv'
  <2> DEFINE b == IF Boot!DatabaseAccepted(c) THEN [Boot!Down EXCEPT !.pc = "tables", !.conf = c] ELSE Boot!Down
  <2>1. boot' = [boot EXCEPT ![r] = b] /\ UNCHANGED <<keys, demo, revoked, answer>>
    BY <1>3 DEF Boot!Start
  <2>2. b \in Starting /\ Prepared(b)
    <3>1. CASE Boot!DatabaseAccepted(c)
      <4>1. b = [Boot!Down EXCEPT !.pc = "tables", !.conf = c]
        BY <3>1
      <4>2. b \in Starting /\ b.pc = "tables" /\ b.conf = c
        BY <4>1, DownFacts DEF Starting
      <4>3. QED
        BY <4>2 DEF Prepared
    <3>2. CASE ~Boot!DatabaseAccepted(c)
      BY <3>2, DownFacts
    <3>3. QED
      BY <3>1, <3>2
  <2> HIDE DEF b
  <2>3. QED
    BY <2>1, <2>2, BootStep
<1>4. ASSUME NEW r \in Replicas, Boot!LookAtTables(r)
      PROVE  BootInv'
  <2>1. CASE tables
    BY <1>4, <2>1, GoToStep DEF Boot!LookAtTables, Boot!At
  <2>2. CASE ~tables
    BY <1>4, <2>2, GoToStep DEF Boot!LookAtTables, Boot!At
  <2>3. QED
    BY <2>1, <2>2
<1>5. ASSUME NEW r \in Replicas, Boot!CreateTables(r)
      PROVE  BootInv'
  <2>1. CASE tables
    BY <1>5, <2>1, GoToStep DEF Boot!CreateTables, Boot!At
  <2>2. CASE ~tables
    BY <1>5, <2>2, GoToStep DEF Boot!CreateTables, Boot!At
  <2>3. QED
    BY <2>1, <2>2
<1>6. ASSUME NEW r \in Replicas, Boot!BeginKeys(r)
      PROVE  BootInv'
  <2> DEFINE b == [boot[r] EXCEPT !.todo = Boot!Listed(boot[r].conf), !.pc = "store"]
  <2>1. boot[r].pc = "lookup" /\ UNCHANGED <<keys, demo, revoked, answer>>
    BY <1>6 DEF Boot!BeginKeys, Boot!At
  <2>2. CASE Boot!Secure(boot[r].conf)
    <3>1. boot' = [boot EXCEPT ![r] = b]
      BY <1>6, <2>2 DEF Boot!BeginKeys, BootInv
    <3>2. Boot!Listed(boot[r].conf) \in SUBSET ApiKeys
      BY <1>2, <2>1, ListedKeys DEF Prepared
    <3>3. /\ b \in Starting /\ b.pc = "store" /\ b.conf = boot[r].conf
          /\ b.todo = Boot!Listed(boot[r].conf)
      BY <1>2, <3>2 DEF Starting
    <3> HIDE DEF b
    <3>4. Prepared(b)
      BY <1>2, <2>1, <3>3 DEF Prepared
    <3>5. QED
      BY <2>1, <3>1, <3>3, <3>4, BootStep
  <2>3. CASE ~Boot!Secure(boot[r].conf)
    BY <1>6, <2>1, <2>3, GoToStep DEF Boot!BeginKeys
  <2>4. QED
    BY <2>2, <2>3
<1>7. ASSUME NEW r \in Replicas, Boot!LookUpKey(r)
      PROVE  BootInv'
  <2>1. boot[r].pc = "store" /\ UNCHANGED <<keys, demo, revoked, answer>>
    BY <1>7 DEF Boot!LookUpKey, Boot!At
  <2>2. PICK k \in boot[r].todo :
          boot' = [boot EXCEPT ![r].todo = @ \ {k},
                               ![r].adds = IF k \in DOMAIN keys THEN @ ELSE @ \cup {k}]
    BY <1>7 DEF Boot!LookUpKey
  <2> DEFINE more == IF k \in DOMAIN keys THEN boot[r].adds ELSE boot[r].adds \cup {k}
             b == [boot[r] EXCEPT !.todo = @ \ {k}, !.adds = more]
  <2>3. boot' = [boot EXCEPT ![r] = b]
    BY <2>2 DEF BootInv
  <2>4. more \in SUBSET ApiKeys /\ boot[r].todo \ {k} \in SUBSET ApiKeys
    BY <1>2 DEF Starting
  <2>5. \A j \in boot[r].adds \cup {k} : j \in more \cup DOMAIN keys
    OBVIOUS
  <2> HIDE DEF more
  <2>6. /\ b \in Starting /\ b.pc = "store" /\ b.conf = boot[r].conf
        /\ b.todo = boot[r].todo \ {k} /\ b.adds = more
    BY <1>2, <2>1, <2>4 DEF Starting
  <2> HIDE DEF b
  <2>7. Prepared(b)
    BY <1>2, <2>1, <2>5, <2>6 DEF Prepared
  <2>8. QED
    BY <2>1, <2>3, <2>6, <2>7, BootStep
<1>8. ASSUME NEW r \in Replicas, Boot!LookForDemo(r)
      PROVE  BootInv'
  <2>1. boot[r].pc = "demo" /\ UNCHANGED <<keys, demo, revoked, answer>>
    BY <1>8 DEF Boot!LookForDemo, Boot!At
  <2>2. CASE boot[r].conf.demo /\ 1 \notin demo
    <3>1. Boot!GoTo(r, "write")
      BY <1>8, <2>2 DEF Boot!LookForDemo
    <3>2. QED
      BY <2>1, <3>1, GoToStep
  <2>3. CASE ~(boot[r].conf.demo /\ 1 \notin demo)
    <3>1. Boot!GoTo(r, "hooks")
      BY <1>8, <2>3 DEF Boot!LookForDemo
    <3>2. boot[r].conf.demo => demo = Boot!Whole
      BY <2>3 DEF BootInv
    <3>3. QED
      BY <2>1, <3>1, <3>2, GoToStep
  <2>4. QED
    BY <2>2, <2>3
<1>9. ASSUME NEW r \in Replicas, Boot!StartHooks(r)
      PROVE  BootInv'
  <2>1. /\ boot[r].pc = "hooks" /\ UNCHANGED <<keys, demo, revoked, answer>>
        /\ Boot!GoTo(r, "serving")
    BY <1>9 DEF Boot!StartHooks, Boot!At
  <2>2. boot[r].conf.demo => demo = Boot!Whole
    BY <1>2, <2>1 DEF Prepared
  <2>3. QED
    BY <2>1, <2>2, GoToStep
<1>10. ASSUME NEW r \in Replicas, Boot!Terminate(r)
       PROVE  BootInv'
  BY <1>10, GoToStep DEF Boot!Terminate, Boot!At
<1>11. ASSUME NEW r \in Replicas, Boot!Exit(r) \/ Boot!Crash(r)
       PROVE  BootInv'
  BY <1>11, GoToStep DEF Boot!Exit, Boot!Crash, Boot!At
<1>12. ASSUME NEW r \in Replicas, Boot!StopHook(r)
       PROVE  BootInv'
  BY <1>12 DEF Boot!StopHook, BootInv, KeysTyped, Prepared
<1>13. ASSUME NEW k, NEW status \in {"429", Boot!Judged(k, TRUE), Boot!Judged(k, FALSE)}, Boot!Reply(k, status),
              UNCHANGED <<keys, demo, boot, revoked>>
       PROVE  BootInv'
  <2>1. ~(status = "ok" /\ k \in revoked)
    BY <1>13 DEF Boot!Judged, BootInv
  <2>2. ~answer'.late
    BY <1>13, <2>1 DEF Boot!Reply
  <2>3. QED
    BY <1>13, <2>2 DEF BootInv, KeysTyped, Prepared
<1>14. ASSUME NEW r \in Replicas, NEW k \in ApiKeys, NEW cookie \in BOOLEAN, Boot!Request(r, k, cookie)
       PROVE  BootInv'
  <2>1. PICK status \in {"429", Boot!Judged(k, cookie)} : Boot!Reply(k, status)
    BY <1>14 DEF Boot!Request
  <2>2. UNCHANGED <<keys, demo, boot, revoked>>
    BY <1>14 DEF Boot!Request
  <2>3. Boot!Judged(k, cookie) = Boot!Judged(k, TRUE)
    BY DEF Boot!Judged
  <2>4. QED
    BY <1>13, <2>1, <2>2, <2>3
<1>15. ASSUME NEW r \in Replicas, NEW k \in ApiKeys, Boot!Browse(r, k)
       PROVE  BootInv'
  BY <1>13, <1>15 DEF Boot!Browse
<1>16. ASSUME UNCHANGED <<keys, demo, boot, revoked, answer>>
       PROVE  BootInv'
  BY <1>16 DEF BootInv, KeysTyped, Prepared
<1>17. ASSUME NEW k \in ApiKeys, Boot!Revoke(k)
       PROVE  BootInv'
  <2>1. /\ k \in DOMAIN keys /\ keys' = [keys EXCEPT ![k].revoked = TRUE]
        /\ revoked' = revoked \cup {k} /\ UNCHANGED <<demo, boot, answer>>
    BY <1>17 DEF Boot!Revoke
  <2>2. keys \in [DOMAIN keys -> Boot!Roles] /\ keys[k] \in Boot!Roles
    BY <2>1 DEF BootInv, KeysTyped
  <2>3. /\ DOMAIN keys' = DOMAIN keys /\ keys'[k] = [keys[k] EXCEPT !.revoked = TRUE]
        /\ \A j \in DOMAIN keys : j # k => keys'[j] = keys[j]
    BY <2>1, <2>2
  <2>4. keys'[k] \in Boot!Roles /\ keys'[k].revoked
    BY <2>2, <2>3 DEF Boot!Roles
  <2>5. KeysTyped'
    <3>1. keys' \in [DOMAIN keys -> Boot!Roles]
      BY <2>1, <2>2, <2>3, <2>4
    <3>2. QED
      BY <2>3, <3>1 DEF KeysTyped
  <2>6. \A q \in Replicas : Prepared(boot[q])'
    BY <2>1, <2>3 DEF BootInv, Prepared
  <2>7. \A j \in revoked' : j \in DOMAIN keys' /\ keys'[j].revoked
    BY <2>1, <2>3, <2>4 DEF BootInv
  <2>8. QED
    BY <2>1, <2>5, <2>6, <2>7 DEF BootInv
<1>18. CASE Boot!EndSession
  BY <1>16, <1>18 DEF Boot!EndSession
<1>19. ASSUME NEW r \in Replicas, NEW k \in ApiKeys, Boot!Login(r, k)
       PROVE  BootInv'
  BY <1>16, <1>19 DEF Boot!Login
<1>20. QED
  BY <1>1, <1>3, <1>4, <1>5, <1>6, <1>7, <1>8, <1>9, <1>10, <1>11, <1>12, <1>14, <1>15, <1>17,
     <1>18, <1>19, StoreKeysStep, WriteDemoStep DEF Boot!Next

\* A revoked key stays revoked through every later start and lets nobody in, by header or by
\* cookie, for any replicas, settings, keys and races of starts (core/auth.py:372).
THEOREM RevokedForGood == Boot!Spec => []RevocationLasts
<1>1. Boot!StartupAssumption
  BY DeskAssumption
<1>2. BootInv /\ [Boot!Next]_(Boot!startupVars) => BootInv'
  BY <1>1, StartupStep
<1>3. BootInv => RevocationLasts
  BY DEF BootInv, RevocationLasts, Boot!RevocationLasts
<1>4. QED
  BY <1>2, <1>3, StartupStart, PTL DEF Boot!Spec

\* A replica that serves finds its keys stored and the demonstrations complete, whoever else
\* starts, loses a race or dies half way (app/lifespan.py:156).
THEOREM ServedSeeded == Boot!Spec => []ServingIsSeeded
<1>1. Boot!StartupAssumption
  BY DeskAssumption
<1>2. BootInv /\ [Boot!Next]_(Boot!startupVars) => BootInv'
  BY <1>1, StartupStep
<1>3. BootInv => ServingIsSeeded
  BY DEF BootInv, Prepared, ServingIsSeeded, Boot!ServingIsSeeded, Boot!At
<1>4. QED
  BY <1>2, <1>3, StartupStart, PTL DEF Boot!Spec


-----------------------------------------------------------------------------
(* Grounded investigations *)

\* What a report that can be read promises.
Supported(r) ==
    /\ \A f \in r.findings : f.quote = f.source /\ f.source \in r.picked \ r.excluded
    /\ r.status = "ok" <=> r.findings # {}
    /\ r.status = "engines_unreachable" <=> ~r.answered

\* What an inquiry has at hand before it concludes: the sentences of what it could read, and
\* nothing before it read.
AtHand(r) ==
    /\ r.pc \in {"new", "search", "filter", "fetch"} => r.findings = {}
    /\ r.pc \in {"filter", "fetch", "summarize"} => r.answered
    /\ r.pc = "summarize" =>
         /\ r.readable # {} /\ r.readable \subseteq r.picked \ r.excluded
         /\ r.findings = {[source |-> s, quote |-> s] : s \in r.readable}

InquiryInv ==
    /\ Inquire!TypeOK
    /\ \A i \in Inquiries :
         /\ AtHand(inquiry[i])
         /\ inquiry[i].pc \in {"save", "done"} => Supported(inquiry[i])
         /\ files[i] = "whole" => inquiry[i].pc = "done"

LEMMA InquiryStart == Inquire!Init => InquiryInv
  BY DEF Inquire!Init, InquiryInv, Inquire!TypeOK, Inquire!Blank, Inquire!Inquiry, AtHand

\* One inquiry takes a step of its own.
LEMMA BecomeKeeps ==
    ASSUME InquiryInv, NEW i \in Inquiries, NEW x \in Inquire!Inquiry, Inquire!Become(i, x),
           inquiry[i].pc \notin {"done", "gone"}, AtHand(x),
           x.pc \in {"save", "done"} => Supported(x)
    PROVE  InquiryInv'
<1>1. /\ inquiry' = [inquiry EXCEPT ![i] = x] /\ UNCHANGED <<model, files>>
  BY DEF Inquire!Become
<1>2. Inquire!TypeOK'
  BY <1>1 DEF InquiryInv, Inquire!TypeOK
<1>3. ASSUME NEW j \in Inquiries
      PROVE  /\ AtHand(inquiry'[j])
             /\ inquiry'[j].pc \in {"save", "done"} => Supported(inquiry'[j])
             /\ files'[j] = "whole" => inquiry'[j].pc = "done"
  <2>1. CASE j = i
    BY <1>1, <2>1 DEF InquiryInv, Inquire!TypeOK
  <2>2. CASE j # i
    BY <1>1, <2>2 DEF InquiryInv, Inquire!TypeOK
  <2>3. QED
    BY <2>1, <2>2
<1>4. QED
  BY <1>2, <1>3 DEF InquiryInv

\* Without a finding a report claims anything but success.
LEMMA EmptyHanded ==
    ASSUME NEW x \in Inquire!Inquiry, x.findings = {},
           NEW status \in {"engines_unreachable", "no_results", "nothing_relevant",
                           "nothing_readable"},
           status = "engines_unreachable" <=> ~x.answered
    PROVE  /\ Inquire!Conclude(x, status) \in Inquire!Inquiry /\ AtHand(Inquire!Conclude(x, status))
           /\ Supported(Inquire!Conclude(x, status))
<1>1. /\ Inquire!Conclude(x, status) \in Inquire!Inquiry /\ Inquire!Conclude(x, status).pc = "save"
      /\ Inquire!Conclude(x, status).status = status /\ Inquire!Conclude(x, status).findings = {}
      /\ Inquire!Conclude(x, status).answered = x.answered
  BY DEF Inquire!Conclude, Inquire!Inquiry
<1>2. QED
  BY <1>1 DEF AtHand, Supported

LEMMA SearchKeeps == ASSUME InquiryInv, NEW i \in Inquiries, Inquire!Search(i) PROVE InquiryInv'
<1>1. inquiry[i] \in Inquire!Inquiry /\ inquiry[i].pc = "search" /\ inquiry[i].findings = {}
  BY DEF InquiryInv, Inquire!TypeOK, AtHand, Inquire!Search
<1>2. PICK ok \in SUBSET Engines, empty \in SUBSET Engines, hits \in SUBSET Sites :
        /\ ok \cap empty = {}
        /\ hits # {} => ok # {}
        /\ LET x == [inquiry[i] EXCEPT !.answered = (ok \cup empty # {}), !.hits = hits]
           IN Inquire!Become(i, IF hits # {} THEN [x EXCEPT !.pc = "filter"]
                        ELSE Inquire!Conclude(x, IF x.answered THEN "no_results"
                                         ELSE "engines_unreachable"))
  BY DEF Inquire!Search
<1> DEFINE some == (ok \cup empty # {})
           x == [inquiry[i] EXCEPT !.answered = some, !.hits = hits]
<1>3. some \in BOOLEAN
  OBVIOUS
<1>4. x \in Inquire!Inquiry /\ x.findings = {} /\ x.answered = some /\ x.hits = hits /\ x.pc = "search"
  BY <1>1, <1>3 DEF Inquire!Inquiry
<1>5. CASE hits # {}
  <2> DEFINE y == [x EXCEPT !.pc = "filter"]
  <2>1. y \in Inquire!Inquiry /\ y.pc = "filter" /\ y.findings = {} /\ y.answered
    BY <1>2, <1>4, <1>5 DEF Inquire!Inquiry
  <2>2. AtHand(y)
    BY <2>1 DEF AtHand
  <2>3. Inquire!Become(i, y)
    BY <1>2, <1>5
  <2> HIDE DEF y
  <2>4. QED
    BY <1>1, <2>1, <2>2, <2>3, BecomeKeeps
<1>6. CASE hits = {}
  <2> DEFINE status == IF x.answered THEN "no_results" ELSE "engines_unreachable"
  <2>1. Inquire!Become(i, Inquire!Conclude(x, status))
    BY <1>2, <1>6
  <2>2. /\ status \in {"engines_unreachable", "no_results", "nothing_relevant",
                       "nothing_readable"}
        /\ status = "engines_unreachable" <=> ~x.answered
    OBVIOUS
  <2> HIDE DEF x, status
  <2>3. QED
    BY <1>1, <1>4, <2>1, <2>2, EmptyHanded, BecomeKeeps
<1>7. QED
  BY <1>5, <1>6

LEMMA FilterKeeps == ASSUME InquiryInv, NEW i \in Inquiries, Inquire!Filter(i) PROVE InquiryInv'
<1>1. /\ inquiry[i] \in Inquire!Inquiry /\ inquiry[i].pc = "filter" /\ inquiry[i].findings = {}
      /\ inquiry[i].answered
  BY DEF InquiryInv, Inquire!TypeOK, AtHand, Inquire!Filter
<1>2. PICK picked \in SUBSET inquiry[i].hits :
        LET x == [inquiry[i] EXCEPT !.picked = picked]
        IN Inquire!Become(i, IF picked = {} THEN Inquire!Conclude(x, "nothing_relevant")
                     ELSE [x EXCEPT !.pc = "fetch"])
  BY DEF Inquire!Filter
<1> DEFINE x == [inquiry[i] EXCEPT !.picked = picked]
<1>3. x \in Inquire!Inquiry /\ x.findings = {} /\ x.answered
  BY <1>1 DEF Inquire!Inquiry
<1>4. CASE picked = {}
  <2>1. Inquire!Become(i, Inquire!Conclude(x, "nothing_relevant"))
    BY <1>2, <1>4
  <2> HIDE DEF x
  <2>2. QED
    BY <1>1, <1>3, <2>1, EmptyHanded, BecomeKeeps
<1>5. CASE picked # {}
  <2> DEFINE y == [x EXCEPT !.pc = "fetch"]
  <2>1. y \in Inquire!Inquiry /\ y.pc = "fetch" /\ y.findings = {} /\ y.answered
    BY <1>3 DEF Inquire!Inquiry
  <2>2. AtHand(y)
    BY <2>1 DEF AtHand
  <2>3. Inquire!Become(i, y)
    BY <1>2, <1>5
  <2> HIDE DEF y
  <2>4. QED
    BY <1>1, <2>1, <2>2, <2>3, BecomeKeeps
<1>6. QED
  BY <1>4, <1>5

LEMMA FetchKeeps == ASSUME InquiryInv, NEW i \in Inquiries, Inquire!Fetch(i) PROVE InquiryInv'
<1>1. /\ inquiry[i] \in Inquire!Inquiry /\ inquiry[i].pc = "fetch" /\ inquiry[i].findings = {}
      /\ inquiry[i].answered /\ inquiry[i].picked \subseteq Sites
  BY DEF InquiryInv, Inquire!TypeOK, AtHand, Inquire!Fetch, Inquire!Inquiry
<1>2. PICK reached \in [inquiry[i].picked -> Inquire!Reached],
           text \in [inquiry[i].picked -> {"plain", "prohibited", "none"}] :
        LET readable == Inquire!Readable(reached, text)
            x == [inquiry[i] EXCEPT
                    !.readable = readable,
                    !.excluded = {s \in DOMAIN reached : text[s] = "prohibited"},
                    !.findings = {[source |-> s, quote |-> s] : s \in readable}]
        IN Inquire!Become(i, IF readable = {} THEN Inquire!Conclude(x, "nothing_readable")
                     ELSE [x EXCEPT !.pc = "summarize"])
  BY DEF Inquire!Fetch
<1> DEFINE readable == Inquire!Readable(reached, text)
           excluded == {s \in DOMAIN reached : text[s] = "prohibited"}
           seen == {[source |-> s, quote |-> s] : s \in readable}
           x == [inquiry[i] EXCEPT !.readable = readable, !.excluded = excluded,
                                   !.findings = seen]
<1>3. /\ readable \subseteq inquiry[i].picked \ excluded
      /\ excluded \in SUBSET Sites /\ readable \in SUBSET Sites
  BY <1>1 DEF Inquire!Readable
<1>4. seen \in SUBSET Inquire!Quotes
  BY <1>3 DEF Inquire!Quotes, Inquire!Texts
<1>5. seen = {} <=> readable = {}
  OBVIOUS
<1>6. Inquire!Become(i, IF readable = {} THEN Inquire!Conclude(x, "nothing_readable")
                ELSE [x EXCEPT !.pc = "summarize"])
  BY <1>2
<1> HIDE DEF readable, excluded
<1>7. CASE readable = {}
  <2>1. seen = {}
    BY <1>5, <1>7
  <2> HIDE DEF seen
  <2>2. x \in Inquire!Inquiry /\ x.findings = {} /\ x.answered
    BY <1>1, <1>3, <1>4, <2>1 DEF Inquire!Inquiry
  <2>3. Inquire!Become(i, Inquire!Conclude(x, "nothing_readable"))
    BY <1>6, <1>7
  <2> HIDE DEF x
  <2>4. QED
    BY <1>1, <2>2, <2>3, EmptyHanded, BecomeKeeps
<1>8. CASE readable # {}
  <2> DEFINE y == [x EXCEPT !.pc = "summarize"]
  <2>1. Inquire!Become(i, y)
    BY <1>6, <1>8
  <2>2. y.findings = seen /\ y.readable = readable
    <3> HIDE DEF seen
    <3>1. QED
      BY <1>1 DEF Inquire!Inquiry
  <2>3. /\ y \in Inquire!Inquiry /\ y.pc = "summarize" /\ y.answered
        /\ y.excluded = excluded /\ y.picked = inquiry[i].picked
    <3> HIDE DEF seen
    <3>1. QED
      BY <1>1, <1>3, <1>4 DEF Inquire!Inquiry
  <2> HIDE DEF y
  <2>4. AtHand(y)
    BY <1>3, <1>8, <2>2, <2>3 DEF AtHand
  <2>5. QED
    BY <1>1, <2>1, <2>3, <2>4, BecomeKeeps
<1>9. QED
  BY <1>7, <1>8

LEMMA ProposeKeeps == ASSUME InquiryInv, NEW i \in Inquiries, Inquire!Propose(i) PROVE InquiryInv'
<1> DEFINE r == inquiry[i]
<1>1. /\ r \in Inquire!Inquiry /\ r.pc = "summarize" /\ r.answered
      /\ r.readable # {} /\ r.readable \subseteq r.picked \ r.excluded
      /\ r.findings = {[source |-> s, quote |-> s] : s \in r.readable}
  BY DEF InquiryInv, Inquire!TypeOK, AtHand, Inquire!Propose
<1>2. PICK proposed \in SUBSET Inquire!Quotes :
        LET accepted == /\ proposed # {}
                        /\ \A f \in proposed : /\ f.source \in r.readable
                                               /\ f.quote = f.source
        IN Inquire!Become(i, Inquire!Conclude([r EXCEPT !.findings = IF accepted THEN proposed ELSE @], "ok"))
  BY DEF Inquire!Propose
<1> DEFINE accepted == /\ proposed # {}
                       /\ \A f \in proposed : /\ f.source \in r.readable
                                              /\ f.quote = f.source
           seen == IF accepted THEN proposed ELSE r.findings
           y == Inquire!Conclude([r EXCEPT !.findings = seen], "ok")
<1>3. Inquire!Become(i, y)
  BY <1>2
<1>4. /\ seen # {} /\ seen \in SUBSET Inquire!Quotes
      /\ \A f \in seen : f.quote = f.source /\ f.source \in r.picked \ r.excluded
  <2>1. CASE accepted
    BY <1>1, <2>1
  <2>2. CASE ~accepted
    <3>1. seen = {[source |-> s, quote |-> s] : s \in r.readable}
      BY <1>1, <2>2
    <3>2. seen \in SUBSET Inquire!Quotes
      BY <1>1, <2>2 DEF Inquire!Inquiry
    <3> HIDE DEF seen
    <3>3. seen # {}
      BY <1>1, <3>1, Zenon
    <3>4. \A f \in seen : f.quote = f.source /\ f.source \in r.picked \ r.excluded
      BY <1>1, <3>1
    <3>5. QED
      BY <3>2, <3>3, <3>4
  <2>3. QED
    BY <2>1, <2>2
<1> HIDE DEF seen
<1>5. /\ y \in Inquire!Inquiry /\ y.pc = "save" /\ y.status = "ok" /\ y.answered /\ y.findings = seen
      /\ y.picked = r.picked /\ y.excluded = r.excluded
  BY <1>1, <1>4 DEF Inquire!Inquiry, Inquire!Conclude
<1> HIDE DEF y
<1>6. Supported(y) /\ AtHand(y)
  BY <1>4, <1>5 DEF Supported, AtHand
<1>7. QED
  BY <1>1, <1>3, <1>5, <1>6, BecomeKeeps

LEMMA InquiryStep == InquiryInv /\ [Inquire!Next]_(Inquire!groundedVars) => InquiryInv'
<1> SUFFICES ASSUME InquiryInv, [Inquire!Next]_(Inquire!groundedVars)
             PROVE  InquiryInv'
  OBVIOUS
<1>1. CASE UNCHANGED Inquire!groundedVars
  BY <1>1 DEF Inquire!groundedVars, InquiryInv, Inquire!TypeOK
<1>2. ASSUME NEW i \in Inquiries, Inquire!Refine(i)
      PROVE  InquiryInv'
  <2> DEFINE y == [inquiry[i] EXCEPT !.pc = "search"]
  <2>1. inquiry[i] \in Inquire!Inquiry /\ inquiry[i].pc = "new" /\ inquiry[i].findings = {} /\ Inquire!Become(i, y)
    BY <1>2 DEF InquiryInv, Inquire!TypeOK, AtHand, Inquire!Refine
  <2>2. y \in Inquire!Inquiry /\ y.pc = "search" /\ y.findings = {}
    BY <2>1 DEF Inquire!Inquiry
  <2> HIDE DEF y
  <2>3. AtHand(y)
    BY <2>2 DEF AtHand
  <2>4. QED
    BY <2>1, <2>2, <2>3, BecomeKeeps
<1>3. ASSUME NEW i \in Inquiries, Inquire!Create(i)
      PROVE  InquiryInv'
  BY <1>3 DEF InquiryInv, Inquire!TypeOK, Inquire!Create
<1>4. ASSUME NEW i \in Inquiries, Inquire!Fill(i)
      PROVE  InquiryInv'
  <2> DEFINE y == [inquiry[i] EXCEPT !.pc = "done"]
  <2>1. /\ inquiry[i] \in Inquire!Inquiry /\ inquiry[i].pc = "save" /\ Supported(inquiry[i])
        /\ inquiry' = [inquiry EXCEPT ![i] = y]
        /\ files' = [files EXCEPT ![i] = "whole"] /\ UNCHANGED model
    BY <1>4 DEF InquiryInv, Inquire!TypeOK, Inquire!Fill
  <2>2. /\ y \in Inquire!Inquiry /\ y.pc = "done" /\ y.findings = inquiry[i].findings
        /\ y.picked = inquiry[i].picked /\ y.excluded = inquiry[i].excluded
        /\ y.status = inquiry[i].status /\ y.answered = inquiry[i].answered
    BY <2>1 DEF Inquire!Inquiry
  <2> HIDE DEF y
  <2>3. Supported(y) /\ AtHand(y)
    BY <2>1, <2>2 DEF Supported, AtHand
  <2>4. Inquire!TypeOK'
    BY <2>1, <2>2 DEF InquiryInv, Inquire!TypeOK
  <2>5. ASSUME NEW j \in Inquiries
        PROVE  /\ AtHand(inquiry'[j])
               /\ inquiry'[j].pc \in {"save", "done"} => Supported(inquiry'[j])
               /\ files'[j] = "whole" => inquiry'[j].pc = "done"
    <3>1. CASE j = i
      BY <2>1, <2>2, <2>3, <3>1 DEF InquiryInv, Inquire!TypeOK
    <3>2. CASE j # i
      BY <2>1, <3>2 DEF InquiryInv, Inquire!TypeOK
    <3>3. QED
      BY <3>1, <3>2
  <2>6. QED
    BY <2>4, <2>5 DEF InquiryInv
<1>5. ASSUME NEW i \in Inquiries, Inquire!Crash(i)
      PROVE  InquiryInv'
  <2> DEFINE y == [inquiry[i] EXCEPT !.pc = "gone"]
  <2>1. inquiry[i] \in Inquire!Inquiry /\ inquiry[i].pc \notin {"done", "gone"} /\ Inquire!Become(i, y)
    BY <1>5 DEF InquiryInv, Inquire!TypeOK, Inquire!Crash
  <2>2. y \in Inquire!Inquiry /\ y.pc = "gone"
    BY <2>1 DEF Inquire!Inquiry
  <2> HIDE DEF y
  <2>3. AtHand(y)
    BY <2>2 DEF AtHand
  <2>4. QED
    BY <2>1, <2>2, <2>3, BecomeKeeps
<1>6. QED
  BY <1>1, <1>2, <1>3, <1>4, <1>5, SearchKeeps, FilterKeeps, FetchKeeps, ProposeKeeps DEF Inquire!Next

\* In every report that can be read each finding quotes the page it cites, which was fetched
\* and holds nothing excluded, and success is claimed exactly with findings, for any engines,
\* sites and answers of a model, and a crash at any step
\* (real_grounded_investigation.py:271, :407).
THEOREM FindingsGrounded == Inquire!Spec => []ReportsAreGrounded
<1>1. InquiryInv => ReportsAreGrounded
  BY DEF InquiryInv, Supported, ReportsAreGrounded, Inquire!ReportsAreGrounded, Inquire!History
<1>2. QED
  BY <1>1, InquiryStart, InquiryStep, PTL DEF Inquire!Spec

-----------------------------------------------------------------------------
(* Staged investigations *)

\* The fields of requests and sessions; what the model chose stays opaque.
Requested(r, n) ==
    /\ r \in [pc : {"idle", "refine", "search", "filter", "filtering", "scrape", "scraping",
                   "analyze", "save"},
             chain : BOOLEAN, sid : 0 .. n, count : {r.count}, ids : {r.ids},
             status : {r.status}]
    /\ r.pc = "idle" => ~r.chain
    /\ r.pc \in {"idle", "refine", "search"} => r.sid = 0
    /\ r.pc \in {"filter", "filtering", "scrape", "scraping"} => r.sid > 0

Held(s) ==
    /\ sessions[s] \in [results : {sessions[s].results}, filtered : {sessions[s].filtered},
                       sources : {sessions[s].sources}]
    /\ Staged!ToSet(sessions[s].filtered) \subseteq shown[s]
    /\ sessions[s].sources \subseteq shown[s]

\* What is about to be scraped was picked, and a chain that is about to scrape finds what it
\* picked in its session.
Fetchable(c) ==
    /\ asked[c].pc = "scraping" => Staged!ToSet(asked[c].ids) \subseteq shown[asked[c].sid]
    /\ asked[c].pc = "scrape" /\ asked[c].chain /\ asked[c].sid \in DOMAIN sessions =>
         Staged!ToSet(asked[c].ids) \subseteq Staged!ToSet(sessions[asked[c].sid].filtered)

\* Nobody else knows the session of a chain.
OwnSession ==
    \A c, d \in Callers :
        c # d /\ asked[c].chain /\ asked[c].sid # 0 => asked[d].sid # asked[c].sid

\* A chain that will be saved as failed has lost its session, unless something raised.
FailsForAReason(c) ==
    asked[c].pc = "save" /\ asked[c].status = "failed" /\ c \notin upset =>
        asked[c].sid \notin DOMAIN sessions

FiledForAReason(c) ==
    cases[c].status = "failed" /\ c \notin upset => cases[c].sid \notin DOMAIN sessions

StagedInv ==
    /\ born \in Nat
    /\ DOMAIN sessions \subseteq 1 .. born
    /\ shown = [s \in 1 .. born |-> shown[s]]
    /\ \A s \in DOMAIN sessions : Held(s)
    /\ asked = [c \in Callers |-> asked[c]]
    /\ cases = [c \in Callers |-> cases[c]]
    /\ \A c \in Callers :
         /\ Requested(asked[c], born) /\ Fetchable(c) /\ FailsForAReason(c)
         /\ cases[c].sid \in 0 .. born /\ FiledForAReason(c)
    /\ OwnSession

\* What a stage of c does to the sessions: it keeps them, and what was picked, and only its
\* own learns another filter.
Worked(c) ==
    /\ DOMAIN sessions' = DOMAIN sessions
    /\ shown' = [s \in 1 .. born |-> shown'[s]]
    /\ \A s \in 1 .. born : shown[s] \subseteq shown'[s]
    /\ \A s \in DOMAIN sessions : Held(s)'
    /\ \A s \in DOMAIN sessions :
         s # asked[c].sid => sessions'[s].filtered = sessions[s].filtered

LEMMA StagedStart == Staged!Init => StagedInv
<1> SUFFICES ASSUME Staged!Init
             PROVE  StagedInv
  OBVIOUS
<1>1. /\ born = 0 /\ sessions = << >> /\ shown = << >>
      /\ asked = [c \in Callers |-> Staged!Quiet] /\ cases = [c \in Callers |-> Staged!NoCase]
  BY DEF Staged!Init
<1>2. DOMAIN sessions = {} /\ shown = [s \in 1 .. born |-> shown[s]]
  BY <1>1
<1>3. Requested(Staged!Quiet, 0)
  BY DEF Staged!Quiet, Requested
<1>4. \A c \in Callers :
        /\ Requested(asked[c], born) /\ Fetchable(c) /\ FailsForAReason(c)
        /\ cases[c].sid \in 0 .. born /\ FiledForAReason(c)
  BY <1>1, <1>3 DEF Staged!Quiet, Staged!NoCase, Fetchable, FailsForAReason, FiledForAReason
<1>5. OwnSession
  BY <1>1 DEF OwnSession, Staged!Quiet
<1>6. QED
  BY <1>1, <1>2, <1>4, <1>5 DEF StagedInv

\* Nothing but a step that keeps the sessions and what was picked.
LEMMA IdleWorks ==
    ASSUME StagedInv, NEW c \in Callers, UNCHANGED <<sessions, shown>>
    PROVE  Worked(c)
  BY DEF StagedInv, Worked, Held

\* A caller takes a step of its own.
LEMMA CallerStep ==
    ASSUME StagedInv, NEW c \in Callers, NEW r, Worked(c), Requested(r, born),
           asked' = [asked EXCEPT ![c] = r],
           born' = born, cases' = cases, upset \subseteq upset',
           upset' \subseteq upset \cup {c},
           r.sid = 0 \/ (r.sid = asked[c].sid /\ r.chain = asked[c].chain)
                     \/ (~r.chain /\ ~Staged!Secret(r.sid)),
           Fetchable(c)', FailsForAReason(c)'
    PROVE  StagedInv'
<1>1. asked' = [d \in Callers |-> IF d = c THEN r ELSE asked[d]]
  BY DEF StagedInv
<1>2. \A d \in Callers : d # c => Fetchable(d)'
  <2> SUFFICES ASSUME NEW d \in Callers, d # c
               PROVE  Fetchable(d)'
    OBVIOUS
  <2>1. asked'[d] = asked[d] /\ Requested(asked[d], born) /\ Fetchable(d) /\ born \in Nat
    BY <1>1 DEF StagedInv
  <2>2. asked[d].pc = "scraping" => Staged!ToSet(asked[d].ids) \subseteq shown'[asked[d].sid]
    <3> SUFFICES ASSUME asked[d].pc = "scraping"
                 PROVE  Staged!ToSet(asked[d].ids) \subseteq shown'[asked[d].sid]
      OBVIOUS
    <3>1. asked[d].sid \in 1 .. born
      BY <2>1 DEF Requested
    <3>2. Staged!ToSet(asked[d].ids) \subseteq shown[asked[d].sid]
      BY <2>1 DEF Fetchable
    <3>3. QED
      BY <3>1, <3>2 DEF Worked
  <2>3. asked[d].pc = "scrape" /\ asked[d].chain /\ asked[d].sid \in DOMAIN sessions' =>
          Staged!ToSet(asked[d].ids) \subseteq Staged!ToSet(sessions'[asked[d].sid].filtered)
    <3> SUFFICES ASSUME asked[d].pc = "scrape", asked[d].chain,
                        asked[d].sid \in DOMAIN sessions'
                 PROVE  Staged!ToSet(asked[d].ids) \subseteq Staged!ToSet(sessions'[asked[d].sid].filtered)
      OBVIOUS
    <3>1. asked[d].sid # 0
      BY <2>1 DEF Requested
    <3>2. asked[c].sid # asked[d].sid
      BY <3>1 DEF StagedInv, OwnSession
    <3>3. /\ asked[d].sid \in DOMAIN sessions
          /\ sessions'[asked[d].sid].filtered = sessions[asked[d].sid].filtered
      BY <3>2 DEF Worked
    <3>4. QED
      BY <2>1, <3>3 DEF Fetchable
  <2>4. QED
    BY <2>1, <2>2, <2>3 DEF Fetchable
<1>3. \A d \in Callers : FailsForAReason(d)'
  BY <1>1 DEF StagedInv, Worked, FailsForAReason
<1>4. \A d \in Callers : FiledForAReason(d)'
  BY DEF StagedInv, Worked, FiledForAReason
<1>5. OwnSession'
  <2> SUFFICES ASSUME NEW d \in Callers, NEW e \in Callers, d # e,
                      asked'[d].chain, asked'[d].sid # 0
               PROVE  asked'[e].sid # asked'[d].sid
    BY DEF OwnSession
  <2>1. CASE d = c
    <3>1. asked[d].chain /\ asked[d].sid # 0 /\ asked'[d].sid = asked[d].sid
          /\ asked'[e] = asked[e]
      BY <1>1, <2>1
    <3>2. QED
      BY <3>1 DEF StagedInv, OwnSession
  <2>2. CASE d # c /\ e = c
    <3>1. asked'[d] = asked[d] /\ asked'[e] = r /\ asked[d].chain /\ asked[d].sid # 0
      BY <1>1, <2>2
    <3>2. CASE ~Staged!Secret(r.sid)
      BY <3>1, <3>2 DEF Staged!Secret
    <3>3. CASE r.sid = 0
      BY <3>1, <3>3
    <3>4. CASE r.sid = asked[c].sid
      BY <2>2, <3>1, <3>4 DEF StagedInv, OwnSession
    <3>5. QED
      BY <3>2, <3>3, <3>4
  <2>3. CASE d # c /\ e # c
    BY <1>1, <2>3 DEF StagedInv, OwnSession
  <2>4. QED
    BY <2>1, <2>2, <2>3
<1>6. \A d \in Callers : Requested(asked'[d], born)
  BY <1>1 DEF StagedInv
<1>7. asked' = [d \in Callers |-> asked'[d]]
  BY <1>1
<1>8. \A d \in Callers : Fetchable(d)'
  BY <1>2
<1>9. QED
  BY <1>3, <1>4, <1>5, <1>6, <1>7, <1>8 DEF StagedInv, Worked

\* How a asked ends.
LEMMA LeaveFacts ==
    ASSUME StagedInv, NEW r, NEW n \in Nat, Requested(r, n), r.pc # "idle", NEW status
    PROVE  /\ Requested(Staged!Leave(r, status), n)
           /\ r.chain => /\ Staged!Leave(r, status).pc = "save" /\ Staged!Leave(r, status).status = status
                         /\ Staged!Leave(r, status).sid = r.sid /\ Staged!Leave(r, status).chain
           /\ ~r.chain => Staged!Leave(r, status) = Staged!Quiet
           /\ Staged!Leave(r, status).pc \in {"save", "idle"}
<1>1. CASE r.chain
  <2> DEFINE y == [r EXCEPT !.pc = "save", !.status = status]
  <2>1. /\ y \in [pc : {"save"}, chain : BOOLEAN, sid : 0 .. n, count : {r.count},
                 ids : {r.ids}, status : {status}]
        /\ y.pc = "save" /\ y.chain = r.chain /\ y.sid = r.sid /\ y.count = r.count
        /\ y.ids = r.ids /\ y.status = status
    BY DEF Requested
  <2>2. Staged!Leave(r, status) = y
    BY <1>1 DEF Staged!Leave
  <2> HIDE DEF y
  <2>3. Requested(y, n)
    BY <2>1 DEF Requested
  <2>4. QED
    BY <1>1, <2>1, <2>2, <2>3
<1>2. CASE ~r.chain
  BY <1>2 DEF Staged!Leave, Staged!Quiet, Requested
<1>3. QED
  BY <1>1, <1>2

\* A asked ends, without failing or for a reason.
LEMMA DepartStep ==
    ASSUME StagedInv, NEW c \in Callers, Worked(c), asked[c].pc # "idle", NEW status,
           asked' = [asked EXCEPT ![c] = Staged!Leave(asked[c], status)],
           born' = born, cases' = cases, upset \subseteq upset', upset' \subseteq upset \cup {c},
           \/ status # "failed" \/ c \in upset'
           \/ ~asked[c].chain \/ asked[c].sid \notin DOMAIN sessions
    PROVE  StagedInv'
<1> DEFINE r == Staged!Leave(asked[c], status)
<1>1. Requested(asked[c], born) /\ born \in Nat
  BY DEF StagedInv
<1>2. /\ Requested(r, born) /\ r.pc \in {"save", "idle"}
      /\ asked[c].chain => /\ r.pc = "save" /\ r.status = status
                             /\ r.sid = asked[c].sid /\ r.chain
      /\ ~asked[c].chain => r = Staged!Quiet
  BY <1>1, LeaveFacts
<1>3. asked'[c] = r
  BY DEF StagedInv
<1> HIDE DEF r
<1>4. Fetchable(c)'
  BY <1>2, <1>3 DEF Fetchable
<1>5. FailsForAReason(c)'
  BY <1>2, <1>3 DEF FailsForAReason, Staged!Quiet, Worked
<1>6. r.sid = 0 \/ (r.sid = asked[c].sid /\ r.chain = asked[c].chain)
  BY <1>1, <1>2 DEF Staged!Quiet, Requested
<1>7. asked' = [asked EXCEPT ![c] = r]
  BY DEF r
<1>8. QED
  BY <1>2, <1>4, <1>5, <1>6, <1>7, CallerStep

LEMMA RunStep == ASSUME StagedInv, NEW c \in Callers, Staged!Run(c) PROVE StagedInv'
<1> DEFINE r == [Staged!Quiet EXCEPT !.pc = "refine", !.chain = TRUE, !.status = "running"]
<1>1. /\ r \in [pc : {"refine"}, chain : {TRUE}, sid : {0}, count : {0}, ids : {<<>>},
               status : {"running"}]
      /\ r.pc = "refine" /\ r.chain /\ r.sid = 0 /\ r.count = 0 /\ r.ids = <<>>
      /\ r.status = "running"
  BY DEF Staged!Quiet
<1>2. /\ asked' = [d \in Callers |-> IF d = c THEN r ELSE asked[d]]
      /\ cases[c] = Staged!NoCase /\ upset' = upset \ {c} /\ UNCHANGED <<sessions, born, cases, shown>>
  BY DEF Staged!Run, StagedInv
<1> HIDE DEF r
<1>3. Requested(r, born)
  <2>1. born \in Nat
    BY DEF StagedInv
  <2>2. 0 \in 0 .. born
    BY <2>1
  <2>3. QED
    BY <1>1, <2>2 DEF Requested
<1>4. \A d \in Callers :
        /\ Requested(asked'[d], born) /\ Fetchable(d)' /\ FailsForAReason(d)'
        /\ FiledForAReason(d)'
  <2> SUFFICES ASSUME NEW d \in Callers
               PROVE  /\ Requested(asked'[d], born) /\ Fetchable(d)' /\ FailsForAReason(d)'
                      /\ FiledForAReason(d)'
    OBVIOUS
  <2>1. /\ Requested(asked[d], born) /\ Fetchable(d) /\ FailsForAReason(d)
        /\ FiledForAReason(d)
    BY DEF StagedInv
  <2>2. CASE d = c
    BY <1>1, <1>2, <1>3, <2>2 DEF Fetchable, FailsForAReason, FiledForAReason, Staged!NoCase
  <2>3. CASE d # c
    BY <1>2, <2>1, <2>3 DEF Fetchable, FailsForAReason, FiledForAReason
  <2>4. QED
    BY <2>2, <2>3
<1>5. OwnSession'
  BY <1>1, <1>2 DEF StagedInv, OwnSession
<1>6. asked' = [d \in Callers |-> asked'[d]]
  BY <1>2
<1>7. \A s \in DOMAIN sessions : Held(s)'
  BY <1>2 DEF StagedInv, Held
<1>8. QED
  BY <1>2, <1>4, <1>5, <1>6, <1>7 DEF StagedInv

LEMMA CallStep ==
    ASSUME StagedInv, NEW c \in Callers, NEW stage \in {"search", "filter", "scrape"},
           Staged!Call(c, stage)
    PROVE  StagedInv'
<1>1. PICK s \in {n \in 0 .. born : n = 0 \/ ~Staged!Secret(n)} :
        /\ (stage = "search") = (s = 0)
        /\ Staged!Become(c, [Staged!Quiet EXCEPT !.pc = stage, !.sid = s])
  BY DEF Staged!Call
<1> DEFINE r == [Staged!Quiet EXCEPT !.pc = stage, !.sid = s]
<1>2. /\ r \in [pc : {stage}, chain : {FALSE}, sid : {s}, count : {0}, ids : {<<>>},
               status : {"none"}]
      /\ r.pc = stage /\ ~r.chain /\ r.sid = s /\ r.count = 0 /\ r.ids = <<>>
      /\ r.status = "none"
  BY DEF Staged!Quiet
<1>3. /\ asked' = [asked EXCEPT ![c] = r] /\ asked'[c] = r
      /\ UNCHANGED <<born, cases, upset, sessions, shown>>
  BY <1>1 DEF Staged!Call, Staged!Become, StagedInv
<1> HIDE DEF r
<1>4. Requested(r, born)
  <2>1. s \in 0 .. born /\ (stage = "search" <=> s = 0) /\ born \in Nat
    BY <1>1 DEF StagedInv
  <2>2. stage # "search" => s > 0
    BY <2>1
  <2>3. QED
    BY <1>2, <2>1, <2>2 DEF Requested
<1>5. Fetchable(c)' /\ FailsForAReason(c)'
  BY <1>2, <1>3 DEF Fetchable, FailsForAReason
<1>6. r.sid = 0 \/ (~r.chain /\ ~Staged!Secret(r.sid))
  BY <1>1, <1>2
<1>7. QED
  BY <1>3, <1>4, <1>5, <1>6, IdleWorks, CallerStep

\* A asked goes on to another stage of its session.

LEMMA SearchStep == ASSUME StagedInv, NEW c \in Callers, Staged!Search(c) PROVE StagedInv'
<1>1. PICK outcome \in Staged!Outcomes, hits \in 0 .. MaxHits, aged \in 0 .. born :
         LET status == Staged!SearchStatus(outcome, hits)
             new == born + 1
         IN /\ sessions' = [s \in Staged!Spared(aged) \cup {new} |->
                              IF s = new
                              THEN [results |-> hits, filtered |-> <<>>, sources |-> {}]
                              ELSE sessions[s]]
            /\ born' = new
            /\ shown' = Append(shown, {})
            /\ asked' = [asked EXCEPT ![c] =
                             IF asked[c].chain /\ status = "ok"
                             THEN [asked[c] EXCEPT !.pc = "filter", !.sid = new]
                             ELSE Staged!Leave([asked[c] EXCEPT !.sid = new], status)]
            /\ UNCHANGED <<cases, upset>>
  BY DEF Staged!Search
<1> DEFINE status == Staged!SearchStatus(outcome, hits)
           new == born + 1
           y == [asked[c] EXCEPT !.sid = new]
           r == IF asked[c].chain /\ status = "ok"
                THEN [asked[c] EXCEPT !.pc = "filter", !.sid = new]
                ELSE Staged!Leave(y, status)
<1>2. /\ born \in Nat /\ new \in Nat /\ new \notin 1 .. born /\ DOMAIN sessions \subseteq 1 .. born
      /\ Requested(asked[c], born) /\ asked[c].pc = "search"
  BY DEF StagedInv, Staged!Search
<1>3. status # "failed"
  BY DEF Staged!SearchStatus
<1>4. Staged!Spared(aged) \subseteq DOMAIN sessions
  BY DEF Staged!Spared, Staged!Live
<1> HIDE DEF status, new
<1>5. /\ y \in [pc : {"search"}, chain : BOOLEAN, sid : {new}, count : {y.count}, ids : {y.ids},
               status : {y.status}]
      /\ y.pc = "search" /\ y.sid = new /\ y.chain = asked[c].chain
  BY <1>2 DEF Requested
<1>6. /\ Requested(r, new) /\ r.pc \in {"filter", "save", "idle"} /\ r.sid \in {0, new}
      /\ r.pc = "save" => r.status = status
  <2>1. new \in 0 .. new /\ 0 \in 0 .. new /\ new > 0
    BY <1>2 DEF new
  <2>2. CASE asked[c].chain /\ status = "ok"
    <3> DEFINE z == [asked[c] EXCEPT !.pc = "filter", !.sid = new]
    <3>1. /\ z \in [pc : {"filter"}, chain : BOOLEAN, sid : {new}, count : {z.count},
                   ids : {z.ids}, status : {z.status}]
          /\ z.pc = "filter" /\ z.sid = new
      BY <1>2 DEF Requested
    <3>2. r = z
      BY <2>2
    <3> HIDE DEF z, r
    <3>3. QED
      BY <2>1, <3>1, <3>2 DEF Requested
  <2>3. CASE ~(asked[c].chain /\ status = "ok")
    <3>1. r = Staged!Leave(y, status)
      BY <2>3
    <3> HIDE DEF y, r
    <3>2. CASE y.chain
      <4> DEFINE z == [y EXCEPT !.pc = "save", !.status = status]
      <4>1. /\ z \in [pc : {"save"}, chain : BOOLEAN, sid : {new}, count : {z.count},
                     ids : {z.ids}, status : {z.status}]
            /\ z.pc = "save" /\ z.sid = new /\ z.status = status
        BY <1>5
      <4>2. r = z
        BY <3>1, <3>2 DEF Staged!Leave
      <4> HIDE DEF z
      <4>3. QED
        BY <2>1, <4>1, <4>2 DEF Requested
    <3>3. CASE ~y.chain
      <4>1. r = Staged!Quiet
        BY <3>1, <3>3 DEF Staged!Leave
      <4>2. QED
        BY <2>1, <4>1 DEF Requested, Staged!Quiet
    <3>4. QED
      BY <3>2, <3>3
  <2>4. QED
    BY <2>2, <2>3
<1>7. /\ sessions' = [s \in Staged!Spared(aged) \cup {new} |->
                         IF s = new THEN [results |-> hits, filtered |-> <<>>, sources |-> {}]
                         ELSE sessions[s]]
      /\ born' = new /\ shown' = Append(shown, {})
      /\ asked' = [asked EXCEPT ![c] = r] /\ UNCHANGED <<cases, upset>>
  BY <1>1 DEF status, new
<1> HIDE DEF r, y
<1>8. asked' = [d \in Callers |-> IF d = c THEN r ELSE asked[d]]
  BY <1>7 DEF StagedInv
<1>9. shown' = [s \in 1 .. new |-> IF s = new THEN {} ELSE shown[s]]
  <2>1. shown = [s \in 1 .. born |-> shown[s]] /\ born \in Nat
    BY DEF StagedInv
  <2> DEFINE Sets == {shown[s] : s \in 1 .. born} \cup {{}}
  <2>2. shown \in [1 .. born -> Sets]
    BY <2>1
  <2>3. shown \in Seq(Sets) /\ Len(shown) = born
    BY <2>1, <2>2
  <2>4. {} \in Sets
    OBVIOUS
  <2> HIDE DEF Sets
  <2>5. /\ Append(shown, {}) \in Seq(Sets) /\ Len(Append(shown, {})) = born + 1
        /\ \A s \in 1 .. born : Append(shown, {})[s] = shown[s]
        /\ Append(shown, {})[born + 1] = {}
    BY <2>3, <2>4, AppendProperties
  <2>6. Append(shown, {}) = [s \in 1 .. born + 1 |-> Append(shown, {})[s]]
    <3> DEFINE longer == Append(shown, {})
    <3>1. longer \in [1 .. Len(longer) -> Sets]
      BY <2>5, LenProperties
    <3>2. longer \in [1 .. born + 1 -> Sets]
      BY <2>5, <3>1
    <3> HIDE DEF longer
    <3>3. longer = [s \in 1 .. born + 1 |-> longer[s]]
      BY <3>2
    <3>4. QED
      BY <3>3 DEF longer
  <2>7. QED
    BY <1>7, <2>1, <2>5, <2>6 DEF new
<1>10. \A s \in 1 .. born : s \in 1 .. new /\ s # new
  BY <1>2 DEF new
<1>11. DOMAIN sessions' \subseteq 1 .. new /\ new \notin DOMAIN sessions
  BY <1>2, <1>4, <1>7, <1>10 DEF new
<1>12. \A s \in DOMAIN sessions' : Held(s)'
  <2> SUFFICES ASSUME NEW s \in DOMAIN sessions'
               PROVE  Held(s)'
    OBVIOUS
  <2>1. CASE s = new
    <3> DEFINE z == [results |-> hits, filtered |-> <<>>, sources |-> {}]
    <3>1. sessions'[s] = z
      BY <1>7, <2>1
    <3>2. z.filtered = <<>> /\ z.sources = {} /\ Staged!ToSet(z.filtered) = {}
      BY DEF Staged!ToSet
    <3>3. z \in [results : {z.results}, filtered : {z.filtered}, sources : {z.sources}]
      OBVIOUS
    <3> HIDE DEF z
    <3>4. QED
      BY <3>1, <3>2, <3>3 DEF Held
  <2>2. CASE s # new
    <3>1. s \in DOMAIN sessions /\ sessions'[s] = sessions[s] /\ shown'[s] = shown[s] /\ Held(s)
      BY <1>2, <1>4, <1>7, <1>9, <1>10, <2>2 DEF StagedInv
    <3>2. QED
      BY <3>1 DEF Held
  <2>3. QED
    BY <2>1, <2>2
<1>13. \A d \in Callers : Requested(asked'[d], new)
  <2> SUFFICES ASSUME NEW d \in Callers, d # c
               PROVE  Requested(asked'[d], new)
    BY <1>6, <1>8
  <2>1. Requested(asked[d], born) /\ asked'[d] = asked[d]
    BY <1>8 DEF StagedInv
  <2>2. 0 .. born \subseteq 0 .. new
    BY <1>2 DEF new
  <2>3. QED
    BY <2>1, <2>2 DEF Requested
<1>14. \A d \in Callers : Fetchable(d)' /\ FailsForAReason(d)'
  <2> SUFFICES ASSUME NEW d \in Callers
               PROVE  Fetchable(d)' /\ FailsForAReason(d)'
    OBVIOUS
  <2>1. CASE d = c
    BY <1>3, <1>6, <1>8, <2>1 DEF Fetchable, FailsForAReason
  <2>2. CASE d # c
    <3>1. /\ asked'[d] = asked[d] /\ Fetchable(d) /\ FailsForAReason(d)
          /\ Requested(asked[d], born) /\ asked[d].sid \in 0 .. born
      BY <1>8, <2>2 DEF StagedInv, Requested
    <3>2. /\ asked[d].sid # new
          /\ asked[d].sid \in DOMAIN sessions' =>
               /\ asked[d].sid \in DOMAIN sessions
               /\ sessions'[asked[d].sid] = sessions[asked[d].sid]
      BY <1>2, <1>4, <1>7, <3>1 DEF new
    <3>3. asked[d].pc = "scraping" => shown'[asked[d].sid] = shown[asked[d].sid]
      <4>1. asked[d].pc = "scraping" => asked[d].sid \in 1 .. born
        BY <1>2, <3>1 DEF Requested
      <4>2. QED
        BY <1>9, <1>10, <4>1
    <3>4. QED
      BY <1>7, <3>1, <3>2, <3>3 DEF Fetchable, FailsForAReason
  <2>3. QED
    BY <2>1, <2>2
<1>15. \A d \in Callers : cases'[d].sid \in 0 .. new /\ FiledForAReason(d)'
  <2> SUFFICES ASSUME NEW d \in Callers
               PROVE  cases'[d].sid \in 0 .. new /\ FiledForAReason(d)'
    OBVIOUS
  <2>1. cases'[d] = cases[d] /\ cases[d].sid \in 0 .. born /\ FiledForAReason(d)
    BY <1>7 DEF StagedInv
  <2>2. cases[d].sid \in 0 .. new /\ cases[d].sid # new
    BY <1>2, <2>1 DEF new
  <2>3. cases[d].sid \in DOMAIN sessions' => cases[d].sid \in DOMAIN sessions
    BY <1>4, <1>7, <2>2
  <2>4. QED
    BY <1>7, <2>1, <2>2, <2>3 DEF FiledForAReason
<1>16. OwnSession'
  <2> SUFFICES ASSUME NEW d \in Callers, NEW e \in Callers, d # e,
                      asked'[d].chain, asked'[d].sid # 0
               PROVE  asked'[e].sid # asked'[d].sid
    BY DEF OwnSession
  <2>1. \A f \in Callers : f # c => asked'[f] = asked[f] /\ asked[f].sid \in 0 .. born
    BY <1>8 DEF StagedInv, Requested
  <2>2. new \notin 0 .. born
    BY <1>2 DEF new
  <2>3. asked'[c] = r
    BY <1>8
  <2>4. CASE d = c \/ e = c
    BY <1>6, <2>1, <2>2, <2>3, <2>4
  <2>5. CASE d # c /\ e # c
    BY <2>1, <2>5 DEF StagedInv, OwnSession
  <2>6. QED
    BY <2>4, <2>5
<1>17. asked' = [d \in Callers |-> asked'[d]] /\ cases' = [d \in Callers |-> cases'[d]]
  BY <1>7, <1>8 DEF StagedInv
<1>18. shown' = [s \in 1 .. new |-> shown'[s]]
  BY <1>9
<1>19. QED
  BY <1>2, <1>7, <1>11, <1>12, <1>13, <1>14, <1>15, <1>16, <1>17, <1>18 DEF StagedInv

LEMMA FilterReadStep == ASSUME StagedInv, NEW c \in Callers, Staged!FilterRead(c) PROVE StagedInv'
<1> DEFINE count == sessions[asked[c].sid].results
           r == [asked[c] EXCEPT !.pc = "filtering", !.count = count]
<1>1. /\ asked[c].pc = "filter" /\ UNCHANGED <<sessions, shown>>
      /\ Staged!Become(c, IF count = 0 THEN Staged!Leave(asked[c], "nothing_relevant") ELSE r)
      /\ Requested(asked[c], born) /\ born \in Nat /\ asked[c].sid > 0
  BY DEF Staged!FilterRead, StagedInv, Requested
<1>2. Requested(r, born) /\ r.pc = "filtering" /\ r.sid = asked[c].sid /\ r.chain = asked[c].chain
  <2>1. /\ r \in [pc : {"filtering"}, chain : BOOLEAN, sid : 0 .. born, count : {r.count},
                 ids : {r.ids}, status : {r.status}]
        /\ r.pc = "filtering" /\ r.sid = asked[c].sid /\ r.chain = asked[c].chain
    BY <1>1 DEF Requested
  <2> HIDE DEF r
  <2>2. QED
    BY <1>1, <2>1 DEF Requested
<1>3. Worked(c)
  BY <1>1, IdleWorks
<1> HIDE DEF r, count
<1>4. CASE count = 0
  BY <1>1, <1>3, <1>4, DepartStep DEF Staged!Become
<1>5. CASE count # 0
  <2>1. asked' = [asked EXCEPT ![c] = r] /\ UNCHANGED <<born, cases, upset>> /\ asked'[c] = r
    BY <1>1, <1>5 DEF Staged!Become, StagedInv
  <2>2. Fetchable(c)' /\ FailsForAReason(c)'
    BY <1>2, <2>1 DEF Fetchable, FailsForAReason
  <2>3. QED
    BY <1>2, <1>3, <2>1, <2>2, CallerStep
<1>6. QED
  BY <1>4, <1>5

LEMMA FilterWriteStep == ASSUME StagedInv, NEW c \in Callers, Staged!FilterWrite(c) PROVE StagedInv'
<1>1. PICK chosen \in Staged!Chosen(asked[c].count) :
         LET picked == SubSeq(chosen, 1, IF Len(chosen) < MaxScrape THEN Len(chosen) ELSE MaxScrape)
             sid == asked[c].sid
         IN /\ sessions' = [sessions EXCEPT ![sid].filtered = picked]
            /\ shown' = [shown EXCEPT ![sid] = @ \cup Staged!ToSet(picked)]
            /\ Staged!Become(c, IF ~asked[c].chain THEN Staged!Quiet
                         ELSE IF picked = <<>> THEN Staged!Leave(asked[c], "nothing_relevant")
                         ELSE [asked[c] EXCEPT !.pc = "scrape", !.ids = picked])
  BY DEF Staged!FilterWrite
<1> DEFINE picked == SubSeq(chosen, 1, IF Len(chosen) < MaxScrape THEN Len(chosen) ELSE MaxScrape)
           sid == asked[c].sid
           r == [asked[c] EXCEPT !.pc = "scrape", !.ids = picked]
<1>2. /\ asked[c].pc = "filtering" /\ sid \in DOMAIN sessions /\ sid \in 1 .. born
      /\ Requested(asked[c], born) /\ born \in Nat /\ sid > 0 /\ Held(sid)
      /\ shown = [s \in 1 .. born |-> shown[s]]
  BY DEF Staged!FilterWrite, StagedInv
<1>3. /\ sessions' = [sessions EXCEPT ![sid].filtered = picked]
      /\ shown' = [shown EXCEPT ![sid] = shown[sid] \cup Staged!ToSet(picked)]
      /\ Staged!Become(c, IF ~asked[c].chain THEN Staged!Quiet
                   ELSE IF picked = <<>> THEN Staged!Leave(asked[c], "nothing_relevant") ELSE r)
  BY <1>1
<1> HIDE DEF picked
<1>4. /\ Requested(r, born) /\ r.pc = "scrape" /\ r.sid = sid /\ r.chain = asked[c].chain
      /\ r.ids = picked
  <2>1. /\ r \in [pc : {"scrape"}, chain : BOOLEAN, sid : 0 .. born, count : {r.count},
                 ids : {r.ids}, status : {r.status}]
        /\ r.pc = "scrape" /\ r.sid = sid /\ r.chain = asked[c].chain /\ r.ids = picked
    BY <1>2 DEF Requested
  <2> HIDE DEF r
  <2>2. QED
    BY <1>2, <2>1 DEF Requested
<1> HIDE DEF r, sid
<1>5. shown' = [s \in 1 .. born |-> IF s = sid THEN shown[sid] \cup Staged!ToSet(picked) ELSE shown[s]]
  BY <1>2, <1>3
<1>6. /\ DOMAIN sessions' = DOMAIN sessions
      /\ \A s \in DOMAIN sessions : s # sid => sessions'[s] = sessions[s]
      /\ sessions'[sid] = [sessions[sid] EXCEPT !.filtered = picked]
  BY <1>2, <1>3
<1>7. \A s \in DOMAIN sessions : Held(s)'
  <2> SUFFICES ASSUME NEW s \in DOMAIN sessions
               PROVE  Held(s)'
    OBVIOUS
  <2>1. Held(s) /\ s \in 1 .. born
    BY DEF StagedInv
  <2>2. CASE s = sid
    <3>1. sessions'[s] = [sessions[s] EXCEPT !.filtered = picked]
      BY <1>6, <2>2
    <3>2. /\ sessions'[s] \in [results : {sessions'[s].results},
                               filtered : {sessions'[s].filtered},
                               sources : {sessions'[s].sources}]
          /\ sessions'[s].filtered = picked /\ sessions'[s].sources = sessions[s].sources
      BY <2>1, <3>1 DEF Held
    <3>3. shown'[s] = shown[s] \cup Staged!ToSet(picked)
      BY <1>5, <2>1, <2>2
    <3>4. QED
      BY <2>1, <3>2, <3>3 DEF Held
  <2>3. CASE s # sid
    <3>1. sessions'[s] = sessions[s] /\ shown'[s] = shown[s]
      BY <1>5, <1>6, <2>1, <2>3
    <3>2. QED
      BY <2>1, <3>1 DEF Held
  <2>4. QED
    BY <2>2, <2>3
<1>8. Worked(c)
  <2>1. shown' = [s \in 1 .. born |-> shown'[s]]
    BY <1>5
  <2>2. \A s \in 1 .. born : shown[s] \subseteq shown'[s]
    BY <1>5
  <2>3. QED
    BY <1>6, <1>7, <2>1, <2>2 DEF Worked, sid
<1>9. CASE ~asked[c].chain
  <2>1. asked' = [asked EXCEPT ![c] = Staged!Leave(asked[c], "nothing_relevant")]
    BY <1>3, <1>9 DEF Staged!Become, Staged!Leave
  <2>2. QED
    BY <1>2, <1>3, <1>8, <2>1, DepartStep DEF Staged!Become
<1>10. CASE asked[c].chain /\ picked = <<>>
  BY <1>2, <1>3, <1>8, <1>10, DepartStep DEF Staged!Become
<1>11. CASE asked[c].chain /\ picked # <<>>
  <2>1. asked' = [asked EXCEPT ![c] = r] /\ UNCHANGED <<born, cases, upset>> /\ asked'[c] = r
    BY <1>3, <1>11 DEF Staged!Become, StagedInv
  <2>2. sessions'[sid].filtered = picked
    BY <1>2, <1>6 DEF Held
  <2>3. Fetchable(c)' /\ FailsForAReason(c)'
    BY <1>4, <2>1, <2>2 DEF Fetchable, FailsForAReason
  <2>4. r.sid = asked[c].sid
    BY <1>4 DEF sid
  <2>5. QED
    BY <1>4, <1>8, <2>1, <2>3, <2>4, CallerStep
<1>12. QED
  BY <1>9, <1>10, <1>11

LEMMA ScrapeReadStep == ASSUME StagedInv, NEW c \in Callers, Staged!ScrapeRead(c) PROVE StagedInv'
<1> DEFINE own == sessions[asked[c].sid].filtered
<1>1. /\ asked[c].pc = "scrape" /\ UNCHANGED <<sessions, shown>>
      /\ asked[c].sid \in DOMAIN sessions /\ asked[c].sid \in 1 .. born
      /\ Requested(asked[c], born) /\ born \in Nat /\ Fetchable(c)
  BY DEF Staged!ScrapeRead, StagedInv
<1>2. PICK ids \in Staged!Wanted(c) :
         Staged!Become(c, IF ~(Staged!ToSet(ids) \subseteq Staged!ToSet(own)) THEN Staged!Leave(asked[c], "failed")
                   ELSE IF ids = <<>> THEN Staged!Leave(asked[c], "nothing_readable")
                   ELSE [asked[c] EXCEPT !.pc = "scraping", !.ids = ids])
  BY DEF Staged!ScrapeRead
<1>3. Worked(c)
  BY <1>1, IdleWorks
<1>4. asked[c].chain => Staged!ToSet(ids) \subseteq Staged!ToSet(own)
  BY <1>1 DEF Staged!Wanted, Fetchable
<1>5. Staged!ToSet(own) \subseteq shown[asked[c].sid]
  BY <1>1 DEF StagedInv, Held
<1> HIDE DEF own
<1>6. CASE ~(Staged!ToSet(ids) \subseteq Staged!ToSet(own))
  BY <1>1, <1>2, <1>3, <1>4, <1>6, DepartStep DEF Staged!Become
<1>7. CASE Staged!ToSet(ids) \subseteq Staged!ToSet(own) /\ ids = <<>>
  BY <1>1, <1>2, <1>3, <1>7, DepartStep DEF Staged!Become
<1>8. CASE Staged!ToSet(ids) \subseteq Staged!ToSet(own) /\ ids # <<>>
  <2> DEFINE r == [asked[c] EXCEPT !.pc = "scraping", !.ids = ids]
  <2>1. /\ r \in [pc : {"scraping"}, chain : BOOLEAN, sid : 0 .. born, count : {r.count},
                 ids : {r.ids}, status : {r.status}]
        /\ r.pc = "scraping" /\ r.sid = asked[c].sid /\ r.chain = asked[c].chain
        /\ r.ids = ids
    BY <1>1 DEF Requested
  <2>2. asked' = [asked EXCEPT ![c] = r] /\ UNCHANGED <<born, cases, upset>> /\ asked'[c] = r
    BY <1>2, <1>8 DEF Staged!Become, StagedInv
  <2> HIDE DEF r
  <2>3. Requested(r, born)
    BY <1>1, <2>1 DEF Requested
  <2>4. Fetchable(c)' /\ FailsForAReason(c)'
    BY <1>1, <1>5, <1>8, <2>1, <2>2 DEF Fetchable, FailsForAReason
  <2>5. QED
    BY <1>3, <2>1, <2>2, <2>3, <2>4, CallerStep
<1>9. QED
  BY <1>6, <1>7, <1>8

LEMMA ScrapeWriteStep == ASSUME StagedInv, NEW c \in Callers, Staged!ScrapeWrite(c) PROVE StagedInv'
<1> DEFINE sid == asked[c].sid
<1>1. /\ asked[c].pc = "scraping" /\ UNCHANGED shown
      /\ sid \in DOMAIN sessions /\ sid \in 1 .. born
      /\ Requested(asked[c], born) /\ born \in Nat
      /\ Staged!ToSet(asked[c].ids) \subseteq shown[sid]
  BY DEF Staged!ScrapeWrite, StagedInv, Fetchable
<1>2. PICK pages \in [Staged!ToSet(asked[c].ids) -> Staged!Pages] :
         /\ sessions' = [sessions EXCEPT ![sid].sources = DOMAIN pages]
         /\ Staged!Become(c, IF ~asked[c].chain THEN Staged!Quiet
                      ELSE IF \A h \in DOMAIN pages : pages[h] # "ok"
                      THEN Staged!Leave(asked[c], "nothing_readable")
                      ELSE [asked[c] EXCEPT !.pc = "analyze"])
  BY DEF Staged!ScrapeWrite
<1> HIDE DEF sid
<1>3. /\ DOMAIN sessions' = DOMAIN sessions
      /\ \A s \in DOMAIN sessions : s # sid => sessions'[s] = sessions[s]
      /\ sessions'[sid] = [sessions[sid] EXCEPT !.sources = DOMAIN pages]
  BY <1>1, <1>2
<1>4. \A s \in DOMAIN sessions : Held(s)' /\ sessions'[s].filtered = sessions[s].filtered
  <2> SUFFICES ASSUME NEW s \in DOMAIN sessions
               PROVE  Held(s)' /\ sessions'[s].filtered = sessions[s].filtered
    OBVIOUS
  <2>1. Held(s)
    BY DEF StagedInv
  <2>2. CASE s = sid
    <3>1. sessions'[s] = [sessions[s] EXCEPT !.sources = DOMAIN pages]
      BY <1>3, <2>2
    <3>2. /\ sessions'[s] \in [results : {sessions'[s].results},
                               filtered : {sessions'[s].filtered},
                               sources : {sessions'[s].sources}]
          /\ sessions'[s].filtered = sessions[s].filtered /\ sessions'[s].sources = DOMAIN pages
      BY <2>1, <3>1 DEF Held
    <3>3. DOMAIN pages \subseteq shown'[s]
      BY <1>1, <1>2, <2>2
    <3>4. QED
      BY <1>1, <2>1, <3>2, <3>3 DEF Held
  <2>3. CASE s # sid
    BY <1>1, <1>3, <2>1, <2>3 DEF Held
  <2>4. QED
    BY <2>2, <2>3
<1>5. Worked(c)
  BY <1>1, <1>3, <1>4 DEF Worked, StagedInv
<1>6. CASE ~asked[c].chain
  <2>1. asked' = [asked EXCEPT ![c] = Staged!Leave(asked[c], "nothing_readable")]
    BY <1>2, <1>6 DEF Staged!Become, Staged!Leave
  <2>2. QED
    BY <1>1, <1>2, <1>5, <2>1, DepartStep DEF Staged!Become
<1>7. CASE asked[c].chain /\ \A h \in DOMAIN pages : pages[h] # "ok"
  BY <1>1, <1>2, <1>5, <1>7, DepartStep DEF Staged!Become
<1>8. CASE asked[c].chain /\ ~\A h \in DOMAIN pages : pages[h] # "ok"
  <2> DEFINE r == [asked[c] EXCEPT !.pc = "analyze"]
  <2>1. /\ r \in [pc : {"analyze"}, chain : BOOLEAN, sid : 0 .. born, count : {r.count},
                 ids : {r.ids}, status : {r.status}]
        /\ r.pc = "analyze" /\ r.sid = asked[c].sid /\ r.chain = asked[c].chain
    BY <1>1 DEF Requested
  <2>2. asked' = [asked EXCEPT ![c] = r] /\ UNCHANGED <<born, cases, upset>> /\ asked'[c] = r
    BY <1>2, <1>8 DEF Staged!Become, StagedInv
  <2> HIDE DEF r
  <2>3. Requested(r, born)
    BY <1>1, <2>1 DEF Requested
  <2>4. Fetchable(c)' /\ FailsForAReason(c)'
    BY <2>1, <2>2 DEF Fetchable, FailsForAReason
  <2>5. QED
    BY <1>5, <2>1, <2>2, <2>3, <2>4, CallerStep
<1>9. QED
  BY <1>6, <1>7, <1>8

LEMMA SaveStep == ASSUME StagedInv, NEW c \in Callers, Staged!Save(c) PROVE StagedInv'
<1>1. /\ asked[c].pc = "save" /\ UNCHANGED <<sessions, born, shown, upset>>
      /\ asked' = [asked EXCEPT ![c] = Staged!Quiet]
      /\ cases' \in {[cases EXCEPT ![c] = [status |-> asked[c].status,
                                           sid |-> asked[c].sid]], cases}
      /\ Requested(asked[c], born) /\ born \in Nat
  BY DEF Staged!Save, StagedInv
<1>2. asked' = [d \in Callers |-> IF d = c THEN Staged!Quiet ELSE asked[d]]
  BY <1>1 DEF StagedInv
<1>3. Requested(Staged!Quiet, born)
  <2>1. 0 \in 0 .. born
    BY <1>1
  <2>2. QED
    BY <2>1 DEF Requested, Staged!Quiet
<1>4. \A d \in Callers : Requested(asked'[d], born) /\ Fetchable(d)' /\ FailsForAReason(d)'
  <2> SUFFICES ASSUME NEW d \in Callers
               PROVE  Requested(asked'[d], born) /\ Fetchable(d)' /\ FailsForAReason(d)'
    OBVIOUS
  <2>1. CASE d = c
    <3>1. asked'[d] = Staged!Quiet /\ Staged!Quiet.pc = "idle"
      BY <1>2, <2>1 DEF Staged!Quiet
    <3>2. QED
      BY <1>3, <3>1 DEF Fetchable, FailsForAReason
  <2>2. CASE d # c
    BY <1>1, <1>2, <2>2 DEF StagedInv, Fetchable, FailsForAReason
  <2>3. QED
    BY <2>1, <2>2
<1>5. OwnSession'
  BY <1>2 DEF StagedInv, OwnSession, Staged!Quiet
<1>6. /\ cases' = [d \in Callers |-> cases'[d]]
      /\ \A d \in Callers : cases'[d].sid \in 0 .. born /\ FiledForAReason(d)'
  <2> DEFINE stays == [status |-> asked[c].status, sid |-> asked[c].sid]
  <2>1. CASE cases' = cases
    BY <1>1, <2>1 DEF StagedInv, FiledForAReason
  <2>2. CASE cases' = [cases EXCEPT ![c] = stays]
    <3>1. cases' = [d \in Callers |-> IF d = c THEN stays ELSE cases[d]]
      BY <2>2 DEF StagedInv
    <3>2. stays.status = asked[c].status /\ stays.sid = asked[c].sid /\ stays.sid \in 0 .. born
      BY <1>1 DEF Requested
    <3>3. FailsForAReason(c)
      BY DEF StagedInv
    <3> HIDE DEF stays
    <3>4. ASSUME NEW d \in Callers
          PROVE  cases'[d].sid \in 0 .. born /\ FiledForAReason(d)'
      <4>1. CASE d = c
        BY <1>1, <3>1, <3>2, <3>3, <4>1 DEF FiledForAReason, FailsForAReason
      <4>2. CASE d # c
        BY <1>1, <3>1, <4>2 DEF StagedInv, FiledForAReason
      <4>3. QED
        BY <4>1, <4>2
    <3>5. QED
      BY <3>1, <3>4
  <2>3. QED
    BY <1>1, <2>1, <2>2
<1>7. asked' = [d \in Callers |-> asked'[d]]
  BY <1>2
<1>8. \A s \in DOMAIN sessions : Held(s)'
  BY <1>1 DEF StagedInv, Held
<1>9. QED
  BY <1>1, <1>4, <1>5, <1>6, <1>7, <1>8 DEF StagedInv

LEMMA DeleteStep == ASSUME StagedInv, NEW c \in Callers, Staged!Delete(c) PROVE StagedInv'
<1>1. /\ cases' = [d \in Callers |-> IF d = c THEN Staged!NoCase ELSE cases[d]]
      /\ UNCHANGED <<sessions, born, asked, shown, upset>>
  BY DEF Staged!Delete, StagedInv
<1>2. \A d \in Callers : Requested(asked'[d], born) /\ Fetchable(d)' /\ FailsForAReason(d)'
  BY <1>1 DEF StagedInv, Fetchable, FailsForAReason
<1>3. 0 \in 0 .. born
  BY DEF StagedInv
<1>4. \A d \in Callers : cases'[d].sid \in 0 .. born /\ FiledForAReason(d)'
  BY <1>1, <1>3 DEF StagedInv, FiledForAReason, Staged!NoCase
<1>5. \A s \in DOMAIN sessions : Held(s)'
  BY <1>1 DEF StagedInv, Held
<1>6. cases' = [d \in Callers |-> cases'[d]]
  BY <1>1
<1>7. QED
  BY <1>1, <1>2, <1>4, <1>5, <1>6 DEF StagedInv, OwnSession

LEMMA RestartsStep == ASSUME StagedInv, Staged!Restart PROVE StagedInv'
<1>1. /\ sessions' = << >> /\ asked' = [c \in Callers |-> Staged!Quiet]
      /\ UNCHANGED <<born, cases, shown, upset>>
  BY DEF Staged!Restart
<1>2. DOMAIN sessions' = {}
  BY <1>1
<1>3. Requested(Staged!Quiet, born)
  <2>1. 0 \in 0 .. born
    BY DEF StagedInv
  <2>2. QED
    BY <2>1 DEF Requested, Staged!Quiet
<1>4. \A c \in Callers : Requested(asked'[c], born) /\ Fetchable(c)' /\ FailsForAReason(c)'
  BY <1>1, <1>3 DEF Fetchable, FailsForAReason, Staged!Quiet
<1>5. \A c \in Callers : cases'[c].sid \in 0 .. born /\ FiledForAReason(c)'
  BY <1>1, <1>2 DEF StagedInv, FiledForAReason
<1>6. OwnSession'
  BY <1>1 DEF OwnSession, Staged!Quiet
<1>7. asked' = [c \in Callers |-> asked'[c]]
  BY <1>1
<1>8. QED
  BY <1>1, <1>2, <1>4, <1>5, <1>6, <1>7 DEF StagedInv

LEMMA StagedStep == StagedInv /\ [Staged!Next]_(Staged!investigationVars) => StagedInv'
<1> SUFFICES ASSUME StagedInv, [Staged!Next]_(Staged!investigationVars)
             PROVE  StagedInv'
  OBVIOUS
<1>1. CASE UNCHANGED Staged!investigationVars
  <2>1. \A s \in DOMAIN sessions : Held(s)'
    BY <1>1 DEF StagedInv, Held, Staged!investigationVars
  <2>2. \A c \in Callers : Fetchable(c)' /\ FailsForAReason(c)' /\ FiledForAReason(c)'
    BY <1>1 DEF StagedInv, Fetchable, FailsForAReason, FiledForAReason, Staged!investigationVars
  <2>3. QED
    BY <1>1, <2>1, <2>2 DEF StagedInv, OwnSession, Staged!investigationVars
<1>2. ASSUME NEW c \in Callers, Staged!Refine(c)
      PROVE  StagedInv'
  <2> DEFINE r == [asked[c] EXCEPT !.pc = "search"]
  <2>1. /\ asked[c].pc = "refine" /\ Requested(asked[c], born) /\ asked[c].sid = 0
        /\ asked' = [asked EXCEPT ![c] = r]
        /\ asked'[c] = r /\ UNCHANGED <<born, cases, upset, sessions, shown>>
    BY <1>2 DEF Staged!Refine, Staged!Become, StagedInv, Requested
  <2>2. /\ r \in [pc : {"search"}, chain : BOOLEAN, sid : 0 .. born, count : {r.count},
                 ids : {r.ids}, status : {r.status}]
        /\ r.pc = "search" /\ r.sid = 0
    BY <2>1 DEF Requested
  <2> HIDE DEF r
  <2>3. Requested(r, born)
    BY <2>2 DEF Requested
  <2>4. Fetchable(c)' /\ FailsForAReason(c)' /\ Worked(c)
    BY <2>1, <2>2, IdleWorks DEF Fetchable, FailsForAReason
  <2>5. QED
    BY <2>1, <2>2, <2>3, <2>4, CallerStep
<1>3. ASSUME NEW c \in Callers, Staged!Raise(c)
      PROVE  StagedInv'
  <2>1. /\ asked[c].pc # "idle" /\ UNCHANGED <<sessions, born, cases, shown>>
        /\ asked' = [asked EXCEPT ![c] = Staged!Leave(asked[c], "failed")]
        /\ upset' = upset \cup {c} /\ c \in upset'
    BY <1>3 DEF Staged!Raise
  <2>2. Worked(c)
    BY <2>1, IdleWorks
  <2>3. QED
    BY <2>1, <2>2, DepartStep
<1>4. ASSUME NEW c \in Callers, Staged!Missed(c)
      PROVE  StagedInv'
  <2>1. /\ asked[c].pc # "idle" /\ asked[c].sid \notin DOMAIN sessions
        /\ asked' = [asked EXCEPT ![c] = Staged!Leave(asked[c], "failed")]
        /\ UNCHANGED <<sessions, shown, born, cases, upset>>
    BY <1>4 DEF Staged!Missed, Staged!Become
  <2>2. Worked(c)
    BY <2>1, IdleWorks
  <2>3. QED
    BY <2>1, <2>2, DepartStep
<1>5. ASSUME NEW c \in Callers, Staged!Analyze(c)
      PROVE  StagedInv'
  <2>1. /\ asked[c].pc # "idle"
        /\ asked' = [asked EXCEPT ![c] = Staged!Leave(asked[c], "ok")]
        /\ UNCHANGED <<sessions, shown, born, cases, upset>>
    BY <1>5 DEF Staged!Analyze, Staged!Become
  <2>2. Worked(c)
    BY <2>1, IdleWorks
  <2>3. QED
    BY <2>1, <2>2, DepartStep
<1>6. QED
  BY <1>1, <1>2, <1>3, <1>4, <1>5, RunStep, CallStep, SearchStep, FilterReadStep, FilterWriteStep,
     ScrapeReadStep, ScrapeWriteStep, SaveStep, DeleteStep, RestartsStep DEF Staged!Next

\* Whatever a session's sources are, some filter of that session picked them, and a case is
\* reported failed only when something raised or its session was taken from it, for any
\* callers, engines, results and bounds, and any choice of a model
\* (real_investigation_pipeline.py:354, :404).
THEOREM StagesHold == Staged!Spec => []CasesHold
<1>1. StagedInv => CasesHold
  BY DEF StagedInv, Held, FiledForAReason, CasesHold, Staged!CasesHold, Staged!OnlyFilteredScraped, Staged!FailedForAReason
<1>2. QED
  BY <1>1, StagedStart, StagedStep, PTL DEF Staged!Spec
=============================================================================
