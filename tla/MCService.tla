----------------------------- MODULE MCService -----------------------------
\* Small instances of the parts of the service around a run.  One run of TLC checks each by
\* itself.
EXTENDS ServiceParts, TLC

VARIABLE part

CONSTANTS e1, e2, cancel, p1, p2, q1, a, b

\* Two executions of the run in two processes, a cancel request served by the first.
Homes == e1 :> p1 @@ e2 :> p2 @@ cancel :> p1

\* A request to a store of two runs, an administrator's and the caller's: a run with
\* two claims and a finding on the first, and one whose claim cites a source of the first.
OneCaller == q1 :> b
Owners == 1 :> a @@ 2 :> b
RunOfEach == 1 :> 1 @@ 2 :> 1 @@ 3 :> 2
CreatedBy == 1 :> 1 @@ 2 :> 1 @@ 3 :> 1
NamesOf == 1 :> {1} @@ 2 :> {3}

\* Each registry with the rows that a request needs to follow another.
Rooms ==
    [d \in {"knowledge", "monitor", "exchange", "hunting"} |-> 4]
    @@ [d \in {"campaigns", "correlation", "predictive", "sharing", "outlook",
               "judgement", "supply"} |-> 3]
    @@ "emulation" :> 5 @@ "experts" :> 5 @@ "signals" :> 5 @@ "subscriptions" :> 2 @@ "collector" :> 7

DesksOpen == DOMAIN Rooms

eventState == <<last, author, row, pending, spoken, hub, stream, polled>>
answerState == <<run, rows, disputed, req, moved>>
registryState == <<desk, store, next>>

ServiceInit ==
    /\ part \in {"delivery", "events", "answers", "registries"}
    /\ Init
    /\ Events!Init
    /\ Store!Init
    /\ Threats!Init
    /\ part # "registries" => desk = "campaigns"
    /\ part # "answers" => req[q1].kind = "mesh"

ServiceNext ==
    \/ part = "delivery" /\ Next /\ UNCHANGED <<part, eventState, answerState, registryState>>
    \/ part = "events" /\ Events!Next /\ UNCHANGED <<part, deliveryVars, answerState, registryState>>
    \/ part = "answers" /\ Store!Next /\ UNCHANGED <<part, eventState, deliveryVars, registryState>>
    \/ part = "registries" /\ Threats!Next /\ UNCHANGED <<part, eventState, deliveryVars, answerState>>

ServiceSpec ==
    /\ ServiceInit
    /\ [][ServiceNext]_<<part, deliveryVars, eventState, answerState, registryState>>

TypesOK == TypeOK /\ Events!TypeOK /\ Store!TypeOK /\ Threats!TypeOK
=============================================================================
