-------------------------------- MODULE MCDesk --------------------------------
\* Small instances of the parts where work comes in.
EXTENDS DeskParts, TLC

VARIABLE part

CONSTANTS c1, c2, q1, q2, q3, v1, v2, o1, o2, p1, p2, friday, key1

\* Three submissions with one key, the last by another caller.
OneKey == q1 :> key1 @@ q2 :> key1 @@ q3 :> key1
TwoCallers == q1 :> v1 @@ q2 :> v1 @@ q3 :> v2

Development == [env |-> "development", faults |-> {}, db |-> "oracle", apiKeys |-> <<v1>>,
                services |-> {friday}, secret |-> FALSE, demo |-> TRUE, worker |-> "unset",
                loops |-> {"news"}]
Production == [Development EXCEPT !.env = "production", !.secret = TRUE, !.demo = FALSE,
                                      !.services = {}]
Unfit == [Production EXCEPT !.faults = {"mock mode"}]

Settings == {Development, Production, Unfit}

bootState == <<tables, keys, demo, boot, starts, hooks, cookies, answer, revoked>>
stagedState == <<sessions, born, asked, cases, shown, upset>>
groundedState == <<model, inquiry, files>>
threatState == <<engine, file, kept, overlapped, torn>>

DeskInit ==
    /\ part \in {"jobs", "staged", "grounded", "threat", "startup"}
    /\ Init /\ Staged!Init /\ Inquire!Init /\ Intel!Init /\ Boot!Init
    /\ part # "grounded" => model

DeskNext ==
    \/ /\ part = "jobs" /\ Next
       /\ UNCHANGED <<part, stagedState, groundedState, threatState, bootState>>
    \/ /\ part = "staged" /\ Staged!Next
       /\ UNCHANGED <<part, submissionVars, groundedState, threatState, bootState>>
    \/ /\ part = "grounded" /\ Inquire!Next
       /\ UNCHANGED <<part, submissionVars, stagedState, threatState, bootState>>
    \/ /\ part = "threat" /\ Intel!Next
       /\ UNCHANGED <<part, submissionVars, stagedState, groundedState, bootState>>
    \/ /\ part = "startup" /\ Boot!Next
       /\ UNCHANGED <<part, submissionVars, stagedState, groundedState, threatState>>

DeskSpec ==
    /\ DeskInit
    /\ [][DeskNext]_<<part, submissionVars, stagedState, groundedState, threatState, bootState>>

Symmetry ==
    {f @@ g @@ h : f \in Permutations({c1, c2}), g \in Permutations({o1, o2}),
                   h \in Permutations({p1, p2})}

TypesOK ==
    /\ TypeOK /\ Staged!TypeOK /\ Inquire!TypeOK /\ Intel!TypeOK /\ Boot!TypeOK
=============================================================================
