------------------------------- MODULE Gateway -------------------------------
(***************************************************************************)
(* The model gateway and the budget of a run (models/gateway.py,           *)
(* models/providers.py, models/ai_universe_provider.py, the gates of       *)
(* orchestration/engine.py).                                               *)
(*                                                                         *)
(* Executions of a run, in one process or several, put their questions to  *)
(* the configured provider, with retries, a secondary provider, one        *)
(* correction of an answer that does not fit its schema and, where it is   *)
(* allowed, canned text.  What accepted answers cost is added up per       *)
(* process; between stages the sum, or the cost in the run's row, is held  *)
(* against the ceiling.  Every answer costs 1.                             *)
(***************************************************************************)
EXTENDS Integers, FiniteSets

CONSTANTS
    Executions,  \* executions of one run
    Processes,
    Home,        \* [Executions -> Processes]
    Ceiling,     \* the smaller of the run's max_usd and MAX_RUN_USD
    Calls,       \* bound: questions per stage
    Tries        \* attempts within a provider

\* What the parameters are; the instance that gives them assumes it.
GatewayAssumption ==
    /\ IsFiniteSet(Executions)
    /\ Home \in [Executions -> Processes]
    /\ Ceiling \in Nat \ {0} /\ Calls \in Nat /\ Tries \in Nat \ {0}

VARIABLES
    setup,  \* the settings: [primary, secondary, canned]
    usage,  \* [Processes -> Nat], _run_usage of the run
    cost,   \* usd_cost of the run's row
    exec    \* [Executions -> Exec]

gatewayVars == <<setup, usage, cost, exec>>

Vendors == {"inference", "openai", "anthropic"}
Providers == Vendors \cup {"mock"}

\* canned: not production, and ALLOW_MOCK_FALLBACK.
Setup == [primary : Providers, secondary : BOOLEAN, canned : BOOLEAN]

\* asked: questions of the stage so far.  round: 2 for the correction.  schema: whether
\* the request still asks for a schema.  mock: who gave the answer at hand; fed: whether
\* some stage was given a canned answer.
Exec == [pc : {"idle", "gate", "stage", "ask", "bypass", "unserved", "answered", "error",
               "done", "failed", "gone"},
         asked : 0 .. Calls, provider : Providers, try : 1 .. Tries, schema : BOOLEAN,
         round : 1 .. 2, bill : Nat, mock : BOOLEAN, fed : BOOLEAN]

Fresh == [pc |-> "idle", asked |-> 0, provider |-> "mock", try |-> 1, schema |-> TRUE,
          round |-> 1, bill |-> 0, mock |-> FALSE, fed |-> FALSE]

TypeOK ==
    /\ setup \in Setup
    /\ usage \in [Processes -> Nat]
    /\ cost \in Nat
    /\ exec \in [Executions -> Exec]
    /\ \A e \in Executions : exec[e].bill <= exec[e].round

Init ==
    /\ setup \in Setup
    /\ usage = [p \in Processes |-> 0]
    /\ cost = 0
    /\ exec = [e \in Executions |-> Fresh]

Become(e, x) ==
    /\ exec' = [exec EXCEPT ![e] = x]
    /\ UNCHANGED <<setup, usage, cost>>

-----------------------------------------------------------------------------
(* The stages of an execution *)

\* A worker has claimed the run; it may still be executed elsewhere after a web review.
Begin(e) ==
    /\ exec[e].pc = "idle"
    /\ Become(e, [exec[e] EXCEPT !.pc = "gate"])

Spent(e) == IF cost > usage[Home[e]] THEN cost ELSE usage[Home[e]]

\* Mutant: only the cost in the row is looked at.
GateByRow(e) ==
    /\ exec[e].pc = "gate"
    /\ Become(e, [exec[e] EXCEPT !.pc = IF cost >= Ceiling THEN "failed" ELSE "stage",
                                 !.asked = 0])

Gate(e) ==
    /\ exec[e].pc = "gate"
    /\ Become(e, [exec[e] EXCEPT !.pc = IF Spent(e) >= Ceiling THEN "failed" ELSE "stage",
                                 !.asked = 0])

\* The stage is over: a gate before the next one.
Pass(e) ==
    /\ exec[e].pc = "stage"
    /\ Become(e, [exec[e] EXCEPT !.pc = "gate"])

\* The row gets the usage of this process.
Complete(e) ==
    /\ exec[e].pc = "stage"
    /\ exec' = [exec EXCEPT ![e].pc = "done"]
    /\ cost' = usage[Home[e]]
    /\ UNCHANGED <<setup, usage>>

\* An error of the gateway fails the run.
Abort(e) ==
    /\ exec[e].pc = "error"
    /\ Become(e, [exec[e] EXCEPT !.pc = "failed"])

\* A process restarts with an empty gateway.
Restart(p) ==
    /\ usage' = [usage EXCEPT ![p] = 0]
    /\ exec' = [e \in Executions |->
                  IF Home[e] = p /\ exec[e].pc \notin {"idle", "done", "failed"}
                  THEN [exec[e] EXCEPT !.pc = "gone"] ELSE exec[e]]
    /\ UNCHANGED <<setup, cost>>

-----------------------------------------------------------------------------
(* A question *)

\* The mock provider answers at once, with an instance of the schema.
To(x, provider) ==
    [x EXCEPT !.provider = provider, !.try = 1, !.schema = TRUE,
              !.pc = IF provider = "mock" THEN "answered" ELSE "ask",
              !.mock = (provider = "mock"),
              !.bill = IF provider = "mock" THEN @ + 1 ELSE @]

Ask(e) ==
    /\ exec[e].pc = "stage"
    /\ exec[e].asked < Calls
    /\ Become(e, To([exec[e] EXCEPT !.asked = @ + 1, !.round = 1, !.bill = 0], setup.primary))

\* An answer with its usage; one of AI-Universe that is a known template is not taken.
Answer(e) ==
    /\ exec[e].pc \in {"ask", "bypass"}
    /\ Become(e, [exec[e] EXCEPT !.pc = "answered", !.bill = @ + 1])

Template(e) ==
    /\ exec[e].pc = "ask"
    /\ exec[e].provider = "inference"
    /\ Become(e, [exec[e] EXCEPT !.pc = "bypass"])

\* The endpoint does not know json_schema: the next attempt does without.
Unsupported(e) ==
    /\ exec[e].pc = "ask"
    /\ exec[e].provider = "openai"
    /\ exec[e].schema
    /\ Become(e, IF exec[e].try < Tries
                 THEN [exec[e] EXCEPT !.try = @ + 1, !.schema = FALSE]
                 ELSE [exec[e] EXCEPT !.pc = "unserved"])

\* A timeout, a connection error, an HTTP status: AI-Universe has one attempt.
Transient(e) ==
    /\ exec[e].pc = "ask"
    /\ Become(e, IF exec[e].provider # "inference" /\ exec[e].try < Tries
                 THEN [exec[e] EXCEPT !.try = @ + 1]
                 ELSE [exec[e] EXCEPT !.pc = "unserved"])

\* Credentials or model refused; no answer from the bypass.
Refused(e) ==
    /\ exec[e].pc \in {"ask", "bypass"}
    /\ Become(e, [exec[e] EXCEPT !.pc = "unserved"])

\* Mutant: the text is canned whatever the settings.
FallBackAnyway(e) ==
    /\ exec[e].pc = "unserved"
    /\ Become(e, IF setup.primary = "inference" /\ setup.secondary
                    /\ exec[e].provider = "inference"
                 THEN To(exec[e], "openai")
                 ELSE To(exec[e], "mock"))

FallBack(e) ==
    /\ exec[e].pc = "unserved"
    /\ Become(e, IF setup.primary = "inference" /\ setup.secondary
                    /\ exec[e].provider = "inference"
                 THEN To(exec[e], "openai")
                 ELSE IF setup.canned THEN To(exec[e], "mock")
                 ELSE [exec[e] EXCEPT !.pc = "error"])

\* The answer goes to the stage, its bill to the process.
Deliver(e, mock) ==
    /\ exec' = [exec EXCEPT ![e].pc = "stage", ![e].fed = @ \/ mock]
    /\ usage' = [usage EXCEPT ![Home[e]] = @ + exec[e].bill]
    /\ UNCHANGED <<setup, cost>>

\* It fits the schema, or none was asked for.
Fits(e) ==
    /\ exec[e].pc = "answered"
    /\ Deliver(e, exec[e].mock)

\* It does not: one correction, from the primary provider again.
Correct(e) ==
    /\ exec[e].pc = "answered"
    /\ ~exec[e].mock
    /\ exec[e].round = 1
    /\ Become(e, To([exec[e] EXCEPT !.round = 2], setup.primary))

\* Nor does the corrected one: canned text at no cost, or an error, with the cost of the
\* two answers forgotten.
GiveUp(e) ==
    /\ exec[e].pc = "answered"
    /\ ~exec[e].mock
    /\ exec[e].round = 2
    /\ IF setup.canned
       THEN Deliver(e, TRUE)
       ELSE Become(e, [exec[e] EXCEPT !.pc = "error"])

Question(e) ==
    \/ Answer(e) \/ Template(e) \/ Unsupported(e) \/ Transient(e) \/ Refused(e)
    \/ FallBack(e) \/ Fits(e) \/ Correct(e) \/ GiveUp(e)

Next ==
    \/ \E e \in Executions :
         \/ Begin(e) \/ Gate(e) \/ Pass(e) \/ Complete(e) \/ Abort(e)
         \/ Ask(e) \/ Question(e)
    \/ \E p \in Processes : Restart(p)

Spec == Init /\ [][Next]_gatewayVars

-----------------------------------------------------------------------------
(* Properties *)

Overshoot(n) == 2 * Calls * n

\* The ceiling bounds what a process spends on a run, however many executions of it pass
\* their gates before they ask: the executions of the process overshoot it by one stage
\* each at most (engine.py:245, gateway.py:254).
OverspendBounded ==
    \A p \in Processes :
        usage[p] < Ceiling + Overshoot(Cardinality({e \in Executions : Home[e] = p}))

\* "A provider outage must not be presented as a successful synthetic answer": where
\* canned text is not allowed no stage is ever given it, whichever of the retries, the
\* fallbacks and the correction failed (gateway.py:122).
NoCannedAnswers ==
    ~setup.canned /\ setup.primary # "mock" => \A e \in Executions : ~exec[e].fed

\* An execution overspends by what was in flight and no more, and never takes a canned text
\* for a model's answer outside mock mode (gateway.py:122, gateway.py:207).
GatewayHolds == OverspendBounded /\ NoCannedAnswers
=============================================================================
