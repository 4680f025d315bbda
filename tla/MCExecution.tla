---------------------------- MODULE MCExecution ----------------------------
\* Small instances of the parts an execution rests on, for TLC.
EXTENDS ExecutionParts, TLC

CONSTANTS chunk, shelf, page, husk, x1, x2, p

VARIABLE part

Known == {chunk}
Rows == {shelf}
Pages == {page, husk}
Snippets == {page}

\* Two executions of the run in one process.
Homes == x1 :> p @@ x2 :> p

\* Two replicas and two feeds that share an article.
Agents == 1 :> chunk @@ 2 :> shelf
ListsOf == 1 :> {page, husk} @@ 2 :> {page}

\* Two runs whose identifiers share their beginning; a draft cites a beginning and what is
\* not there.
RowIds == {<<0, 0>>, <<0, 1>>}
SomeDrafts == {{<<0>>, <<1, 1>>}, {<<0, 0>>, <<0, 1, 1>>}}
NotThere == <<2>>

\* In the model's prose: a beginning of some identifiers, and a token in the old form.
SomeProse == {[kind |-> "C", text |-> <<0, 1>>, left |-> FALSE],
              [kind |-> "S", text |-> <<1>>, left |-> TRUE]}

\* Three propositions on one subject, with six to eight words.
Proposition(value, says, n) ==
    [subject |-> "cell", value |-> value, says |-> says, words |-> 1..n]

Sayings == {Proposition(0, "rises", 6), Proposition(0, "rises", 7), Proposition(0, "falls", 7),
            Proposition(100, "rises", 7), Proposition(89, "rises", 8)}
Opposites == {<<"rises", "falls">>}
NoPenalty == {<<FALSE, FALSE>>}

reportState == <<claim, source, report, finding, printed>>
ledgerState == <<use, records, given, rows, clashes>>
paperState == <<reportState, ledgerState>>
toolState == <<tool, ledger, held, exceeded, saved, stored, clock, grants, dropped, logs, buckets,
               rank, breaker, flight, task>>
gateState == <<setup, usage, cost, exec>>
newsState == <<article, crawl, notices>>

ExecutionInit ==
    /\ part \in {"discovery", "gateway", "library", "news", "reports", "ledger"}
    /\ Init
    /\ Gates!Init
    /\ Tools!Init
    /\ Crawl!Init
    /\ Paper!Init
    /\ Register!Init
    /\ part # "discovery" => conf = {}
    /\ part # "library" => tool = "ledger"
    /\ part # "ledger" => use = "registry"
    /\ part # "gateway" => setup = [primary |-> "mock", secondary |-> FALSE, canned |-> FALSE]

ExecutionNext ==
    \/ part = "discovery" /\ Next /\ UNCHANGED <<part, gateState, toolState, newsState, paperState>>
    \/ part = "gateway" /\ Gates!Next /\ UNCHANGED <<part, discoveryVars, toolState, newsState, paperState>>
    \/ part = "library" /\ Tools!Next /\ UNCHANGED <<part, discoveryVars, gateState, newsState, paperState>>
    \/ part = "news" /\ Crawl!Next
        /\ UNCHANGED <<part, discoveryVars, gateState, toolState, paperState>>
    \/ part = "reports" /\ Paper!Next
        /\ UNCHANGED <<part, discoveryVars, gateState, toolState, newsState, ledgerState>>
    \/ part = "ledger" /\ Register!Next
        /\ UNCHANGED <<part, discoveryVars, gateState, toolState, newsState, reportState>>

ExecutionSpec ==
    /\ ExecutionInit
    /\ [][ExecutionNext]_<<part, discoveryVars, gateState, toolState, newsState, paperState>>
    /\ WF_discoveryVars(part = "discovery" /\ Step)

TypesOK ==
    /\ TypeOK /\ Gates!TypeOK /\ Tools!TypeOK /\ Crawl!TypeOK
    /\ Paper!TypeOK /\ Register!TypeOK
=============================================================================
