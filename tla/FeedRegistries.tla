--------------------------- MODULE FeedRegistries ---------------------------
\* The registries of the versioned interface that live in memory: signals, subscriptions and
\* the network of experts.  The routes that would add and match experts call methods the
\* network does not have and fail; its methods are taken as called all the same.
EXTENDS RowStore

CONSTANTS
    Burst,    \* signals in a minute that are no anomaly yet (20)
    Top       \* recommendations kept (5)

\* All rows of a kind make place for others.
Replace(p, kind, rows) ==
    /\ next + Cardinality(rows) - 1 <= Room[desk]
    /\ store' = [store EXCEPT ![p] = (@ \ Of(p, kind)) \union rows]
    /\ next' = next + Cardinality(rows)
    /\ UNCHANGED desk

----------------------------------------------------------------------------
\* Signals.
\* More than Burst signals within a minute come before the gravity of the one at hand.
Anomaly(p, severity, sure, rush) ==
    IF rush THEN {"volume"} ELSE IF severity = "critical" /\ sure THEN {"severity"} ELSE {}

Ingest(p, severity, sure, rush) ==
    /\ rush => Cardinality(Of(p, "signal")) + 1 > Burst
    /\ Put(p, {Row("signal", next, {}, {}, severity)}
              \union {Row("anomaly", next + 1, {next}, {}, kind) :
                            kind \in Anomaly(p, severity, sure, rush)})

Grave(rows) ==
    IF \E row \in rows : row.mark = "critical" THEN "critical"
    ELSE IF \E row \in rows : row.mark = "high" THEN "high" ELSE "low"

Heard(p, named) == {row \in Of(p, "signal") : row.id \in named}

\* The assessment lists what it was asked about, known or not.
Fuse(p, named) ==
    /\ Cardinality(Heard(p, named)) >= 2
    /\ Put(p, {Row("fused", next, named, {}, Grave(Heard(p, named)))})

\* A threat keeps the texts of the signals found.
CorrelateSignals(p, named) ==
    /\ Cardinality(Heard(p, named)) >= 2
    /\ Put(p, {Row("threatened", next, {row.id : row \in Heard(p, named)}, {},
                   Grave(Heard(p, named)))})

\* Asking for the alerts makes them anew, from all that is grave.
GenerateAlerts(p) ==
    LET grave == {row \in Of(p, "signal") \union Of(p, "fused") \union Of(p, "threatened") :
                    row.mark \in {"critical", "high"}}
        n == Numbered(grave)
    IN  Replace(p, "alert", {Row("alert", next + n[row], {row.id}, {}, row.mark) : row \in grave})

----------------------------------------------------------------------------
\* Subscriptions, each of a tenant; nothing executes them.
Tenants == SUBSET Tags

CreateSubscription(p, tenant) == Put(p, {Row("subscription", next, {}, tenant, "ACTIVE")})

\* Another tenant's subscription is refused to whoever has not every scope.
Reaches(p, n, tenant, everything) ==
    Has(p, "subscription", n) /\ (The(p, n).tags = tenant \/ everything)

Switch(p, n, tenant, everything, status) ==
    /\ Reaches(p, n, tenant, everything)
    /\ PutFor(p, The(p, n), [The(p, n) EXCEPT !.mark = status], {})

DeleteSubscription(p, n, tenant, everything) ==
    /\ Reaches(p, n, tenant, everything)
    /\ store' = [store EXCEPT ![p] = @ \ {The(p, n)}]
    /\ UNCHANGED <<desk, next>>

----------------------------------------------------------------------------
\* Experts, with their areas as tags and their collaborators as references.
Edges(first, n, areas) ==
    LET k == Numbered(areas)
    IN  {Row("edge", first + k[area], {n}, {area}, "specializes_in") : area \in areas}

AddExpert(p, areas) ==
    Put(p, {Row("expert", next, {}, areas, "")} \union Edges(next + 1, next, areas))

\* The matches of the last question are kept, whoever asked: whoever has an area it names,
\* others when field and influence suffice.
MatchExperts(p, named, matched) ==
    LET k == Numbered(matched)
    IN  /\ matched \subseteq Of(p, "expert")
        /\ {row \in Of(p, "expert") : row.tags \cap named # {}} \subseteq matched
        /\ Replace(p, "match", {Row("match", next + k[row], {row.id}, {}, "") : row \in matched})

\* Nothing keeps an expert from collaborating with himself, or twice.
AddCollaboration(p, a, b) ==
    /\ Has(p, "expert", a) /\ Has(p, "expert", b)
    /\ next <= Room[desk]
    /\ store' = [store EXCEPT ![p] =
            {IF row.id = a THEN [row EXCEPT !.refs = @ \union {b}]
             ELSE IF row.id = b THEN [row EXCEPT !.refs = @ \union {a}] ELSE row : row \in @}
            \union {Row("edge", next, {a, b}, {}, "collaborates_with")}]
    /\ next' = next + 1
    /\ UNCHANGED desk

\* Whoever shares an area is recommended, others when field and influence suffice.
Recommend(p, n, others) ==
    LET rest == Of(p, "expert") \ {The(p, n)}
        alike == {row \in rest : row.tags \cap The(p, n).tags # {}}
        k == Numbered(others)
    IN  /\ Has(p, "expert", n)
        /\ others \subseteq rest /\ Cardinality(others) <= Top
        /\ alike \subseteq others \/ Cardinality(others) = Top
        /\ Replace(p, "recommendation",
                   {Row("recommendation", next + k[row], {n, row.id}, {}, "") : row \in others})

\* Mutant: areas that are added later are not drawn.
TrackUndrawn(p, n, areas) ==
    /\ Has(p, "expert", n)
    /\ PutFor(p, The(p, n), [The(p, n) EXCEPT !.tags = areas], {})

\* Areas that were given up stay in the graph.
TrackExpertise(p, n, areas) ==
    /\ Has(p, "expert", n)
    /\ PutFor(p, The(p, n), [The(p, n) EXCEPT !.tags = areas],
              Edges(next, n, areas \ The(p, n).tags))
=============================================================================
