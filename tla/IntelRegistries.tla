-------------------------- MODULE IntelRegistries ---------------------------
\* The operations of the remaining registries mounted beside them: sharing, exchange, supply
\* chain, hunting queries, forecasts, quality, campaign anticipation, attribution and
\* disinformation.
EXTENDS RowStore

CONSTANT Depth    \* nodes a search for a path looks at (5)

\* A row kept under a name its caller chose: given again, it takes the place of the old one.
PutNamed(p, kind, name, mark) ==
    LET old == {row \in Of(p, kind) : row.tags = {name}}
    IN  \/ old = {} /\ Put(p, {Row(kind, next, {}, {name}, mark)})
        \/ \E row \in old : PutFor(p, row, [row EXCEPT !.mark = mark], {})

----------------------------------------------------------------------------
\* Sharing.  Nothing asks for an agreement before intelligence is shared.
CreateAgreement(p) == Put(p, {Row("agreement", next, {}, {}, "active")})
CreatePolicy(p) == Put(p, {Row("policy", next, {}, {}, "")})
ShareIntel(p) == Put(p, {Row("shared", next, {}, {}, "sent")})

AcknowledgeExchange(p, n) ==
    /\ Has(p, "shared", n)
    /\ PutFor(p, The(p, n), [The(p, n) EXCEPT !.mark = "acknowledged"], {})

----------------------------------------------------------------------------
\* Exchange.  A package that does not exist fails the exchange; one too sensitive for the
\* partner is only noted.
CreatePackage(p, level) == Put(p, {Row("package", next, {}, {}, level)})
RegisterPartner(p, trust) == Put(p, {Row("partner", next, {}, {}, trust)})

Exchange(p, from, to, packages) ==
    /\ Has(p, "partner", from) /\ Has(p, "partner", to)
    /\ Put(p, {Row("exchange", next, {from, to} \union {n \in packages : Has(p, "package", n)},
                   {}, IF \A n \in packages : Has(p, "package", n) THEN "completed" ELSE "failed")})

----------------------------------------------------------------------------
\* Supply chain.  The search looks at Depth nodes, nearest first, before it gives up.
AddNode(p) == Put(p, {Row("node", next, {}, {}, "")})

AddDependency(p, a, b) ==
    /\ Has(p, "node", a) /\ Has(p, "node", b)
    /\ PutFor(p, The(p, a), [The(p, a) EXCEPT !.refs = @ \union {b}], {})

Around(p, a) ==
    LET near[k \in 0..Room[desk]] ==
            IF k = 0 THEN {a}
            ELSE LET close == near[k - 1]
                 IN  close \union UNION {row.refs : row \in {x \in Of(p, "node") : x.id \in close}}
    IN  near

\* Whether a path is found: it is when every node nearer than the target may be looked at,
\* it is not when those before its predecessor already take all, and may be in between.
MayFind(p, a, b, found) ==
    LET near == Around(p, a)
        steps == {k \in 0..Room[desk] : b \in near[k]}
        first == CHOOSE k \in steps : \A n \in steps : k <= n
        before(k) == IF k < 0 THEN 0 ELSE Cardinality(near[k])
    IN  IF a = b THEN found
        ELSE IF steps = {} THEN ~found
        ELSE IF found THEN before(first - 2) + 1 <= Depth
        ELSE before(first - 1) > Depth

MapAttackPath(p, a, b) ==
    \E found \in BOOLEAN :
        /\ MayFind(p, a, b, found)
        /\ Put(p, {Row("path", next, {a, b}, {}, IF found THEN "found" ELSE "")})

AssessRisk(p) == Put(p, {Row("risk", next, {row.id : row \in Of(p, "path")}, {}, "")})

----------------------------------------------------------------------------
\* Hunting queries.  Asking for the gaps stores one for every area too little covered, again
\* at each question.
RegisterQuery(p, areas) == Put(p, {Row("query", next, {}, areas, "pending")})

RunQuery(p, n) ==
    /\ Has(p, "query", n)
    /\ PutFor(p, The(p, n), [The(p, n) EXCEPT !.mark = "completed"], {})

IdentifyGaps(p) ==
    LET bare == {area \in Tags : \A row \in Of(p, "query") : area \notin row.tags}
        n == Numbered(bare)
    IN  Put(p, {Row("hole", next + n[area], {}, {area}, "high") : area \in bare})

OptimizeQuery(p, n) ==
    /\ Has(p, "query", n)
    /\ Put(p, {Row("optimization", next, {n}, {}, "")})

----------------------------------------------------------------------------
\* Forecasts, quality, anticipation, attribution and disinformation.
GenerateForecast(p) == Put(p, {Row("forecast", next, {}, {}, "")})
RegisterEmergingVector(p) == Put(p, {Row("vector", next, {}, {}, "")})

AddItem(p, source) == Put(p, {Row("item", next, {}, {source}, "")})
AssessSource(p, source) == PutNamed(p, "reliability", source, "")

\* Consistency is taken from what is known of the item's source when it is evaluated.
EvaluateQuality(p, n) ==
    /\ Has(p, "item", n)
    /\ Put(p, {Row("score", next,
                   {n} \union {row.id : row \in {x \in Of(p, "reliability") : x.tags = The(p, n).tags}},
                   {}, "")})

AddPhase(p) == Put(p, {Row("campaignPhase", next, {}, {}, "")})
ForecastCampaign(p) ==
    Put(p, {Row("outlook", next, {row.id : row \in Of(p, "campaignPhase")}, {}, "")})
AssessStrategicThreat(p) == Put(p, {Row("assessment", next, {}, {}, "")})

RegisterActor(p, name) == PutNamed(p, "profileOf", name, "")

\* The first of the actors an indicator matches; two alternatives when that is not sure.
Attribute(p, matched, sure) ==
    LET actors == {row.id : row \in Of(p, "profileOf")}
        hit == {row.id : row \in {x \in Of(p, "profileOf") : x.tags \subseteq matched}}
        least(S) == {n \in S : \A k \in S : n <= k}
        others == IF hit # {} /\ sure THEN {} ELSE least(actors) \union least(actors \ least(actors))
    IN  Put(p, {Row("attributed", next, least(hit) \union others, {}, "")})

RegisterSource(p, name, credible) ==
    PutNamed(p, "sourceScore", name, IF credible THEN "" ELSE "low")

Risk(score) ==
    IF score > 70 THEN "critical" ELSE IF score > 50 THEN "high"
    ELSE IF score > 30 THEN "medium" ELSE "low"

\* Fifteen points for an emotional word, twenty-five for a conspiracy, thirty for a source of
\* low credibility.
Detect(p, name, emotional, conspiracy) ==
    LET source == {row \in Of(p, "sourceScore") : row.tags = {name}}
        low == IF \E row \in source : row.mark = "low" THEN 30 ELSE 0
    IN  Put(p, {Row("analysis", next, {row.id : row \in source}, {},
                    Risk(15 * emotional + 25 * conspiracy + low))})
=============================================================================
