-------------------------- MODULE ThreatRegistries --------------------------
\* The operations of the registries of routers/ that relate rows to each other: the campaign
\* tracker, the correlation engine, the knowledge base, the predictive analyzer, the
\* collector, the crawler, the dark web monitor and the emulation engine.
EXTENDS RowStore

CONSTANT Phases    \* phases of an emulation plan (6)

----------------------------------------------------------------------------
\* The campaign tracker.
CreateCampaign(p, actor) == Put(p, {Row("campaign", next, {}, {}, actor)})

AddEvent(p, c, tag) ==
    /\ Has(p, "campaign", c)
    /\ PutFor(p, The(p, c), [The(p, c) EXCEPT !.tags = @ \union {tag}],
              {Row("event", next, {c}, {tag}, "")})

\* A target is taken for any campaign.
AddTarget(p, c) == Put(p, {Row("target", next, {c}, {}, "")})

\* So is an indicator; the campaign, if known, is laid to the first actor it links to.
AddAttribution(p, c, actor) ==
    LET row == Row("attribution", next, {c}, {}, actor)
    IN  \/ ~Has(p, "campaign", c) /\ Put(p, {row})
        \/ /\ Has(p, "campaign", c)
           /\ PutFor(p, The(p, c), [The(p, c) EXCEPT !.mark = IF actor = "" THEN @ ELSE actor],
                     {row})

\* Forty for any actor linked to either campaign, thirty for the techniques they share,
\* thirty for the same actor.
SameActor(p, a, b) ==
    LET ca == The(p, a)
        cb == The(p, b)
        linked == \E row \in Of(p, "attribution") : row.mark # "" /\ row.refs \subseteq {a, b}
        all == Cardinality(ca.tags \union cb.tags)
        both == Cardinality(ca.tags \intersect cb.tags)
        flat == (IF linked THEN 40 ELSE 0) + (IF ca.mark = cb.mark /\ ca.mark # "" THEN 30 ELSE 0)
    IN  IF all = 0 THEN flat > 60 ELSE flat * all + 30 * both > 60 * all

CorrelateCampaigns(p, a, b) ==
    /\ Has(p, "campaign", a) /\ Has(p, "campaign", b)
    /\ Put(p, {Row("kinship", next, {a, b}, The(p, a).tags \intersect The(p, b).tags,
                   IF SameActor(p, a, b) THEN "same" ELSE "apart")})

\* Mutant: a prediction is made for any campaign.
PredictUnchecked(p, c) == Put(p, {Row("prediction", next, {c}, {}, "")})

PredictCampaign(p, c) ==
    /\ Has(p, "campaign", c)
    /\ Put(p, {Row("prediction", next, {c}, {}, "")})

----------------------------------------------------------------------------
\* The correlation engine.
AddIoc(p, tags) == Put(p, {Row("ioc", next, {}, tags, "")})

Correlate(p, a, b) ==
    /\ Has(p, "ioc", a) /\ Has(p, "ioc", b)
    /\ Put(p, {Row("correlation", next, {a, b}, The(p, a).tags \intersect The(p, b).tags, "")})

LinkCampaign(p, c, i) == Put(p, {Row("link", next, {c, i}, {}, "")})

\* Of the indicators a pattern names those that are known.
MatchPattern(p, named) ==
    Put(p, {Row("match", next, {i \in named : Has(p, "ioc", i)}, {}, "")})

CreateActorProfile(p) == Put(p, {Row("profiled", next, {}, {}, "")})

GenerateReport(p) ==
    Put(p, {Row("report", next, UNION {row.refs : row \in Of(p, "correlation")}, {}, "")})

----------------------------------------------------------------------------
\* The knowledge base.  Actors and incidents name techniques that need not exist; the
\* graph draws edges only to those that do.
AddTtp(p) == Put(p, {Row("ttp", next, {}, {}, "")})
AddActor(p, ttps) == Put(p, {Row("actor", next, ttps, {}, "")})
AddIncident(p, ttps) == Put(p, {Row("incident", next, ttps, {}, "")})

\* A question is kept, its answer is not.
QueryKnowledge(p) == Put(p, {Row("asked", next, {}, {}, "")})

BuildRelationshipGraph(p) ==
    LET users == Of(p, "actor") \union Of(p, "incident")
        drawn == {row \in users : \E t \in row.refs : Has(p, "ttp", t)}
    IN  Put(p, {Row("graph", next,
                    UNION {{row.id} \union {t \in row.refs : Has(p, "ttp", t)} : row \in drawn},
                    {}, "")})

----------------------------------------------------------------------------
\* The predictive analyzer.  Each call makes every prediction again.
AddIndicator(p, tags, sure) ==
    Put(p, {Row("indicator", next, {}, tags, IF sure THEN "sure" ELSE "")})
AddThreatActor(p, tags, able) ==
    Put(p, {Row("threatActor", next, {}, tags, IF able THEN "able" ELSE "")})

PredictThreats(p) ==
    LET grounds == {row \in Of(p, "indicator") : row.mark = "sure"}
                   \union {row \in Of(p, "threatActor") : row.mark = "able"}
        n == Numbered(grounds)
    IN  Put(p, {Row("threat", next + n[row], {row.id}, {}, row.mark) : row \in grounds})

\* A correlation for every tag that several indicators share.
CorrelateThreats(p) ==
    LET carriers(tag) == {row.id : row \in {x \in Of(p, "indicator") : tag \in x.tags}}
        common == {tag \in Tags : Cardinality(carriers(tag)) > 1}
        n == Numbered(common)
    IN  Put(p, {Row("correlated", next + n[tag], carriers(tag), {tag}, "") : tag \in common})

BuildThreatGraph(p) ==
    LET edges == {e \in Of(p, "indicator") \X Of(p, "threatActor") :
                    e[1].tags \intersect e[2].tags # {}}
    IN  Put(p, {Row("threatGraph", next, UNION {{e[1].id, e[2].id} : e \in edges}, {}, "")})

----------------------------------------------------------------------------
\* The collector.  A collection is registered as running, asks the sources named, or all,
\* and is completed with its findings and their fusion; asking one of the kind "api" fails
\* and leaves it running.  A row stands for what one source found: its mark is the value,
\* which the kind of the source decides.
AddSource(p, kind) == Put(p, {Row("source", next, {}, {}, kind)})

\* Of the findings of one value the fusion keeps the first that came.
Distinct(found) ==
    {CHOOSE row \in found : row.mark = value : value \in {row.mark : row \in found}}

\* Mutant: the fusion keeps every finding.
CollectedTwice(p, task, asked) ==
    LET n == Numbered(asked)
        found == {Row("finding", next + 1 + n[s], {task}, {}, s.mark) : s \in asked}
    IN  {Row("task", task, {}, {}, "completed")} \union found
        \union {Row("fusion", next + 1 + Cardinality(asked),
                    {task} \union {row.id : row \in found}, {}, "")}

Collected(p, task, asked) ==
    LET n == Numbered(asked)
        found == {Row("finding", next + 1 + n[s], {task}, {}, s.mark) : s \in asked}
    IN  {Row("task", task, {}, {}, "completed")} \union found
        \union {Row("fusion", next + 1 + Cardinality(asked),
                    {task} \union {row.id : row \in Distinct(found)}, {}, "")}

Collect(p, named) ==
    LET asked == IF named = {} THEN Of(p, "source")
                 ELSE {row \in Of(p, "source") : row.id \in named}
    IN  IF \E row \in asked : row.mark = "api"
        THEN Put(p, {Row("task", next, {}, {}, "running")})
        ELSE Put(p, Collected(p, next, asked))

\* The crawler makes its pages from a count; with a depth of nought it fails at the first
\* and leaves the crawl running.
StartCrawl(p, depth, pages) ==
    IF depth = 0 /\ pages > 0
    THEN Put(p, {Row("crawl", next, {}, {}, "running")})
    ELSE Put(p, {Row("crawl", next, {}, {}, "completed")}
                \union {Row("page", next + k, {next}, {}, "") : k \in 1..pages})

----------------------------------------------------------------------------
\* The dark web monitor.
Leak(n, entities) ==
    {Row("leak", n, {}, {}, "")}
    \union (IF entities THEN {Row("alert", n + 1, {n}, {}, "")} ELSE {})

AddLeak(p, entities) == Put(p, Leak(next, entities))

\* A scan finds any of the places; each leak raises an alert and one exposure, kept once
\* however often it is met.
Scan(p, places) ==
    LET n == Numbered(places)
        fresh == {tag \in places : \A row \in Of(p, "exposure") : tag \notin row.tags}
        m == Numbered(fresh)
        base == next + 2 * Cardinality(places)
    IN  Put(p, (UNION {Leak(next + 2 * n[tag], TRUE) : tag \in places})
               \union {Row("exposure", base + m[tag], {}, {tag}, "") : tag \in fresh}
               \union {Row("scan", base + Cardinality(fresh), {}, places, "")})

StartRemediation(p, leak) ==
    /\ Has(p, "leak", leak)
    /\ Put(p, {Row("remediation", next, {leak}, {}, "in_progress")})

----------------------------------------------------------------------------
\* The emulation engine.
CreateProfile(p) == Put(p, {Row("profile", next, {}, {}, "")})

CreatePlan(p, profile) ==
    /\ Has(p, "profile", profile)
    /\ Put(p, {Row("plan", next, {profile}, {}, "")}
              \union {Row("phase", next + k, {next}, {}, "pending") : k \in 1..Phases})

\* A phase may be executed again, and tells its gaps again.
ExecutePhase(p, phase) ==
    /\ Has(p, "phase", phase)
    /\ PutFor(p, The(p, phase), [The(p, phase) EXCEPT !.mark = "completed"],
              {Row("simulation", next, The(p, phase).refs, {}, ""),
               Row("gap", next + 1, The(p, phase).refs, {}, "")})
=============================================================================
