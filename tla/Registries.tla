----------------------------- MODULE Registries -----------------------------
(***************************************************************************)
(* The registries mounted beside the research service, each looked at by   *)
(* itself: requests reach any replica and name what any of them handed     *)
(* out.                                                                    *)
(***************************************************************************)
EXTENDS ThreatRegistries, IntelRegistries, FeedRegistries

----------------------------------------------------------------------------
CampaignStep(p) ==
    \/ \E actor \in {"", "actor"} : CreateCampaign(p, actor)
    \/ \E c \in Named, tag \in Tags : AddEvent(p, c, tag)
    \/ \E c \in Named : AddTarget(p, c) \/ PredictCampaign(p, c)
    \/ \E c \in Named, actor \in {"", "actor"} : AddAttribution(p, c, actor)
    \/ \E a, b \in Named : CorrelateCampaigns(p, a, b)

CorrelationStep(p) ==
    \/ \E tags \in SUBSET Tags : AddIoc(p, tags)
    \/ CreateActorProfile(p) \/ GenerateReport(p)
    \/ \E a, b \in Named : Correlate(p, a, b) \/ LinkCampaign(p, a, b) \/ MatchPattern(p, {a, b})

KnowledgeStep(p) ==
    \/ AddTtp(p)
    \/ \E t \in Named : AddActor(p, {t}) \/ AddIncident(p, {t})
    \/ BuildRelationshipGraph(p) \/ QueryKnowledge(p)

PredictiveStep(p) ==
    \/ \E tags \in SUBSET Tags, sure \in BOOLEAN :
            AddIndicator(p, tags, sure) \/ AddThreatActor(p, tags, sure)
    \/ PredictThreats(p) \/ CorrelateThreats(p) \/ BuildThreatGraph(p)

CollectorStep(p) ==
    \/ \E kind \in {"api", "web"} : AddSource(p, kind)
    \/ \E named \in {{}} \union {{a, b} : a, b \in Named} : Collect(p, named)
    \/ \E depth, pages \in 0..1 : StartCrawl(p, depth, pages)

MonitorStep(p) ==
    \/ \E entities \in BOOLEAN : AddLeak(p, entities)
    \/ \E places \in SUBSET Tags : Scan(p, places)
    \/ \E leak \in Named : StartRemediation(p, leak)

EmulationStep(p) ==
    \/ CreateProfile(p)
    \/ \E n \in Named : CreatePlan(p, n) \/ ExecutePhase(p, n)

SharingStep(p) ==
    \/ CreateAgreement(p) \/ CreatePolicy(p) \/ ShareIntel(p)
    \/ \E n \in Named : AcknowledgeExchange(p, n)

ExchangeStep(p) ==
    \/ \E mark \in {"", "red"} : CreatePackage(p, mark)
    \/ \E mark \in {"", "trusted"} : RegisterPartner(p, mark)
    \/ \E a, b, n \in Named : Exchange(p, a, b, {n})

SupplyStep(p) ==
    \/ AddNode(p) \/ AssessRisk(p)
    \/ \E a, b \in Named : AddDependency(p, a, b) \/ MapAttackPath(p, a, b)

HuntingStep(p) ==
    \/ \E areas \in SUBSET Tags : RegisterQuery(p, areas)
    \/ IdentifyGaps(p)
    \/ \E n \in Named : RunQuery(p, n) \/ OptimizeQuery(p, n)

OutlookStep(p) ==
    \/ GenerateForecast(p) \/ RegisterEmergingVector(p)
    \/ AddPhase(p) \/ ForecastCampaign(p) \/ AssessStrategicThreat(p)

JudgementStep(p) ==
    \/ \E source \in Tags :
            AddItem(p, source) \/ AssessSource(p, source) \/ RegisterActor(p, source)
    \/ \E n \in Named : EvaluateQuality(p, n)
    \/ \E matched \in SUBSET Tags, sure \in BOOLEAN : Attribute(p, matched, sure)
    \/ \E source \in Tags, credible \in BOOLEAN : RegisterSource(p, source, credible)
    \/ \E source \in Tags, words \in {<<0, 0>>, <<2, 1>>} : Detect(p, source, words[1], words[2])

SignalStep(p) ==
    \/ \E severity \in {"critical", "low"}, sure, rush \in BOOLEAN : Ingest(p, severity, sure, rush)
    \/ \E named \in {{a, b, c} : a, b \in Named \ {Unknown}, c \in {Unknown, next - 1}} :
            Fuse(p, named) \/ CorrelateSignals(p, named)
    \/ GenerateAlerts(p)

SubscriptionStep(p) ==
    \/ \E tenant \in Tenants : CreateSubscription(p, tenant)
    \/ \E n \in Named, tenant \in Tenants, everything \in BOOLEAN :
            \/ \E status \in {"ACTIVE", "PAUSED"} : Switch(p, n, tenant, everything, status)
            \/ DeleteSubscription(p, n, tenant, everything)

ExpertStep(p) ==
    \/ \E areas \in SUBSET Tags : AddExpert(p, areas)
    \/ \E named \in SUBSET Tags, matched \in SUBSET Of(p, "expert") : MatchExperts(p, named, matched)
    \/ \E a, b \in Named : a <= b /\ AddCollaboration(p, a, b)
    \/ \E n \in Named, others \in SUBSET Of(p, "expert") : Recommend(p, n, others)
    \/ \E n \in Named, areas \in SUBSET Tags : TrackExpertise(p, n, areas)

Request(p) ==
    \/ desk = "campaigns" /\ CampaignStep(p)
    \/ desk = "correlation" /\ CorrelationStep(p)
    \/ desk = "knowledge" /\ KnowledgeStep(p)
    \/ desk = "predictive" /\ PredictiveStep(p)
    \/ desk = "collector" /\ CollectorStep(p)
    \/ desk = "monitor" /\ MonitorStep(p)
    \/ desk = "emulation" /\ EmulationStep(p)
    \/ desk = "sharing" /\ SharingStep(p)
    \/ desk = "exchange" /\ ExchangeStep(p)
    \/ desk = "supply" /\ SupplyStep(p)
    \/ desk = "hunting" /\ HuntingStep(p)
    \/ desk = "outlook" /\ OutlookStep(p)
    \/ desk = "judgement" /\ JudgementStep(p)
    \/ desk = "signals" /\ SignalStep(p)
    \/ desk = "subscriptions" /\ SubscriptionStep(p)
    \/ desk = "experts" /\ ExpertStep(p)

Next == \E p \in Processes : Start(p) \/ (Ready(p) /\ Request(p))

Spec == Init /\ [][Next]_registryVars

----------------------------------------------------------------------------
\* What a registry derives rests on rows of the same process, whichever replica a request
\* reached and whatever restarts came between.  What it takes on trust is left out: targets,
\* indicators of attribution, links, the ends of an attack path, and the techniques actors
\* and incidents name, and the signals beside the two a fusion needs (campaign tracker
\* 152-346, correlation engine 157-271, knowledge base 316-365, dark web monitor 277-301,
\* emulation engine 172-272, signal_detection.py 182-236).
OnTrust == {"target", "attribution", "link", "actor", "incident", "path", "fused"}

DerivedRestsOnRows ==
    \A p \in Processes : \A row \in store[p] :
        row.kind \notin OnTrust => \A n \in row.refs : \E other \in store[p] : other.id = n

\* A fusion names findings of its own collection only, and of each value one.
Fuses(fusion, task, found) ==
    /\ fusion.kind = "fusion" /\ task.id \in fusion.refs
    /\ fusion.refs \subseteq {task.id} \union {row.id : row \in found}
    /\ \A row \in found :
          \E one \in found :
              /\ one.mark = row.mark
              /\ \A other \in found :
                    other.mark = row.mark => (other.id \in fusion.refs <=> other = one)

\* A collection or a crawl is there as a whole or not at all: one that failed half way has
\* no finding, page or fusion, one that is completed has a fusion with each value it found
\* once, whatever sources found the same (dynamic_osint_collector.py 168-226, 273-321,
\* universal_crawler.py 96-152).
WholeOrNothing ==
    \A p \in Processes : \A task \in Of(p, "task") \union Of(p, "crawl") :
        LET parts == {row \in store[p] : task.id \in row.refs}
            found == {row \in parts : row.kind = "finding"}
        IN  /\ task.mark = "running" => parts = {}
            /\ task.kind = "task" /\ task.mark = "completed" =>
                    \E fusion \in parts : Fuses(fusion, task, found)

\* Partners in the network of experts know of each other, and whatever an expert is now said
\* to know is drawn in the graph, whatever was added, dropped and added again
\* (expert_network.py 285-313, 379-417).
NetworkAgrees ==
    \A p \in Processes : \A row \in Of(p, "expert") :
        /\ \A other \in Of(p, "expert") : other.id \in row.refs => row.id \in other.refs
        /\ \A area \in row.tags :
              \E edge \in Of(p, "edge") : edge.refs = {row.id} /\ edge.tags = {area}

\* What the mounted registries derive stays backed by their rows, and a refused request
\* leaves no half of its work, but for the two handlers that fail after their first write;
\* the experts and their graph agree.
RegistriesHold == DerivedRestsOnRows /\ WholeOrNothing /\ NetworkAgrees
=============================================================================
