--------------------------- MODULE ServiceProofs ---------------------------
(***************************************************************************)
(* Safety of the parts of the service, each by itself, for any values of   *)
(* their constants: what the registries derive names rows they have, and   *)
(* their collections are there as a whole; readers of the telemetry miss   *)
(* what the design leaves open and no more; answers rest on finished runs. *)
(* The parts are instances, so that their names do not meet.               *)
(***************************************************************************)
EXTENDS ServiceParts, FiniteSetTheorems, SequenceTheorems, WellFoundedInduction, TLAPS

-----------------------------------------------------------------------------
(* The registries *)

\* Rows of these kinds go away while the registry runs; nothing derived rests on them.
Renewed == {"alert", "match", "recommendation", "subscription"}

Rests(n, S) == \E r \in S : r.id = n /\ r.kind \notin Renewed

IsRow(r) == r = Threats!Row(r.kind, r.id, r.refs, r.tags, r.mark)

\* Kinds of row by registry, as far as a property speaks of them.
Fits(kind) ==
    /\ desk = "collector" <=> kind \in {"source", "task", "finding", "fusion", "crawl", "page"}
    /\ desk = "experts" => kind \in {"expert", "edge", "match", "recommendation"}
    /\ desk # "experts" => kind \notin {"expert", "edge"}
    /\ desk = "subscriptions" <=> kind = "subscription"
    /\ desk = "emulation" => kind \notin Threats!OnTrust

\* What is derived rests on rows that stay.
Tidy(S) ==
    \A r \in S : IsRow(r) /\ Fits(r.kind) /\ (r.kind \notin Threats!OnTrust => \A n \in r.refs : Rests(n, S))

\* Identifiers are drawn in their order.
Drawn(S, n) == IsFiniteSet(S) /\ \A r \in S : r.id \in Nat /\ r.id < n

DrawnInv ==
    desk \in {"collector", "experts"} => next \in Nat /\ \A p \in Processes : Drawn(store[p], next)

\* Among the experts, where a row is looked up to be changed, an identifier names one row.
OneRowInv == desk = "experts" => \A p \in Processes : \A r, s \in store[p] : r.id = s.id => r = s

RegistryInv ==
    /\ store = [p \in Processes |-> store[p]]
    /\ \A p \in Processes : Tidy(store[p])
    /\ DrawnInv
    /\ OneRowInv
    /\ Threats!WholeOrNothing
    /\ Threats!NetworkAgrees

LEMMA TidyAdd ==
    ASSUME NEW S, NEW R, Tidy(S),
           \A r \in R : /\ IsRow(r) /\ Fits(r.kind)
                        /\ r.kind \notin Threats!OnTrust => \A n \in r.refs : Rests(n, S \union R)
    PROVE  Tidy(S \union R)
<1>1. ASSUME NEW n, Rests(n, S)
      PROVE  Rests(n, S \union R)
  BY <1>1 DEF Rests
<1>2. QED
  BY <1>1 DEF Tidy

LEMMA TidySwap ==
    ASSUME NEW S, NEW old \in S, NEW new, Tidy(S), IsRow(new),
           new.kind = old.kind, new.id = old.id,
           new.kind \notin Threats!OnTrust => \A n \in new.refs : Rests(n, S)
    PROVE  Tidy((S \ {old}) \union {new})
<1>1. ASSUME NEW n, Rests(n, S)
      PROVE  Rests(n, (S \ {old}) \union {new})
  <2>1. PICK r \in S : r.id = n /\ r.kind \notin Renewed
    BY <1>1 DEF Rests
  <2>2. CASE r = old
    BY <2>1, <2>2 DEF Rests
  <2>3. CASE r # old
    BY <2>1, <2>3 DEF Rests
  <2>4. QED
    BY <2>2, <2>3
<1>2. Fits(new.kind)
  BY DEF Tidy
<1>3. QED
  BY <1>1, <1>2 DEF Tidy

\* Rows of a renewed kind may go.
LEMMA TidyLess ==
    ASSUME NEW S, NEW T \in SUBSET S, Tidy(S), \A r \in S \ T : r.kind \in Renewed
    PROVE  Tidy(T)
<1>1. ASSUME NEW n, Rests(n, S)
      PROVE  Rests(n, T)
  BY <1>1 DEF Rests
<1>2. QED
  BY <1>1 DEF Tidy

LEMMA TidyNext ==
    ASSUME NEW q \in Processes, desk' = desk, Tidy(store'[q])
    PROVE  Tidy(store[q])'
  BY DEF Tidy, Fits, Rests, IsRow

\* What a step at one process leaves of the rows of the others.
LEMMA Elsewhere ==
    ASSUME RegistryInv, NEW p \in Processes, NEW S, store' = [store EXCEPT ![p] = S]
    PROVE  /\ store' = [q \in Processes |-> IF q = p THEN S ELSE store[q]]
           /\ store' = [q \in Processes |-> store'[q]]
<1>1. store' = [q \in Processes |-> IF q = p THEN S ELSE store[q]]
  BY DEF RegistryInv
<1>2. QED
  BY <1>1

LEMMA TidyStep ==
    ASSUME RegistryInv, NEW p \in Processes, NEW S, store' = [store EXCEPT ![p] = S],
           desk' = desk, Tidy(S)
    PROVE  (\A q \in Processes : Tidy(store[q]))'
<1>1. ASSUME NEW q \in Processes
      PROVE  Tidy(store[q])'
  <2>1. Tidy(store'[q])
    BY Elsewhere DEF RegistryInv
  <2>2. QED
    BY <2>1, TidyNext
<1>2. QED
  BY <1>1

\* At a registry of neither collections nor experts a step has only to be tidy.
LEMMA PlainStep ==
    ASSUME RegistryInv, NEW p \in Processes, NEW S,
           desk \notin {"collector", "experts"},
           store' = [store EXCEPT ![p] = S], desk' = desk, Tidy(S)
    PROVE  RegistryInv'
<1>1. (\A q \in Processes : Tidy(store[q]))'
  BY TidyStep
<1>2. \A q \in Processes : \A r \in store'[q] : r.kind \notin {"task", "crawl", "expert"}
  BY <1>1 DEF Tidy, Fits
<1>3. Threats!WholeOrNothing'
  BY <1>2 DEF Threats!WholeOrNothing, Threats!Of
<1>4. Threats!NetworkAgrees'
  BY <1>2 DEF Threats!NetworkAgrees, Threats!Of
<1>5. QED
  BY <1>1, <1>3, <1>4, Elsewhere DEF RegistryInv, DrawnInv, OneRowInv

LEMMA PlainPut ==
    ASSUME RegistryInv, NEW p \in Processes, NEW R,
           desk \notin {"collector", "experts"}, Threats!Put(p, R),
           \A r \in R : /\ IsRow(r) /\ Fits(r.kind)
                        /\ r.kind \notin Threats!OnTrust => \A n \in r.refs : Rests(n, store[p] \union R)
    PROVE  RegistryInv'
<1>1. Tidy(store[p] \union R)
  BY TidyAdd DEF RegistryInv
<1>2. QED
  BY <1>1, PlainStep DEF Threats!Put

\* One row, resting on rows that are there.
LEMMA PutOne ==
    ASSUME RegistryInv, NEW p \in Processes, desk \notin {"collector", "experts"},
           NEW kind, NEW id, NEW refs, NEW tags, NEW mark, Threats!Put(p, {Threats!Row(kind, id, refs, tags, mark)}),
           Fits(kind), kind \notin Threats!OnTrust => \A n \in refs : Rests(n, store[p])
    PROVE  RegistryInv'
<1> DEFINE R == {Threats!Row(kind, id, refs, tags, mark)}
<1>1. \A r \in R : IsRow(r) /\ r.kind = kind /\ r.refs = refs
  BY DEF IsRow, Threats!Row
<1>2. \A n : Rests(n, store[p]) => Rests(n, store[p] \union R)
  BY DEF Rests
<1> HIDE DEF R
<1>3. Threats!Put(p, R)
  BY DEF R
<1>4. QED
  BY <1>1, <1>2, <1>3, PlainPut

LEMMA PutBare ==
    ASSUME RegistryInv, NEW p \in Processes, desk \notin {"collector", "experts"},
           NEW kind, NEW id, NEW tags, NEW mark, Threats!Put(p, {Threats!Row(kind, id, {}, tags, mark)}), Fits(kind)
    PROVE  RegistryInv'
  BY PutOne

LEMMA Found ==
    ASSUME NEW p, NEW kind, NEW n, Threats!Has(p, kind, n)
    PROVE  /\ Threats!The(p, n) \in store[p] /\ Threats!The(p, n).id = n
           /\ kind \notin Renewed => Rests(n, store[p])
<1>1. PICK r \in store[p] : r.id = n /\ r.kind = kind
  BY DEF Threats!Has, Threats!Of
<1>2. Threats!The(p, n) \in store[p] /\ Threats!The(p, n).id = n
  BY <1>1, Zenon DEF Threats!The
<1>3. QED
  BY <1>1, <1>2 DEF Rests

LEMMA RowFacts ==
    ASSUME NEW kind, NEW id, NEW refs, NEW tags, NEW mark
    PROVE  /\ IsRow(Threats!Row(kind, id, refs, tags, mark))
           /\ Threats!Row(kind, id, refs, tags, mark).kind = kind
           /\ Threats!Row(kind, id, refs, tags, mark).id = id
           /\ Threats!Row(kind, id, refs, tags, mark).refs = refs
           /\ Threats!Row(kind, id, refs, tags, mark).tags = tags
           /\ Threats!Row(kind, id, refs, tags, mark).mark = mark
  BY DEF IsRow, Threats!Row

LEMMA Touched ==
    ASSUME NEW old, IsRow(old), NEW x
    PROVE  /\ [old EXCEPT !.refs = x] = Threats!Row(old.kind, old.id, x, old.tags, old.mark)
           /\ [old EXCEPT !.tags = x] = Threats!Row(old.kind, old.id, old.refs, x, old.mark)
           /\ [old EXCEPT !.mark = x] = Threats!Row(old.kind, old.id, old.refs, old.tags, x)
  BY DEF IsRow, Threats!Row

LEMMA RowIs ==
    ASSUME NEW r, NEW kind, NEW id, NEW refs, NEW tags, NEW mark, r = Threats!Row(kind, id, refs, tags, mark)
    PROVE  IsRow(r) /\ r.kind = kind /\ r.id = id /\ r.refs = refs /\ r.tags = tags /\ r.mark = mark
  BY RowFacts

\* A row replaced, with rows beside it that rest on what was there.
LEMMA PlainSwap ==
    ASSUME RegistryInv, NEW p \in Processes, NEW old \in store[p], NEW new, NEW R,
           desk \notin {"collector", "experts"}, Threats!PutFor(p, old, new, R),
           IsRow(new), new.kind = old.kind, new.id = old.id,
           new.kind \notin Threats!OnTrust => \A n \in new.refs : Rests(n, store[p]),
           \A r \in R : /\ IsRow(r) /\ Fits(r.kind)
                        /\ r.kind \notin Threats!OnTrust => \A n \in r.refs : Rests(n, store[p])
    PROVE  RegistryInv'
<1> DEFINE S == (store[p] \ {old}) \union {new}
<1>1. Tidy(store[p])
  BY DEF RegistryInv
<1>2. Tidy(S)
  BY <1>1, TidySwap
<1>3. ASSUME NEW n, Rests(n, store[p])
      PROVE  Rests(n, S)
  <2>1. PICK r \in store[p] : r.id = n /\ r.kind \notin Renewed
    BY <1>3 DEF Rests
  <2>2. CASE r = old
    BY <2>1, <2>2 DEF Rests
  <2>3. CASE r # old
    BY <2>1, <2>3 DEF Rests
  <2>4. QED
    BY <2>2, <2>3
<1>4. \A n : Rests(n, S) => Rests(n, S \union R)
  BY DEF Rests
<1>5. store' = [store EXCEPT ![p] = S \union R] /\ desk' = desk
  BY DEF Threats!PutFor
<1> HIDE DEF S
<1>6. Tidy(S \union R)
  BY <1>2, <1>3, <1>4, TidyAdd
<1>7. QED
  BY <1>5, <1>6, PlainStep

LEMMA SwapOne ==
    ASSUME RegistryInv, NEW p \in Processes, NEW old \in store[p], NEW new,
           desk \notin {"collector", "experts"},
           NEW kind, NEW id, NEW refs, NEW tags, NEW mark,
           Threats!PutFor(p, old, new, {Threats!Row(kind, id, refs, tags, mark)}),
           IsRow(new), new.kind = old.kind, new.id = old.id, new.refs = old.refs,
           Fits(kind), kind \notin Threats!OnTrust => \A n \in refs : Rests(n, store[p])
    PROVE  RegistryInv'
<1> DEFINE R == {Threats!Row(kind, id, refs, tags, mark)}
<1>1. \A r \in R : IsRow(r) /\ r.kind = kind /\ r.refs = refs
  BY RowFacts
<1>2. old.kind \notin Threats!OnTrust => \A k \in old.refs : Rests(k, store[p])
  BY DEF RegistryInv, Tidy
<1> HIDE DEF R
<1>3. Threats!PutFor(p, old, new, R)
  BY DEF R
<1>4. QED
  BY <1>1, <1>2, <1>3, PlainSwap

\* The row a request names is marked anew.
LEMMA Remark ==
    ASSUME RegistryInv, NEW p \in Processes, NEW n, NEW kind, NEW mark,
           desk \notin {"collector", "experts"}, Threats!Has(p, kind, n),
           Threats!PutFor(p, Threats!The(p, n), [Threats!The(p, n) EXCEPT !.mark = mark], {})
    PROVE  RegistryInv'
<1> DEFINE old == Threats!The(p, n)
           new == [old EXCEPT !.mark = mark]
<1>1. old \in store[p]
  BY Found
<1>2. IsRow(old) /\ (old.kind \notin Threats!OnTrust => \A k \in old.refs : Rests(k, store[p]))
  BY <1>1 DEF RegistryInv, Tidy
<1>3. /\ IsRow(new) /\ new.kind = old.kind /\ new.id = old.id /\ new.refs = old.refs
  BY <1>2 DEF IsRow, Threats!Row
<1> HIDE DEF old, new
<1>4. Threats!PutFor(p, old, new, {})
  BY DEF old, new
<1>5. QED
  BY <1>1, <1>2, <1>3, <1>4, PlainSwap

-----------------------------------------------------------------------------
(* Registries whose rows rest on one another, one by one *)

LEMMA CampaignKeeps ==
    ASSUME RegistryInv, NEW p \in Processes, desk = "campaigns", Threats!CampaignStep(p)
    PROVE  RegistryInv'
<1>0. \A kind \in {"campaign", "event", "target", "attribution", "kinship", "prediction"} : Fits(kind)
  BY DEF Fits
<1>1. ASSUME NEW actor, Threats!CreateCampaign(p, actor)
      PROVE  RegistryInv'
  BY <1>0, <1>1, PutBare DEF Threats!CreateCampaign
<1>2. ASSUME NEW c, NEW tag, Threats!AddEvent(p, c, tag)
      PROVE  RegistryInv'
  <2> DEFINE old == Threats!The(p, c)
             tags == old.tags \union {tag}
             new == [old EXCEPT !.tags = tags]
             refs == {c}
  <2>0. Threats!Has(p, "campaign", c)
    BY <1>2 DEF Threats!AddEvent
  <2>1. old \in store[p] /\ Rests(c, store[p])
    BY <2>0, Found DEF Renewed
  <2>2. IsRow(old) /\ (old.kind \notin Threats!OnTrust => \A k \in old.refs : Rests(k, store[p]))
    BY <2>1 DEF RegistryInv, Tidy
  <2>3. Threats!PutFor(p, old, new, {Threats!Row("event", next, refs, {tag}, "")})
    BY <1>2 DEF Threats!AddEvent
  <2> HIDE DEF old, tags
  <2>4. IsRow(new) /\ new.kind = old.kind /\ new.id = old.id /\ new.refs = old.refs
    BY <2>2 DEF IsRow, Threats!Row
  <2>5. \A n \in refs : Rests(n, store[p])
    BY <2>1
  <2> HIDE DEF new, refs
  <2>6. QED
    BY <1>0, <2>1, <2>3, <2>4, <2>5, SwapOne
<1>3. ASSUME NEW c, Threats!AddTarget(p, c) \/ Threats!PredictCampaign(p, c)
      PROVE  RegistryInv'
  BY <1>0, <1>3, PutOne, Found DEF Threats!AddTarget, Threats!PredictCampaign, Threats!OnTrust, Renewed
<1>4. ASSUME NEW c, NEW actor, Threats!AddAttribution(p, c, actor)
      PROVE  RegistryInv'
  <2>1. CASE Threats!Put(p, {Threats!Row("attribution", next, {c}, {}, actor)})
    BY <1>0, <2>1, PutOne DEF Threats!OnTrust
  <2>2. CASE /\ Threats!Has(p, "campaign", c)
             /\ Threats!PutFor(p, Threats!The(p, c), [Threats!The(p, c) EXCEPT !.mark = IF actor = "" THEN @ ELSE actor],
                       {Threats!Row("attribution", next, {c}, {}, actor)})
    <3> DEFINE old == Threats!The(p, c)
               mark == IF actor = "" THEN old.mark ELSE actor
               new == [old EXCEPT !.mark = mark]
    <3>1. old \in store[p]
      BY <2>2, Found
    <3>2. IsRow(old) /\ (old.kind \notin Threats!OnTrust => \A k \in old.refs : Rests(k, store[p]))
      BY <3>1 DEF RegistryInv, Tidy
    <3>3. Threats!PutFor(p, old, new, {Threats!Row("attribution", next, {c}, {}, actor)})
      BY <2>2
    <3> HIDE DEF old, mark
    <3>4. IsRow(new) /\ new.kind = old.kind /\ new.id = old.id /\ new.refs = old.refs
      BY <3>2 DEF IsRow, Threats!Row
    <3> HIDE DEF new
    <3>5. QED
      BY <1>0, <3>1, <3>3, <3>4, SwapOne DEF Threats!OnTrust
  <2>3. QED
    BY <1>4, <2>1, <2>2 DEF Threats!AddAttribution
<1>5. ASSUME NEW a, NEW b, Threats!CorrelateCampaigns(p, a, b)
      PROVE  RegistryInv'
  <2>1. \A n \in {a, b} : Rests(n, store[p])
    BY <1>5, Found DEF Threats!CorrelateCampaigns, Renewed
  <2>2. QED
    BY <1>0, <1>5, <2>1, PutOne DEF Threats!CorrelateCampaigns
<1>6. QED
  BY <1>1, <1>2, <1>3, <1>4, <1>5 DEF Threats!CampaignStep

LEMMA CorrelationKeeps ==
    ASSUME RegistryInv, NEW p \in Processes, desk = "correlation", Threats!CorrelationStep(p)
    PROVE  RegistryInv'
<1>0. \A kind \in {"ioc", "correlation", "link", "match", "profiled", "report"} : Fits(kind)
  BY DEF Fits
<1>1. ASSUME NEW tags, Threats!AddIoc(p, tags)
      PROVE  RegistryInv'
  BY <1>0, <1>1, PutBare DEF Threats!AddIoc
<1>2. CASE Threats!CreateActorProfile(p)
  BY <1>0, <1>2, PutBare DEF Threats!CreateActorProfile
<1>3. CASE Threats!GenerateReport(p)
  <2>1. \A n \in UNION {r.refs : r \in Threats!Of(p, "correlation")} : Rests(n, store[p])
    BY DEF RegistryInv, Tidy, Threats!Of, Threats!OnTrust
  <2>2. QED
    BY <1>0, <1>3, <2>1, PutOne DEF Threats!GenerateReport
<1>4. ASSUME NEW a, NEW b, Threats!Correlate(p, a, b)
      PROVE  RegistryInv'
  <2> DEFINE tags == Threats!The(p, a).tags \intersect Threats!The(p, b).tags
             refs == {a, b}
  <2>1. /\ Threats!Has(p, "ioc", a) /\ Threats!Has(p, "ioc", b)
        /\ Threats!Put(p, {Threats!Row("correlation", next, refs, tags, "")})
    BY <1>4 DEF Threats!Correlate
  <2> HIDE DEF tags
  <2>2. \A n \in refs : Threats!Has(p, "ioc", n)
    BY <2>1
  <2> HIDE DEF refs
  <2>3. \A n \in refs : Rests(n, store[p])
    BY <2>2, Found DEF Renewed
  <2>4. QED
    BY <1>0, <2>1, <2>3, PutOne
<1>5. ASSUME NEW a, NEW b, Threats!LinkCampaign(p, a, b)
      PROVE  RegistryInv'
  BY <1>0, <1>5, PutOne DEF Threats!LinkCampaign, Threats!OnTrust
<1>6. ASSUME NEW named, Threats!MatchPattern(p, named)
      PROVE  RegistryInv'
  <2>1. \A n \in {i \in named : Threats!Has(p, "ioc", i)} : Rests(n, store[p])
    BY Found DEF Renewed
  <2>2. QED
    BY <1>0, <1>6, <2>1, PutOne DEF Threats!MatchPattern
<1>7. QED
  BY <1>1, <1>2, <1>3, <1>4, <1>5, <1>6 DEF Threats!CorrelationStep

LEMMA KnowledgeKeeps ==
    ASSUME RegistryInv, NEW p \in Processes, desk = "knowledge", Threats!KnowledgeStep(p)
    PROVE  RegistryInv'
<1>0. \A kind \in {"ttp", "actor", "incident", "asked", "graph"} : Fits(kind)
  BY DEF Fits
<1>1. CASE Threats!AddTtp(p) \/ Threats!QueryKnowledge(p)
  BY <1>0, <1>1, PutBare DEF Threats!AddTtp, Threats!QueryKnowledge
<1>2. ASSUME NEW ttps, Threats!AddActor(p, ttps) \/ Threats!AddIncident(p, ttps)
      PROVE  RegistryInv'
  BY <1>0, <1>2, PutOne DEF Threats!AddActor, Threats!AddIncident, Threats!OnTrust
<1>3. CASE Threats!BuildRelationshipGraph(p)
  <2> DEFINE users == Threats!Of(p, "actor") \union Threats!Of(p, "incident")
             drawn == {r \in users : \E t \in r.refs : Threats!Has(p, "ttp", t)}
             refs == UNION {{r.id} \union {t \in r.refs : Threats!Has(p, "ttp", t)} : r \in drawn}
  <2>1. \A n \in refs : Rests(n, store[p])
    <3>1. \A r \in users : Rests(r.id, store[p])
      BY DEF Threats!Of, Rests, Renewed
    <3>2. \A t : Threats!Has(p, "ttp", t) => Rests(t, store[p])
      BY Found DEF Renewed
    <3> HIDE DEF users
    <3>3. QED
      BY <3>1, <3>2
  <2>2. Threats!Put(p, {Threats!Row("graph", next, refs, {}, "")})
    BY <1>3 DEF Threats!BuildRelationshipGraph
  <2> HIDE DEF refs
  <2>3. QED
    BY <1>0, <2>1, <2>2, PutOne
<1>4. QED
  BY <1>1, <1>2, <1>3 DEF Threats!KnowledgeStep

\* Every row of a set rests on rows that were there.
LEMMA PutAll ==
    ASSUME RegistryInv, NEW p \in Processes, NEW R,
           desk \notin {"collector", "experts"}, Threats!Put(p, R),
           \A r \in R : IsRow(r) /\ Fits(r.kind) /\ \A n \in r.refs : Rests(n, store[p])
    PROVE  RegistryInv'
<1>1. \A n : Rests(n, store[p]) => Rests(n, store[p] \union R)
  BY DEF Rests
<1>2. QED
  BY <1>1, PlainPut

LEMMA PredictiveKeeps ==
    ASSUME RegistryInv, NEW p \in Processes, desk = "predictive", Threats!PredictiveStep(p)
    PROVE  RegistryInv'
<1>0. \A kind \in {"indicator", "threatActor", "threat", "correlated", "threatGraph"} : Fits(kind)
  BY DEF Fits
<1>1. ASSUME NEW tags, NEW sure, Threats!AddIndicator(p, tags, sure) \/ Threats!AddThreatActor(p, tags, sure)
      PROVE  RegistryInv'
  BY <1>0, <1>1, PutBare DEF Threats!AddIndicator, Threats!AddThreatActor
<1>2. \A r \in Threats!Of(p, "indicator") \union Threats!Of(p, "threatActor") : Rests(r.id, store[p])
  BY DEF Threats!Of, Rests, Renewed
<1>3. CASE Threats!PredictThreats(p)
  <2> DEFINE grounds == {r \in Threats!Of(p, "indicator") : r.mark = "sure"}
                        \union {r \in Threats!Of(p, "threatActor") : r.mark = "able"}
             n == Threats!Numbered(grounds)
             R == {Threats!Row("threat", next + n[r], {r.id}, {}, r.mark) : r \in grounds}
  <2>1. Threats!Put(p, R)
    BY <1>3 DEF Threats!PredictThreats
  <2>2. \A r \in grounds : Rests(r.id, store[p])
    BY <1>2
  <2> HIDE DEF grounds, n
  <2>3. ASSUME NEW r \in R
        PROVE  IsRow(r) /\ r.kind = "threat" /\ \A k \in r.refs : Rests(k, store[p])
    <3>1. PICK x \in grounds : r = Threats!Row("threat", next + n[x], {x.id}, {}, x.mark)
      OBVIOUS
    <3> DEFINE refs == {x.id}
    <3>2. r = Threats!Row("threat", next + n[x], refs, {}, x.mark)
      BY <3>1
    <3>3. \A k \in refs : Rests(k, store[p])
      BY <2>2
    <3> HIDE DEF refs
    <3>4. QED
      BY <3>2, <3>3 DEF IsRow, Threats!Row
  <2> HIDE DEF R
  <2>4. QED
    BY <1>0, <2>1, <2>3, PutAll
<1>4. CASE Threats!CorrelateThreats(p)
  <2> DEFINE carriers(tag) == {r.id : r \in {x \in Threats!Of(p, "indicator") : tag \in x.tags}}
             common == {tag \in Tags : Threats!Cardinality(carriers(tag)) > 1}
             n == Threats!Numbered(common)
             R == {Threats!Row("correlated", next + n[tag], carriers(tag), {tag}, "") : tag \in common}
  <2>1. Threats!Put(p, R)
    BY <1>4 DEF Threats!CorrelateThreats
  <2>2. \A tag : \A k \in carriers(tag) : Rests(k, store[p])
    BY <1>2
  <2> HIDE DEF carriers, common, n
  <2>3. ASSUME NEW r \in R
        PROVE  IsRow(r) /\ r.kind = "correlated" /\ \A k \in r.refs : Rests(k, store[p])
    <3>1. PICK tag \in common : r = Threats!Row("correlated", next + n[tag], carriers(tag), {tag}, "")
      OBVIOUS
    <3> DEFINE refs == carriers(tag)
               tags == {tag}
    <3>2. r = Threats!Row("correlated", next + n[tag], refs, tags, "") /\ \A k \in refs : Rests(k, store[p])
      BY <2>2, <3>1
    <3> HIDE DEF refs, tags
    <3>3. QED
      BY <3>2 DEF IsRow, Threats!Row
  <2> HIDE DEF R
  <2>4. QED
    BY <1>0, <2>1, <2>3, PutAll
<1>5. CASE Threats!BuildThreatGraph(p)
  <2> DEFINE edges == {e \in Threats!Of(p, "indicator") \X Threats!Of(p, "threatActor") :
                         e[1].tags \intersect e[2].tags # {}}
             refs == UNION {{e[1].id, e[2].id} : e \in edges}
  <2>1. Threats!Put(p, {Threats!Row("threatGraph", next, refs, {}, "")})
    BY <1>5 DEF Threats!BuildThreatGraph
  <2>2. \A k \in refs : Rests(k, store[p])
    BY <1>2
  <2> HIDE DEF refs
  <2>3. QED
    BY <1>0, <2>1, <2>2, PutOne
<1>6. QED
  BY <1>1, <1>3, <1>4, <1>5 DEF Threats!PredictiveStep

LEMMA MonitorKeeps ==
    ASSUME RegistryInv, NEW p \in Processes, desk = "monitor", Threats!MonitorStep(p)
    PROVE  RegistryInv'
<1>0. \A kind \in {"leak", "alert", "exposure", "scan", "remediation"} : Fits(kind)
  BY DEF Fits
\* A leak brings the row its alert rests on.
<1>1. ASSUME NEW k, NEW entities, NEW r \in Threats!Leak(k, entities)
      PROVE  IsRow(r) /\ Fits(r.kind) /\ \A n \in r.refs : Rests(n, Threats!Leak(k, entities))
  <2> DEFINE refs == {k}
             leak == Threats!Row("leak", k, {}, {}, "")
             alert == Threats!Row("alert", k + 1, refs, {}, "")
  <2>1. leak \in Threats!Leak(k, entities) /\ (r = leak \/ r = alert)
    BY <1>1 DEF Threats!Leak
  <2>2. \A n \in refs : n = k
    OBVIOUS
  <2>0. leak = Threats!Row("leak", k, {}, {}, "") /\ alert = Threats!Row("alert", k + 1, refs, {}, "")
    OBVIOUS
  <2> HIDE DEF refs, leak, alert
  <2>3. IsRow(leak) /\ leak.kind = "leak" /\ leak.id = k /\ leak.refs = {}
    BY <2>0 DEF IsRow, Threats!Row
  <2>4. IsRow(alert) /\ alert.kind = "alert" /\ alert.refs = refs
    BY <2>0 DEF IsRow, Threats!Row
  <2>5. QED
    BY <1>0, <2>1, <2>2, <2>3, <2>4 DEF Rests, Renewed
<1>2. ASSUME NEW entities, Threats!AddLeak(p, entities)
      PROVE  RegistryInv'
  <2>1. \A n : Rests(n, Threats!Leak(next, entities)) => Rests(n, store[p] \union Threats!Leak(next, entities))
    BY DEF Rests
  <2>2. QED
    BY <1>1, <1>2, <2>1, PlainPut DEF Threats!AddLeak
<1>3. ASSUME NEW places, Threats!Scan(p, places)
      PROVE  RegistryInv'
  <2> DEFINE n == Threats!Numbered(places)
             fresh == {tag \in places : \A r \in Threats!Of(p, "exposure") : tag \notin r.tags}
             m == Threats!Numbered(fresh)
             base == next + 2 * Threats!Cardinality(places)
             leaks == UNION {Threats!Leak(next + 2 * n[tag], TRUE) : tag \in places}
             exposures == {Threats!Row("exposure", base + m[tag], {}, {tag}, "") : tag \in fresh}
             scans == {Threats!Row("scan", base + Threats!Cardinality(fresh), {}, places, "")}
             R == leaks \union exposures \union scans
  <2>1. Threats!Put(p, R)
    BY <1>3 DEF Threats!Scan
  <2>2. ASSUME NEW r \in leaks
        PROVE  IsRow(r) /\ Fits(r.kind) /\ \A k \in r.refs : Rests(k, R)
    <3>1. PICK tag \in places : r \in Threats!Leak(next + 2 * n[tag], TRUE)
      OBVIOUS
    <3>2. Threats!Leak(next + 2 * n[tag], TRUE) \subseteq R
      OBVIOUS
    <3>3. IsRow(r) /\ Fits(r.kind) /\ \A k \in r.refs : Rests(k, Threats!Leak(next + 2 * n[tag], TRUE))
      BY <1>1, <3>1
    <3>4. QED
      BY <3>2, <3>3 DEF Rests
  <2>3. ASSUME NEW r \in exposures \union scans
        PROVE  IsRow(r) /\ r.kind \in {"exposure", "scan"} /\ r.refs = {}
    <3>1. CASE r \in exposures
      <4>1. PICK tag \in fresh : r = Threats!Row("exposure", base + m[tag], {}, {tag}, "")
        BY <3>1
      <4> DEFINE k == base + m[tag]
                 tags == {tag}
      <4>2. r = Threats!Row("exposure", k, {}, tags, "")
        BY <4>1
      <4> HIDE DEF k, tags
      <4>3. QED
        BY <4>2 DEF IsRow, Threats!Row
    <3>2. CASE r \in scans
      <4> DEFINE k == base + Threats!Cardinality(fresh)
      <4>1. r = Threats!Row("scan", k, {}, places, "")
        BY <3>2
      <4> HIDE DEF k
      <4>2. QED
        BY <4>1 DEF IsRow, Threats!Row
    <3>3. QED
      BY <3>1, <3>2
  <2> HIDE DEF leaks, exposures, scans
  <2>4. \A k : Rests(k, R) => Rests(k, store[p] \union R)
    BY DEF Rests
  <2>5. \A r \in R : IsRow(r) /\ Fits(r.kind) /\ \A k \in r.refs : Rests(k, store[p] \union R)
    BY <1>0, <2>2, <2>3, <2>4
  <2> HIDE DEF R
  <2>6. QED
    BY <2>1, <2>5, PlainPut
<1>4. ASSUME NEW leak, Threats!StartRemediation(p, leak)
      PROVE  RegistryInv'
  <2> DEFINE refs == {leak}
  <2>1. Threats!Has(p, "leak", leak) /\ Threats!Put(p, {Threats!Row("remediation", next, refs, {}, "in_progress")})
    BY <1>4 DEF Threats!StartRemediation
  <2>2. \A k \in refs : Rests(k, store[p])
    BY <2>1, Found DEF Renewed
  <2> HIDE DEF refs
  <2>3. QED
    BY <1>0, <2>1, <2>2, PutOne
<1>5. QED
  BY <1>2, <1>3, <1>4 DEF Threats!MonitorStep

LEMMA EmulationKeeps ==
    ASSUME RegistryInv, NEW p \in Processes, desk = "emulation", Threats!EmulationStep(p)
    PROVE  RegistryInv'
<1>0. \A kind \in {"profile", "plan", "phase", "simulation", "gap"} : Fits(kind)
  BY DEF Fits, Threats!OnTrust
<1>1. CASE Threats!CreateProfile(p)
  BY <1>0, <1>1, PutBare DEF Threats!CreateProfile
<1>2. ASSUME NEW profile, Threats!CreatePlan(p, profile)
      PROVE  RegistryInv'
  <2> DEFINE base == {profile}
             refs == {next}
             plan == Threats!Row("plan", next, base, {}, "")
             phases == {Threats!Row("phase", next + k, refs, {}, "pending") : k \in 1..Phases}
             R == {plan} \union phases
  <2>1. Threats!Has(p, "profile", profile) /\ Threats!Put(p, R)
    BY <1>2 DEF Threats!CreatePlan
  <2>2. "profile" \notin Renewed
    BY DEF Renewed
  <2>3. \A k \in base : Rests(k, store[p])
    BY <2>1, <2>2, Found
  <2>4. \A k \in refs : k = next
    OBVIOUS
  <2>0. plan = Threats!Row("plan", next, base, {}, "")
    OBVIOUS
  <2> HIDE DEF base, refs, plan
  <2>5. IsRow(plan) /\ plan.kind = "plan" /\ plan.id = next /\ plan.refs = base
    BY <2>0 DEF IsRow, Threats!Row
  <2>6. ASSUME NEW r \in phases
        PROVE  IsRow(r) /\ r.kind = "phase" /\ r.refs = refs
    BY DEF IsRow, Threats!Row
  <2> HIDE DEF phases
  <2>7. \A k \in base \union refs : Rests(k, store[p] \union R)
    BY <2>3, <2>4, <2>5 DEF Rests, Renewed
  <2>8. \A r \in R : IsRow(r) /\ Fits(r.kind) /\ \A k \in r.refs : Rests(k, store[p] \union R)
    BY <1>0, <2>5, <2>6, <2>7
  <2> HIDE DEF R
  <2>9. QED
    BY <2>1, <2>8, PlainPut
<1>3. ASSUME NEW phase, Threats!ExecutePhase(p, phase)
      PROVE  RegistryInv'
  <2> DEFINE old == Threats!The(p, phase)
             new == [old EXCEPT !.mark = "completed"]
             simulation == Threats!Row("simulation", next, old.refs, {}, "")
             gap == Threats!Row("gap", next + 1, old.refs, {}, "")
             R == {simulation, gap}
  <2>1. Threats!Has(p, "phase", phase) /\ Threats!PutFor(p, old, new, R)
    BY <1>3 DEF Threats!ExecutePhase
  <2>2. old \in store[p]
    BY <2>1, Found
  <2> HIDE DEF old
  <2>3. IsRow(old) /\ \A k \in old.refs : Rests(k, store[p])
    BY <2>2 DEF RegistryInv, Tidy, Fits
  <2>4. IsRow(new) /\ new.kind = old.kind /\ new.id = old.id /\ new.refs = old.refs
    BY <2>3 DEF IsRow, Threats!Row
  <2>0. /\ simulation = Threats!Row("simulation", next, old.refs, {}, "")
        /\ gap = Threats!Row("gap", next + 1, old.refs, {}, "")
    OBVIOUS
  <2> HIDE DEF new, simulation, gap
  <2>5. /\ IsRow(simulation) /\ simulation.kind = "simulation" /\ simulation.refs = old.refs
        /\ IsRow(gap) /\ gap.kind = "gap" /\ gap.refs = old.refs
    BY <2>0 DEF IsRow, Threats!Row
  <2>6. \A r \in R : IsRow(r) /\ Fits(r.kind) /\ \A k \in r.refs : Rests(k, store[p])
    BY <1>0, <2>3, <2>5
  <2> HIDE DEF R
  <2>7. QED
    BY <2>1, <2>2, <2>3, <2>4, <2>6, PlainSwap
<1>4. QED
  BY <1>1, <1>2, <1>3 DEF Threats!EmulationStep


LEMMA SharingKeeps ==
    ASSUME RegistryInv, NEW p \in Processes, desk = "sharing", Threats!SharingStep(p)
    PROVE  RegistryInv'
<1>0. \A kind \in {"agreement", "policy", "shared"} : Fits(kind)
  BY DEF Fits
<1>1. CASE Threats!CreateAgreement(p) \/ Threats!CreatePolicy(p) \/ Threats!ShareIntel(p)
  BY <1>0, <1>1, PutBare DEF Threats!CreateAgreement, Threats!CreatePolicy, Threats!ShareIntel
<1>2. ASSUME NEW n, Threats!AcknowledgeExchange(p, n)
      PROVE  RegistryInv'
  BY <1>2, Remark DEF Threats!AcknowledgeExchange
<1>3. QED
  BY <1>1, <1>2 DEF Threats!SharingStep

LEMMA ExchangeKeeps ==
    ASSUME RegistryInv, NEW p \in Processes, desk = "exchange", Threats!ExchangeStep(p)
    PROVE  RegistryInv'
<1>0. \A kind \in {"package", "partner", "exchange"} : Fits(kind)
  BY DEF Fits
<1>1. ASSUME NEW mark, Threats!CreatePackage(p, mark) \/ Threats!RegisterPartner(p, mark)
      PROVE  RegistryInv'
  BY <1>0, <1>1, PutBare DEF Threats!CreatePackage, Threats!RegisterPartner
<1>2. ASSUME NEW a, NEW b, NEW packages, Threats!Exchange(p, a, b, packages)
      PROVE  RegistryInv'
  <2> DEFINE refs == {a, b} \union {n \in packages : Threats!Has(p, "package", n)}
             mark == IF \A n \in packages : Threats!Has(p, "package", n) THEN "completed" ELSE "failed"
  <2>1. /\ Threats!Has(p, "partner", a) /\ Threats!Has(p, "partner", b)
        /\ Threats!Put(p, {Threats!Row("exchange", next, refs, {}, mark)})
    BY <1>2 DEF Threats!Exchange
  <2>2. \A k \in refs : Threats!Has(p, "partner", k) \/ Threats!Has(p, "package", k)
    BY <2>1
  <2> HIDE DEF refs, mark
  <2>3. \A k \in refs : Rests(k, store[p])
    BY <2>2, Found DEF Renewed
  <2>4. QED
    BY <1>0, <2>1, <2>3, PutOne
<1>3. QED
  BY <1>1, <1>2 DEF Threats!ExchangeStep

LEMMA SupplyKeeps ==
    ASSUME RegistryInv, NEW p \in Processes, desk = "supply", Threats!SupplyStep(p)
    PROVE  RegistryInv'
<1>0. \A kind \in {"node", "path", "risk"} : Fits(kind)
  BY DEF Fits
<1>1. CASE Threats!AddNode(p)
  BY <1>0, <1>1, PutBare DEF Threats!AddNode
<1>2. CASE Threats!AssessRisk(p)
  <2> DEFINE refs == {r.id : r \in Threats!Of(p, "path")}
  <2>1. Threats!Put(p, {Threats!Row("risk", next, refs, {}, "")})
    BY <1>2 DEF Threats!AssessRisk
  <2>2. \A k \in refs : Rests(k, store[p])
    BY DEF Threats!Of, Rests, Renewed
  <2> HIDE DEF refs
  <2>3. QED
    BY <1>0, <2>1, <2>2, PutOne
<1>3. ASSUME NEW a, NEW b, Threats!AddDependency(p, a, b)
      PROVE  RegistryInv'
  <2> DEFINE old == Threats!The(p, a)
             refs == old.refs \union {b}
             new == [old EXCEPT !.refs = refs]
  <2>1. Threats!Has(p, "node", a) /\ Threats!Has(p, "node", b) /\ Threats!PutFor(p, old, new, {})
    BY <1>3 DEF Threats!AddDependency
  <2>2. old \in store[p] /\ Rests(b, store[p])
    BY <2>1, Found DEF Renewed
  <2>3. IsRow(old) /\ (old.kind \notin Threats!OnTrust => \A k \in old.refs : Rests(k, store[p]))
    BY <2>2 DEF RegistryInv, Tidy
  <2>4. old.kind \notin Threats!OnTrust => \A k \in refs : Rests(k, store[p])
    BY <2>2, <2>3
  <2> HIDE DEF old, refs
  <2>5. IsRow(new) /\ new.kind = old.kind /\ new.id = old.id /\ new.refs = refs
    BY <2>3 DEF IsRow, Threats!Row
  <2> HIDE DEF new
  <2>6. QED
    BY <2>1, <2>2, <2>4, <2>5, PlainSwap
<1>4. ASSUME NEW a, NEW b, Threats!MapAttackPath(p, a, b)
      PROVE  RegistryInv'
  <2>1. PICK found \in BOOLEAN :
              Threats!Put(p, {Threats!Row("path", next, {a, b}, {}, IF found THEN "found" ELSE "")})
    BY <1>4, Zenon DEF Threats!MapAttackPath
  <2>2. QED
    BY <1>0, <2>1, PutOne DEF Threats!OnTrust
<1>5. QED
  BY <1>1, <1>2, <1>3, <1>4 DEF Threats!SupplyStep

LEMMA HuntingKeeps ==
    ASSUME RegistryInv, NEW p \in Processes, desk = "hunting", Threats!HuntingStep(p)
    PROVE  RegistryInv'
<1>0. \A kind \in {"query", "hole", "optimization"} : Fits(kind)
  BY DEF Fits
<1>1. ASSUME NEW areas, Threats!RegisterQuery(p, areas)
      PROVE  RegistryInv'
  BY <1>0, <1>1, PutBare DEF Threats!RegisterQuery
<1>2. CASE Threats!IdentifyGaps(p)
  <2> DEFINE bare == {area \in Tags : \A r \in Threats!Of(p, "query") : area \notin r.tags}
             n == Threats!Numbered(bare)
             R == {Threats!Row("hole", next + n[area], {}, {area}, "high") : area \in bare}
  <2>1. Threats!Put(p, R)
    BY <1>2 DEF Threats!IdentifyGaps
  <2>2. ASSUME NEW r \in R
        PROVE  IsRow(r) /\ r.kind = "hole" /\ r.refs = {}
    <3>1. PICK area \in bare : r = Threats!Row("hole", next + n[area], {}, {area}, "high")
      OBVIOUS
    <3> DEFINE k == next + n[area]
               tags == {area}
    <3>2. r = Threats!Row("hole", k, {}, tags, "high")
      BY <3>1
    <3> HIDE DEF k, tags
    <3>3. QED
      BY <3>2 DEF IsRow, Threats!Row
  <2> HIDE DEF R
  <2>3. QED
    BY <1>0, <2>1, <2>2, PutAll
<1>3. ASSUME NEW n, Threats!RunQuery(p, n)
      PROVE  RegistryInv'
  BY <1>3, Remark DEF Threats!RunQuery
<1>4. ASSUME NEW n, Threats!OptimizeQuery(p, n)
      PROVE  RegistryInv'
  <2> DEFINE refs == {n}
  <2>1. Threats!Has(p, "query", n) /\ Threats!Put(p, {Threats!Row("optimization", next, refs, {}, "")})
    BY <1>4 DEF Threats!OptimizeQuery
  <2>2. Rests(n, store[p])
    <3>1. Threats!Has(p, "query", n) /\ "query" \notin Renewed
      BY <2>1 DEF Renewed
    <3>2. QED
      BY <3>1, Found
  <2>3. \A k \in refs : Rests(k, store[p])
    BY <2>2
  <2> HIDE DEF refs
  <2>4. QED
    BY <1>0, <2>1, <2>3, PutOne
<1>5. QED
  BY <1>1, <1>2, <1>3, <1>4 DEF Threats!HuntingStep

LEMMA OutlookKeeps ==
    ASSUME RegistryInv, NEW p \in Processes, desk = "outlook", Threats!OutlookStep(p)
    PROVE  RegistryInv'
<1>0. \A kind \in {"forecast", "vector", "campaignPhase", "outlook", "assessment"} : Fits(kind)
  BY DEF Fits
<1>1. CASE Threats!GenerateForecast(p) \/ Threats!RegisterEmergingVector(p) \/ Threats!AddPhase(p) \/ Threats!AssessStrategicThreat(p)
  BY <1>0, <1>1, PutBare
  DEF Threats!GenerateForecast, Threats!RegisterEmergingVector, Threats!AddPhase, Threats!AssessStrategicThreat
<1>2. CASE Threats!ForecastCampaign(p)
  <2> DEFINE refs == {r.id : r \in Threats!Of(p, "campaignPhase")}
  <2>1. Threats!Put(p, {Threats!Row("outlook", next, refs, {}, "")})
    BY <1>2 DEF Threats!ForecastCampaign
  <2>2. \A k \in refs : Rests(k, store[p])
    BY DEF Threats!Of, Rests, Renewed
  <2> HIDE DEF refs
  <2>3. QED
    BY <1>0, <2>1, <2>2, PutOne
<1>3. QED
  BY <1>1, <1>2 DEF Threats!OutlookStep

\* What is kept under a name is put there or takes the place of the old.
LEMMA NamedKeeps ==
    ASSUME RegistryInv, NEW p \in Processes, desk = "judgement", NEW kind, NEW name, NEW mark,
           Threats!PutNamed(p, kind, name, mark), Fits(kind)
    PROVE  RegistryInv'
<1>1. CASE Threats!Put(p, {Threats!Row(kind, next, {}, {name}, mark)})
  BY <1>1, PutBare
<1>2. ASSUME NEW old \in Threats!Of(p, kind), Threats!PutFor(p, old, [old EXCEPT !.mark = mark], {})
      PROVE  RegistryInv'
  <2> DEFINE new == [old EXCEPT !.mark = mark]
  <2>1. old \in store[p]
    BY DEF Threats!Of
  <2>2. IsRow(old) /\ (old.kind \notin Threats!OnTrust => \A k \in old.refs : Rests(k, store[p]))
    BY <2>1 DEF RegistryInv, Tidy
  <2>3. IsRow(new) /\ new.kind = old.kind /\ new.id = old.id /\ new.refs = old.refs
    BY <2>2 DEF IsRow, Threats!Row
  <2>4. Threats!PutFor(p, old, new, {})
    BY <1>2
  <2> HIDE DEF new
  <2>5. QED
    BY <2>1, <2>2, <2>3, <2>4, PlainSwap
<1>3. QED
  BY <1>1, <1>2 DEF Threats!PutNamed

LEMMA JudgementKeeps ==
    ASSUME RegistryInv, NEW p \in Processes, desk = "judgement", Threats!JudgementStep(p)
    PROVE  RegistryInv'
<1>0. \A kind \in {"item", "reliability", "score", "profileOf", "attributed", "sourceScore", "analysis"} :
          Fits(kind)
  BY DEF Fits
<1>1. ASSUME NEW source, Threats!AddItem(p, source)
      PROVE  RegistryInv'
  BY <1>0, <1>1, PutBare DEF Threats!AddItem
<1>2. ASSUME NEW source, NEW credible,
             Threats!AssessSource(p, source) \/ Threats!RegisterActor(p, source) \/ Threats!RegisterSource(p, source, credible)
      PROVE  RegistryInv'
  BY <1>0, <1>2, NamedKeeps DEF Threats!AssessSource, Threats!RegisterActor, Threats!RegisterSource
<1>3. ASSUME NEW n, Threats!EvaluateQuality(p, n)
      PROVE  RegistryInv'
  <2> DEFINE refs == {n} \union {r.id : r \in {x \in Threats!Of(p, "reliability") : x.tags = Threats!The(p, n).tags}}
  <2>1. Threats!Has(p, "item", n) /\ Threats!Put(p, {Threats!Row("score", next, refs, {}, "")})
    BY <1>3 DEF Threats!EvaluateQuality
  <2>2. Rests(n, store[p])
    <3>1. Threats!Has(p, "item", n) /\ "item" \notin Renewed
      BY <2>1 DEF Renewed
    <3>2. QED
      BY <3>1, Found
  <2>3. \A r \in Threats!Of(p, "reliability") : Rests(r.id, store[p])
    BY DEF Threats!Of, Rests, Renewed
  <2>4. \A k \in refs : Rests(k, store[p])
    BY <2>2, <2>3
  <2> HIDE DEF refs
  <2>5. QED
    BY <1>0, <2>1, <2>4, PutOne
<1>4. ASSUME NEW matched, NEW sure, Threats!Attribute(p, matched, sure)
      PROVE  RegistryInv'
  <2> DEFINE actors == {r.id : r \in Threats!Of(p, "profileOf")}
             hit == {r.id : r \in {x \in Threats!Of(p, "profileOf") : x.tags \subseteq matched}}
             least(S) == {n \in S : \A k \in S : n <= k}
             others == IF hit # {} /\ sure THEN {}
                       ELSE least(actors) \union least(actors \ least(actors))
             refs == least(hit) \union others
  <2>1. Threats!Put(p, {Threats!Row("attributed", next, refs, {}, "")})
    BY <1>4 DEF Threats!Attribute
  <2>2. hit \subseteq actors
    OBVIOUS
  <2>3. \A k \in actors : Rests(k, store[p])
    BY DEF Threats!Of, Rests, Renewed
  <2> HIDE DEF actors, hit
  <2>4. \A k \in refs : k \in actors
    BY <2>2
  <2> HIDE DEF refs
  <2>5. QED
    BY <1>0, <2>1, <2>3, <2>4, PutOne
<1>5. ASSUME NEW source, NEW emotional, NEW conspiracy, Threats!Detect(p, source, emotional, conspiracy)
      PROVE  RegistryInv'
  <2> DEFINE known == {r \in Threats!Of(p, "sourceScore") : r.tags = {source}}
             low == IF \E r \in known : r.mark = "low" THEN 30 ELSE 0
             mark == Threats!Risk(15 * emotional + 25 * conspiracy + low)
             refs == {r.id : r \in known}
  <2>1. Threats!Put(p, {Threats!Row("analysis", next, refs, {}, mark)})
    BY <1>5 DEF Threats!Detect
  <2>2. \A k \in refs : Rests(k, store[p])
    BY DEF Threats!Of, Rests, Renewed
  <2> HIDE DEF refs, mark
  <2>3. QED
    BY <1>0, <2>1, <2>2, PutOne
<1>6. QED
  BY <1>1, <1>2, <1>3, <1>4, <1>5 DEF Threats!JudgementStep

\* Rows that are renewed make place for rows that rest on what stays.
LEMMA PlainReplace ==
    ASSUME RegistryInv, NEW p \in Processes, NEW kind \in Renewed, NEW R,
           desk \notin {"collector", "experts"}, Threats!Replace(p, kind, R),
           \A r \in R : IsRow(r) /\ Fits(r.kind) /\ \A n \in r.refs : Rests(n, store[p])
    PROVE  RegistryInv'
<1> DEFINE S == store[p] \ Threats!Of(p, kind)
<1>1. Tidy(S)
  BY TidyLess DEF RegistryInv, Threats!Of
<1>2. \A n : Rests(n, store[p]) => Rests(n, S)
  BY DEF Rests, Threats!Of
<1>3. \A n : Rests(n, S) => Rests(n, S \union R)
  BY DEF Rests
<1>4. store' = [store EXCEPT ![p] = S \union R] /\ desk' = desk
  BY DEF Threats!Replace
<1> HIDE DEF S
<1>5. Tidy(S \union R)
  BY <1>1, <1>2, <1>3, TidyAdd
<1>6. QED
  BY <1>4, <1>5, PlainStep

LEMMA SignalKeeps ==
    ASSUME RegistryInv, NEW p \in Processes, desk = "signals", Threats!SignalStep(p)
    PROVE  RegistryInv'
<1>0. \A kind \in {"signal", "anomaly", "fused", "threatened", "alert"} : Fits(kind)
  BY DEF Fits
<1>1. ASSUME NEW severity, NEW sure, NEW rush, Threats!Ingest(p, severity, sure, rush)
      PROVE  RegistryInv'
  <2> DEFINE refs == {next}
             signal == Threats!Row("signal", next, {}, {}, severity)
             anomalies == {Threats!Row("anomaly", next + 1, refs, {}, kind) : kind \in Threats!Anomaly(p, severity, sure, rush)}
             R == {signal} \union anomalies
  <2>0. signal = Threats!Row("signal", next, {}, {}, severity)
    OBVIOUS
  <2>1. Threats!Put(p, R)
    BY <1>1 DEF Threats!Ingest
  <2>2. \A k \in refs : k = next
    OBVIOUS
  <2> HIDE DEF refs, signal
  <2>3. IsRow(signal) /\ signal.kind = "signal" /\ signal.id = next /\ signal.refs = {}
    BY <2>0 DEF IsRow, Threats!Row
  <2>4. ASSUME NEW r \in anomalies
        PROVE  IsRow(r) /\ r.kind = "anomaly" /\ r.refs = refs
    BY DEF IsRow, Threats!Row
  <2> HIDE DEF anomalies
  <2>5. Rests(next, store[p] \union R)
    BY <2>3 DEF Rests, Renewed
  <2>6. \A r \in R : IsRow(r) /\ Fits(r.kind) /\ \A k \in r.refs : Rests(k, store[p] \union R)
    BY <1>0, <2>2, <2>3, <2>4, <2>5
  <2> HIDE DEF R
  <2>7. QED
    BY <2>1, <2>6, PlainPut
<1>2. ASSUME NEW named, Threats!Fuse(p, named)
      PROVE  RegistryInv'
  BY <1>0, <1>2, PutOne DEF Threats!Fuse, Threats!OnTrust
<1>3. ASSUME NEW named, Threats!CorrelateSignals(p, named)
      PROVE  RegistryInv'
  <2> DEFINE refs == {r.id : r \in Threats!Heard(p, named)}
             mark == Threats!Grave(Threats!Heard(p, named))
  <2>1. Threats!Put(p, {Threats!Row("threatened", next, refs, {}, mark)})
    BY <1>3 DEF Threats!CorrelateSignals
  <2>2. \A k \in refs : Rests(k, store[p])
    BY DEF Threats!Heard, Threats!Of, Rests, Renewed
  <2> HIDE DEF refs, mark
  <2>3. QED
    BY <1>0, <2>1, <2>2, PutOne
<1>4. CASE Threats!GenerateAlerts(p)
  <2> DEFINE grave == {r \in Threats!Of(p, "signal") \union Threats!Of(p, "fused") \union Threats!Of(p, "threatened") :
                         r.mark \in {"critical", "high"}}
             n == Threats!Numbered(grave)
             R == {Threats!Row("alert", next + n[r], {r.id}, {}, r.mark) : r \in grave}
  <2>1. Threats!Replace(p, "alert", R)
    BY <1>4 DEF Threats!GenerateAlerts
  <2>2. \A r \in grave : Rests(r.id, store[p])
    BY DEF Threats!Of, Rests, Renewed
  <2> HIDE DEF grave, n
  <2>3. ASSUME NEW r \in R
        PROVE  IsRow(r) /\ r.kind = "alert" /\ \A k \in r.refs : Rests(k, store[p])
    <3>1. PICK x \in grave : r = Threats!Row("alert", next + n[x], {x.id}, {}, x.mark)
      OBVIOUS
    <3> DEFINE refs == {x.id}
               k == next + n[x]
    <3>2. r = Threats!Row("alert", k, refs, {}, x.mark)
      BY <3>1
    <3>3. \A i \in refs : Rests(i, store[p])
      BY <2>2
    <3> HIDE DEF refs, k
    <3>4. QED
      BY <3>2, <3>3 DEF IsRow, Threats!Row
  <2> HIDE DEF R
  <2>4. QED
    BY <1>0, <2>1, <2>3, PlainReplace DEF Renewed
<1>5. QED
  BY <1>1, <1>2, <1>3, <1>4 DEF Threats!SignalStep

LEMMA SubscriptionKeeps ==
    ASSUME RegistryInv, NEW p \in Processes, desk = "subscriptions", Threats!SubscriptionStep(p)
    PROVE  RegistryInv'
<1>0. Fits("subscription")
  BY DEF Fits
<1>1. ASSUME NEW tenant, Threats!CreateSubscription(p, tenant)
      PROVE  RegistryInv'
  BY <1>0, <1>1, PutBare DEF Threats!CreateSubscription
<1>2. ASSUME NEW n, NEW tenant, NEW everything, NEW status, Threats!Switch(p, n, tenant, everything, status)
      PROVE  RegistryInv'
  BY <1>2, Remark DEF Threats!Switch, Threats!Reaches
<1>3. ASSUME NEW n, NEW tenant, NEW everything, Threats!DeleteSubscription(p, n, tenant, everything)
      PROVE  RegistryInv'
  <2> DEFINE S == store[p] \ {Threats!The(p, n)}
  <2>1. \A r \in store[p] : r.kind = "subscription"
    BY DEF RegistryInv, Tidy, Fits
  <2>2. Tidy(S)
    BY <2>1, TidyLess DEF RegistryInv, Renewed
  <2>3. store' = [store EXCEPT ![p] = S] /\ desk' = desk
    BY <1>3 DEF Threats!DeleteSubscription
  <2> HIDE DEF S
  <2>4. QED
    BY <2>2, <2>3, PlainStep
<1>4. QED
  BY <1>1, <1>2, <1>3 DEF Threats!SubscriptionStep

-----------------------------------------------------------------------------
(* Counting *)

LEMMA SameSizes ==
    \A S : Threats!Cardinality(S) = Cardinality(S) /\ (Threats!IsFiniteSet(S) <=> IsFiniteSet(S))
  BY DEF Threats!Cardinality, Cardinality, Threats!IsFiniteSet, IsFiniteSet

LEMMA NumberedCounts ==
    ASSUME NEW D, IsFiniteSet(D)
    PROVE  /\ Cardinality(D) \in Nat
           /\ Threats!Numbered(D) \in [D -> 0..(Cardinality(D) - 1)]
           /\ \A x, y \in D : Threats!Numbered(D)[x] = Threats!Numbered(D)[y] => x = y
<1> DEFINE n == Cardinality(D)
<1>1. n \in Nat /\ ExistsBijection(1..n, D)
  BY FS_CardinalityType
<1>2. PICK g \in Bijection(1..n, D) : TRUE
  BY <1>1 DEF ExistsBijection
<1>3. g \in [1..n -> D] /\ \A d \in D : \E k \in 1..n : g[k] = d
  BY <1>2 DEF Bijection, Surjection, Injection
<1> DEFINE f == [d \in D |-> (CHOOSE k \in 1..n : g[k] = d) - 1]
<1>4. ASSUME NEW d \in D
      PROVE  f[d] \in 0..(n - 1) /\ g[f[d] + 1] = d
  <2> DEFINE k == CHOOSE i \in 1..n : g[i] = d
  <2>1. k \in 1..n /\ g[k] = d
    BY <1>3
  <2>2. f[d] = k - 1
    OBVIOUS
  <2> HIDE DEF k, f
  <2>3. QED
    BY <1>1, <2>1, <2>2
<1>5. f \in [D -> 0..(n - 1)] /\ \A x, y \in D : f[x] = f[y] => x = y
  <2>1. f = [d \in D |-> f[d]]
    OBVIOUS
  <2> HIDE DEF f, n
  <2>2. QED
    BY <1>4, <2>1
<1> HIDE DEF f
<1>6. Threats!Cardinality(D) = n
  BY SameSizes
<1> HIDE DEF n
<1>7. QED
  BY <1>1, <1>5, <1>6 DEF Threats!Numbered, n

\* f makes the rows R of the things of D, numbered from base on.
Enumerates(f, D, base, R) ==
    /\ \A r \in R : \E d \in D : r = f[d]
    /\ \A d \in D : f[d] \in R /\ f[d].id = base + Threats!Numbered(D)[d]

LEMMA RowsInOrder ==
    ASSUME NEW D, IsFiniteSet(D), NEW base \in Nat, NEW f, NEW R,
           Enumerates(f, D, base, R)
    PROVE  \A r \in R : r.id \in base..(base + Cardinality(D) - 1)
<1> DEFINE n == Cardinality(D)
           num == Threats!Numbered(D)
<1>1. n \in Nat /\ num \in [D -> 0..(n - 1)] /\ \A x, y \in D : num[x] = num[y] => x = y
  BY NumberedCounts
<1>2. \A d \in D : f[d].id = base + num[d]
  BY DEF Enumerates
<1> HIDE DEF n, num
<1>3. \A d \in D : f[d].id \in Nat /\ base <= f[d].id /\ f[d].id < base + n
  BY <1>1, <1>2
<1>4. \A d \in D : f[d].id \in base..(base + n - 1)
  BY <1>1, <1>3
<1>5. QED
  BY <1>4 DEF n, Enumerates

LEMMA OneEach ==
    ASSUME NEW D, IsFiniteSet(D), NEW base \in Nat, NEW f, NEW R,
           Enumerates(f, D, base, R)
    PROVE  /\ \A d, e \in D : f[d].id = f[e].id => d = e
           /\ \A r, s \in R : r.id = s.id => r = s
<1> DEFINE n == Cardinality(D)
           num == Threats!Numbered(D)
<1>1. n \in Nat /\ num \in [D -> 0..(n - 1)] /\ \A x, y \in D : num[x] = num[y] => x = y
  BY NumberedCounts
<1>2. \A d \in D : f[d].id = base + num[d]
  BY DEF Enumerates
<1> HIDE DEF n, num
<1>3. \A d, e \in D : f[d].id = f[e].id => d = e
  <2>1. \A d, e \in D : base + num[d] = base + num[e] => num[d] = num[e]
    BY <1>1
  <2>2. QED
    BY <1>1, <1>2, <2>1
<1>4. QED
  BY <1>3 DEF Enumerates

LEMMA CountedRows ==
    ASSUME NEW D, IsFiniteSet(D), NEW base \in Nat, NEW f, NEW R,
           Enumerates(f, D, base, R)
    PROVE  IsFiniteSet(R) /\ Cardinality(R) = Cardinality(D) /\ Cardinality(D) \in Nat
<1> DEFINE g == [d \in D |-> f[d]]
<1>1. \A d, e \in D : f[d].id = f[e].id => d = e
  BY OneEach
<1>2. g \in Bijection(D, R)
  <2>1. g \in [D -> R] /\ \A d \in D : g[d] = f[d]
    BY DEF Enumerates
  <2>2. \A r \in R : \E d \in D : g[d] = r
    BY <2>1 DEF Enumerates
  <2> HIDE DEF g
  <2>3. \A d, e \in D : g[d] = g[e] => d = e
    BY <1>1, <2>1
  <2>4. g \in Injection(D, R) /\ g \in Surjection(D, R)
    BY <2>1, <2>2, <2>3 DEF Injection, IsInjective, Surjection
  <2>5. QED
    BY <2>4 DEF Bijection
<1>3. IsFiniteSet(R) /\ Cardinality(R) = Cardinality(D)
  <2>1. ExistsBijection(D, R)
    BY <1>2 DEF ExistsBijection
  <2>2. QED
    BY <2>1, FS_Bijection
<1>4. QED
  BY <1>3, FS_CardinalityType

-----------------------------------------------------------------------------
(* The collector *)

\* The rows of collections and crawls among S.
FindingsAt(S, task) == {r \in S : r.kind = "finding" /\ task.id \in r.refs}

Whole(S) ==
    \A task \in S :
        /\ task.kind \in {"task", "crawl"} /\ task.mark = "running" =>
              \A r \in S : task.id \notin r.refs
        /\ task.kind = "task" /\ task.mark = "completed" =>
              \E r \in S : Threats!Fuses(r, task, FindingsAt(S, task))

LEMMA WholeRows ==
    ASSUME NEW p \in Processes, Threats!WholeOrNothing
    PROVE  Whole(store[p])
<1> DEFINE S == store[p]
<1>1. ASSUME NEW task \in S, task.kind \in {"task", "crawl"}
      PROVE  LET parts == {r \in S : task.id \in r.refs}
                 found == {x \in parts : x.kind = "finding"}
             IN  /\ task.mark = "running" => parts = {}
                 /\ task.kind = "task" /\ task.mark = "completed" =>
                      \E r \in parts : Threats!Fuses(r, task, found)
  <2>1. task \in Threats!Of(p, "task") \union Threats!Of(p, "crawl")
    BY <1>1 DEF Threats!Of
  <2>2. QED
    BY <2>1 DEF Threats!WholeOrNothing
<1> HIDE DEF S
<1>2. ASSUME NEW task \in S
      PROVE  {x \in {r \in S : task.id \in r.refs} : x.kind = "finding"} = FindingsAt(S, task)
  BY DEF FindingsAt
<1>3. Whole(S)
  BY <1>1, <1>2 DEF Whole
<1>4. QED
  BY <1>3 DEF S

LEMMA WholeAgain ==
    ASSUME \A q \in Processes : Whole(store'[q])
    PROVE  Threats!WholeOrNothing'
<1> SUFFICES ASSUME NEW q \in Processes, NEW task \in (Threats!Of(q, "task") \union Threats!Of(q, "crawl"))'
             PROVE  LET parts == {r \in store'[q] : task.id \in r.refs}
                        found == {x \in parts : x.kind = "finding"}
                    IN  /\ task.mark = "running" => parts = {}
                        /\ task.kind = "task" /\ task.mark = "completed" =>
                             \E r \in parts : Threats!Fuses(r, task, found)
  BY DEF Threats!WholeOrNothing
<1> DEFINE S == store'[q]
<1>1. task \in S /\ task.kind \in {"task", "crawl"}
  BY DEF Threats!Of
<1>2. Whole(S)
  OBVIOUS
<1> HIDE DEF S
<1>3. {x \in {r \in S : task.id \in r.refs} : x.kind = "finding"} = FindingsAt(S, task)
  BY DEF FindingsAt
<1>4. task.mark = "running" => {r \in S : task.id \in r.refs} = {}
  BY <1>1, <1>2 DEF Whole
<1>5. ASSUME task.kind = "task", task.mark = "completed"
      PROVE  \E r \in {x \in S : task.id \in x.refs} :
                Threats!Fuses(r, task, {x \in {y \in S : task.id \in y.refs} : x.kind = "finding"})
  <2>1. PICK r \in S : Threats!Fuses(r, task, FindingsAt(S, task))
    BY <1>1, <1>2, <1>5 DEF Whole
  <2>2. task.id \in r.refs
    BY <2>1 DEF Threats!Fuses
  <2>3. QED
    BY <1>3, <2>1, <2>2
<1>6. QED
  BY <1>4, <1>5 DEF S

\* New rows name only each other, so collections and crawls stay as they are.
LEMMA WholeAdd ==
    ASSUME NEW n \in Nat, NEW S, NEW R, Whole(S), Whole(R),
           \A r \in S : r.id < n /\ \A k \in r.refs : k < n,
           \A r \in R : ~(r.id < n) /\ \A k \in r.refs : ~(k < n)
    PROVE  Whole(S \union R)
<1> DEFINE T == S \union R
<1>1. \A task \in S : \A r \in R : task.id \notin r.refs
  OBVIOUS
<1>2. \A task \in R : \A r \in S : task.id \notin r.refs
  OBVIOUS
<1>3. \A task \in S : FindingsAt(T, task) = FindingsAt(S, task)
  BY <1>1 DEF FindingsAt
<1>4. \A task \in R : FindingsAt(T, task) = FindingsAt(R, task)
  BY <1>2 DEF FindingsAt
<1>5. \A task \in S :
        task.kind = "task" /\ task.mark = "completed" =>
          \E r \in S : Threats!Fuses(r, task, FindingsAt(S, task))
  BY DEF Whole
<1>6. \A task \in R :
        task.kind = "task" /\ task.mark = "completed" =>
          \E r \in R : Threats!Fuses(r, task, FindingsAt(R, task))
  BY DEF Whole
<1>7. \A task \in T :
        task.kind = "task" /\ task.mark = "completed" =>
          \E r \in T : Threats!Fuses(r, task, FindingsAt(T, task))
  BY <1>3, <1>4, <1>5, <1>6
<1>8. \A task \in T : task.kind \in {"task", "crawl"} /\ task.mark = "running" =>
              \A r \in T : task.id \notin r.refs
  BY <1>1, <1>2 DEF Whole
<1>9. QED
  BY <1>7, <1>8 DEF Whole

LEMMA DrawnElsewhere ==
    ASSUME RegistryInv, desk \in {"collector", "experts"}, NEW p \in Processes, NEW S,
           store' = [store EXCEPT ![p] = S], next' \in Nat, next <= next', Drawn(S, next')
    PROVE  \A q \in Processes : Drawn(store'[q], next')
<1>1. next \in Nat /\ \A q \in Processes : Drawn(store[q], next)
  BY DEF RegistryInv, DrawnInv
<1>2. \A q \in Processes : store'[q] = IF q = p THEN S ELSE store[q]
  BY Elsewhere
<1>3. ASSUME NEW q \in Processes, q # p
      PROVE  Drawn(store'[q], next')
  BY <1>1, <1>2, <1>3 DEF Drawn
<1>4. QED
  BY <1>2, <1>3

LEMMA CollectorMoves ==
    ASSUME RegistryInv, NEW p \in Processes, NEW S, desk = "collector",
           store' = [store EXCEPT ![p] = S], desk' = desk, next' \in Nat, next <= next',
           Tidy(S), Drawn(S, next'), Whole(S)
    PROVE  RegistryInv'
<1>1. (\A q \in Processes : Tidy(store[q]))'
  BY TidyStep
<1>2. \A q \in Processes : Drawn(store'[q], next')
  BY DrawnElsewhere
<1>3. DrawnInv'
  BY <1>2 DEF DrawnInv, Drawn
<1>4. \A q \in Processes : Whole(store'[q])
  BY Elsewhere, WholeRows DEF RegistryInv
<1>5. Threats!WholeOrNothing'
  BY <1>4, WholeAgain
<1>6. \A q \in Processes : \A r \in store'[q] : r.kind # "expert"
  BY <1>1 DEF Tidy, Fits
<1>7. Threats!NetworkAgrees'
  BY <1>6 DEF Threats!NetworkAgrees, Threats!Of
<1>8. QED
  BY <1>1, <1>3, <1>5, <1>7, Elsewhere DEF RegistryInv, OneRowInv

LEMMA CollectorPut ==
    ASSUME RegistryInv, NEW p \in Processes, desk = "collector", NEW R, Threats!Put(p, R),
           \A r \in R : IsRow(r) /\ Fits(r.kind) /\ \A k \in r.refs : Rests(k, R),
           Whole(R), IsFiniteSet(R),
           \A r \in R : r.id \in Nat /\ next <= r.id /\ r.id < next + Cardinality(R)
    PROVE  RegistryInv'
<1> DEFINE S == store[p]
           n == next
           m == next + Cardinality(R)
<1>1. n \in Nat /\ Drawn(S, n) /\ Tidy(S) /\ Whole(S)
  BY WholeRows DEF RegistryInv, DrawnInv
<1>2. m \in Nat /\ n <= m /\ \A r \in R : r.id \in Nat /\ n <= r.id /\ r.id < m
  BY <1>1, FS_CardinalityType
<1>3. store' = [store EXCEPT ![p] = S \union R] /\ next' = m /\ desk' = desk
  BY SameSizes DEF Threats!Put
<1> HIDE DEF S, n, m
<1>4. \A r \in S : r.id < n /\ \A k \in r.refs : k < n
  <2>1. \A r \in S : \A k \in r.refs : Rests(k, S)
    BY <1>1 DEF Tidy, Fits, Threats!OnTrust
  <2>2. QED
    BY <1>1, <2>1 DEF Drawn, Rests
<1>5. \A r \in R : ~(r.id < n) /\ \A k \in r.refs : ~(k < n)
  BY <1>1, <1>2 DEF Rests
<1>6. Whole(S \union R)
  BY <1>1, <1>4, <1>5, WholeAdd
<1>7. Tidy(S \union R)
  <2>1. \A k : Rests(k, R) => Rests(k, S \union R)
    BY DEF Rests
  <2>2. QED
    BY <1>1, <2>1, TidyAdd
<1>8. Drawn(S \union R, m)
  <2>1. IsFiniteSet(S \union R)
    BY <1>1, FS_Union DEF Drawn
  <2>2. QED
    BY <1>1, <1>2, <2>1 DEF Drawn
<1>9. next <= next'
  BY <1>2, <1>3 DEF n
<1>10. QED
  BY <1>2, <1>3, <1>6, <1>7, <1>8, <1>9, CollectorMoves

\* What a fusion keeps is of the findings, and of each value one.
LEMMA DistinctFuses ==
    ASSUME NEW F, NEW D, D = Threats!Distinct(F)
    PROVE  /\ D \subseteq F
           /\ \A r \in F : \E one \in D : one.mark = r.mark /\ \A s \in D : s.mark = r.mark => s = one
<1> DEFINE first(value) == CHOOSE r \in F : r.mark = value
           M == {r.mark : r \in F}
<1>1. D = {first(value) : value \in M}
  BY DEF Threats!Distinct
<1>2. \A value \in M : first(value) \in F /\ first(value).mark = value
  OBVIOUS
<1>3. \A r \in F : r.mark \in M
  OBVIOUS
<1> HIDE DEF first, M
<1>4. QED
  BY <1>1, <1>2, <1>3

LEMMA CollectedWhole ==
    ASSUME NEW p, NEW chosen, next \in Nat, IsFiniteSet(chosen)
    PROVE  LET R == Threats!Collected(p, next, chosen)
           IN  /\ IsFiniteSet(R) /\ Cardinality(R) = Cardinality(chosen) + 2
               /\ \A r \in R : r.id \in Nat /\ next <= r.id /\ r.id < next + Cardinality(R)
               /\ \A r \in R : IsRow(r) /\ r.kind \in {"task", "finding", "fusion"}
               /\ \A r \in R : \A k \in r.refs : Rests(k, R)
               /\ Whole(R)
<1> DEFINE n == next
           num == Threats!Numbered(chosen)
           c == Threats!Cardinality(chosen)
           self == {n}
           task == Threats!Row("task", n, {}, {}, "completed")
           f == [s \in chosen |-> Threats!Row("finding", n + 1 + num[s], self, {}, s.mark)]
           F == {f[s] : s \in chosen}
           D == Threats!Distinct(F)
           all == self \union {r.id : r \in D}
           fusion == Threats!Row("fusion", n + 1 + c, all, {}, "")
           R == {task} \union F \union {fusion}
<1>1. Threats!Collected(p, next, chosen) = R
  BY DEF Threats!Collected
<1>2. /\ task = Threats!Row("task", n, {}, {}, "completed")
      /\ fusion = Threats!Row("fusion", n + 1 + c, all, {}, "")
      /\ \A s \in chosen : f[s] = Threats!Row("finding", n + 1 + num[s], self, {}, s.mark)
      /\ \A k \in self : k = n
      /\ n \in self
  OBVIOUS
<1>3. n \in Nat
  OBVIOUS
<1> HIDE DEF self, n
<1>4. \A s \in chosen : /\ IsRow(f[s]) /\ f[s].kind = "finding" /\ f[s].refs = self
                        /\ f[s].id = n + 1 + num[s]
  BY <1>2 DEF IsRow, Threats!Row
<1> HIDE DEF num, f
<1>5. /\ IsFiniteSet(F) /\ Cardinality(F) = c /\ c \in Nat
      /\ \A r \in F : r.id \in Nat /\ n + 1 <= r.id /\ r.id < n + 1 + c
  <2> DEFINE base == n + 1
  <2>1. base \in Nat
    BY <1>3
  <2>2. \A s \in chosen : f[s].id = base + Threats!Numbered(chosen)[s]
    BY <1>4 DEF num
  <2> HIDE DEF base
  <2>3. /\ IsFiniteSet(F) /\ Cardinality(F) = c /\ c \in Nat
        /\ \A r \in F : r.id \in base..(base + c - 1)
    <3>1. Enumerates(f, chosen, base, F)
      BY <2>2 DEF Enumerates
    <3> HIDE DEF F
    <3>2. IsFiniteSet(F) /\ Cardinality(F) = Cardinality(chosen) /\ Cardinality(chosen) \in Nat
      BY <2>1, <3>1, CountedRows
    <3>3. \A r \in F : r.id \in base..(base + Cardinality(chosen) - 1)
      BY <2>1, <3>1, RowsInOrder
    <3>4. QED
      BY <3>2, <3>3, SameSizes
  <2>4. QED
    BY <1>3, <2>3 DEF base
<1>6. \A r \in F : IsRow(r) /\ r.kind = "finding" /\ r.refs = self
  BY <1>4
<1>19. \A r, s \in F : r.id = s.id => r = s
  <2> DEFINE base == n + 1
  <2>1. base \in Nat
    BY <1>3
  <2>2. \A s \in chosen : f[s].id = base + Threats!Numbered(chosen)[s]
    BY <1>4 DEF num
  <2> HIDE DEF base
  <2>3. Enumerates(f, chosen, base, F)
    BY <2>2 DEF Enumerates
  <2> HIDE DEF F
  <2>4. QED
    BY <2>1, <2>3, OneEach
<1> HIDE DEF F, c, all, task, fusion
<1>20. /\ D \subseteq F
       /\ \A r \in F : \E one \in D : one.mark = r.mark /\ \A s \in D : s.mark = r.mark => s = one
  BY DistinctFuses
<1> HIDE DEF D
<1>7. IsRow(task) /\ task.kind = "task" /\ task.id = n /\ task.refs = {}
  BY <1>2 DEF IsRow, Threats!Row
<1>8. IsRow(fusion) /\ fusion.kind = "fusion" /\ fusion.id = n + 1 + c /\ fusion.refs = all
  BY <1>2 DEF IsRow, Threats!Row
<1>9. IsFiniteSet(R) /\ Cardinality(R) = c + 2
  <2> DEFINE G == F \union {task}
  <2>1. IsFiniteSet(G) /\ Cardinality(G) = c + 1
    BY <1>5, <1>6, <1>7, FS_AddElement
  <2>2. fusion \notin G
    BY <1>6, <1>7, <1>8
  <2>3. R = G \union {fusion}
    OBVIOUS
  <2> HIDE DEF G, R
  <2>4. QED
    BY <1>5, <2>1, <2>2, <2>3, FS_AddElement
<1>10. \A r \in R : r = task \/ r \in F \/ r = fusion
  OBVIOUS
<1>11. task \in R /\ fusion \in R /\ F \subseteq R
  OBVIOUS
<1> HIDE DEF R
<1>12. \A r \in R : r.id \in Nat /\ n <= r.id /\ r.id < n + Cardinality(R)
  BY <1>3, <1>5, <1>7, <1>8, <1>9, <1>10
<1>13. \A r \in R : IsRow(r) /\ r.kind \in {"task", "finding", "fusion"}
  BY <1>6, <1>7, <1>8, <1>10
<1>14. \A k \in all : Rests(k, R)
  BY <1>2, <1>6, <1>7, <1>11, <1>20 DEF Rests, Renewed, all
<1>15. \A r \in R : \A k \in r.refs : Rests(k, R)
  BY <1>2, <1>6, <1>7, <1>8, <1>10, <1>14 DEF all
<1>16. Whole(R)
  <2>1. FindingsAt(R, task) = F
    <3>1. \A r \in R : r.kind = "finding" <=> r \in F
      BY <1>6, <1>7, <1>8, <1>10
    <3>2. \A r \in F : task.id \in r.refs
      BY <1>2, <1>6, <1>7
    <3>3. QED
      BY <1>11, <3>1, <3>2 DEF FindingsAt
  <2>2. Threats!Fuses(fusion, task, F)
    <3>1. n \notin {r.id : r \in F}
      BY <1>3, <1>5
    <3>2. task.id \in fusion.refs /\ fusion.refs \subseteq {task.id} \union {r.id : r \in F}
      BY <1>2, <1>7, <1>8, <1>20 DEF all
    <3>3. \A r \in F : r.id \in fusion.refs <=> r \in D
      BY <1>2, <1>8, <1>19, <1>20, <3>1 DEF all
    <3>4. ASSUME NEW r \in F
          PROVE  \E one \in F :
                    /\ one.mark = r.mark
                    /\ \A other \in F : other.mark = r.mark => (other.id \in fusion.refs <=> other = one)
      BY <1>20, <3>3
    <3>5. QED
      BY <1>8, <3>2, <3>4 DEF Threats!Fuses
  <2>3. task.mark = "completed"
    BY <1>2 DEF Threats!Row
  <2>4. \A r \in R : r.kind \in {"task", "crawl"} => r = task
    BY <1>6, <1>7, <1>8, <1>10
  <2>5. QED
    BY <1>7, <1>8, <1>11, <1>10, <1>6, <2>1, <2>2, <2>3, <2>4 DEF Whole
<1>17. Cardinality(chosen) = c
  BY SameSizes DEF c
<1>18. QED
  BY <1>1, <1>9, <1>12, <1>13, <1>15, <1>16, <1>17 DEF n

\* A row that names no other, and is complete or tells that it is not.
LEMMA CollectorOne ==
    ASSUME RegistryInv, NEW p \in Processes, desk = "collector", NEW kind, NEW mark,
           Threats!Put(p, {Threats!Row(kind, next, {}, {}, mark)}), Fits(kind), kind # "task" \/ mark # "completed"
    PROVE  RegistryInv'
<1> DEFINE r == Threats!Row(kind, next, {}, {}, mark)
           R == {r}
<1>1. IsRow(r) /\ r.kind = kind /\ r.id = next /\ r.refs = {} /\ r.mark = mark
  BY DEF IsRow, Threats!Row
<1> HIDE DEF r
<1>2. IsFiniteSet(R) /\ Cardinality(R) = 1
  BY FS_Singleton
<1>3. \A s \in R : s = r
  OBVIOUS
<1>4. Threats!Put(p, R)
  BY DEF r
<1> HIDE DEF R
<1>5. Whole(R)
  BY <1>1, <1>3 DEF Whole
<1>6. next \in Nat
  BY DEF RegistryInv, DrawnInv
<1>7. \A s \in R : s.id \in Nat /\ next <= s.id /\ s.id < next + Cardinality(R)
  BY <1>1, <1>2, <1>3, <1>6
<1>8. QED
  BY <1>1, <1>2, <1>3, <1>4, <1>5, <1>7, CollectorPut

LEMMA CollectorKeeps ==
    ASSUME RegistryInv, NEW p \in Processes, desk = "collector", Threats!CollectorStep(p)
    PROVE  RegistryInv'
<1>0. \A kind \in {"source", "task", "finding", "fusion", "crawl", "page"} : Fits(kind)
  BY DEF Fits, Threats!OnTrust
<1>00. next \in Nat
  BY DEF RegistryInv, DrawnInv
<1>1. ASSUME NEW kind, Threats!AddSource(p, kind)
      PROVE  RegistryInv'
  BY <1>0, <1>1, CollectorOne DEF Threats!AddSource
<1>2. ASSUME NEW named, Threats!Collect(p, named)
      PROVE  RegistryInv'
  <2> DEFINE asked == IF named = {} THEN Threats!Of(p, "source") ELSE {r \in Threats!Of(p, "source") : r.id \in named}
             R == Threats!Collected(p, next, asked)
  <2>1. CASE Threats!Put(p, {Threats!Row("task", next, {}, {}, "running")})
    BY <1>0, <2>1, CollectorOne
  <2>2. CASE Threats!Put(p, R)
    <3>1. asked \subseteq store[p]
      BY DEF Threats!Of
    <3>2. IsFiniteSet(store[p])
      BY DEF RegistryInv, DrawnInv, Drawn
    <3> HIDE DEF asked
    <3>3. IsFiniteSet(asked)
      BY <3>1, <3>2, FS_Subset
    <3>5. /\ IsFiniteSet(R)
          /\ \A r \in R : r.id \in Nat /\ next <= r.id /\ r.id < next + Cardinality(R)
          /\ \A r \in R : IsRow(r) /\ r.kind \in {"task", "finding", "fusion"}
          /\ \A r \in R : \A k \in r.refs : Rests(k, R)
          /\ Whole(R)
      BY <1>00, <3>3, CollectedWhole
    <3> HIDE DEF R
    <3>6. QED
      BY <1>0, <2>2, <3>5, CollectorPut
  <2>3. QED
    BY <1>2, <2>1, <2>2 DEF Threats!Collect
<1>3. ASSUME NEW depth, NEW pages \in 0..1, Threats!StartCrawl(p, depth, pages)
      PROVE  RegistryInv'
  <2> DEFINE n == next
             self == {n}
             crawl == Threats!Row("crawl", n, {}, {}, "completed")
             page == Threats!Row("page", n + 1, self, {}, "")
  <2>1. CASE Threats!Put(p, {Threats!Row("crawl", next, {}, {}, "running")})
    BY <1>0, <2>1, CollectorOne
  <2>2. CASE Threats!Put(p, {crawl} \union {Threats!Row("page", next + k, {next}, {}, "") : k \in 1..pages})
    <3>1. CASE pages = 0
      <4>1. {Threats!Row("page", next + k, {next}, {}, "") : k \in 1..pages} = {}
        BY <3>1
      <4>2. Threats!Put(p, {crawl})
        BY <2>2, <4>1
      <4>3. QED
        BY <1>0, <4>2, CollectorOne
    <3>2. CASE pages = 1
      <4> DEFINE R == {crawl, page}
      <4>1. {Threats!Row("page", next + k, {next}, {}, "") : k \in 1..pages} = {page}
        <5>1. 1..pages = {1}
          BY <3>2
        <5>2. QED
          BY <5>1
      <4>2. Threats!Put(p, R)
        <5>1. {crawl} \union {page} = R
          OBVIOUS
        <5>2. QED
          BY <2>2, <4>1, <5>1
      <4>3. /\ crawl = Threats!Row("crawl", n, {}, {}, "completed")
            /\ page = Threats!Row("page", n + 1, self, {}, "")
            /\ \A k \in self : k = n
        OBVIOUS
      <4> HIDE DEF crawl, page, self
      <4>4. /\ IsRow(crawl) /\ crawl.kind = "crawl" /\ crawl.id = n /\ crawl.refs = {}
            /\ crawl.mark = "completed"
            /\ IsRow(page) /\ page.kind = "page" /\ page.id = n + 1 /\ page.refs = self
        BY <4>3 DEF IsRow, Threats!Row
      <4>5. IsFiniteSet(R) /\ Cardinality(R) = 2
        <5>1. R = {crawl} \union {page} /\ page \notin {crawl}
          BY <4>4
        <5>2. IsFiniteSet({crawl}) /\ Cardinality({crawl}) = 1
          BY FS_Singleton
        <5>3. QED
          BY <5>1, <5>2, FS_AddElement
      <4>6. \A r \in R : r = crawl \/ r = page
        OBVIOUS
      <4>7. crawl \in R
        OBVIOUS
      <4> HIDE DEF R
      <4>8. Whole(R)
        BY <4>4, <4>6 DEF Whole
      <4>9. \A r \in R : r.id \in Nat /\ n <= r.id /\ r.id < n + Cardinality(R)
        BY <1>00, <4>4, <4>5, <4>6
      <4>10. \A r \in R : IsRow(r) /\ Fits(r.kind) /\ \A k \in r.refs : Rests(k, R)
        BY <1>0, <4>3, <4>4, <4>6, <4>7 DEF Rests, Renewed
      <4>11. QED
        BY <4>2, <4>5, <4>8, <4>9, <4>10, CollectorPut
    <3>3. QED
      BY <3>1, <3>2
  <2>3. QED
    BY <1>3, <2>1, <2>2 DEF Threats!StartCrawl
<1>4. QED
  BY <1>1, <1>2, <1>3 DEF Threats!CollectorStep

-----------------------------------------------------------------------------
(* The experts *)

OneRow(S) == \A r, s \in S : r.id = s.id => r = s

\* Edges of the graph for all areas of the expert r.
IsDrawn(r, S) ==
    \A area \in r.tags : \E e \in S : e.kind = "edge" /\ e.refs = {r.id} /\ e.tags = {area}

Agrees(S) ==
    \A r \in S : r.kind = "expert" =>
        /\ \A o \in S : o.kind = "expert" /\ o.id \in r.refs => r.id \in o.refs
        /\ IsDrawn(r, S)

LEMMA AgreesHere ==
    ASSUME NEW p \in Processes, Threats!NetworkAgrees
    PROVE  Agrees(store[p])
<1> DEFINE S == store[p]
           E == Threats!Of(p, "expert")
           G == Threats!Of(p, "edge")
<1>1. /\ \A r \in S : r.kind = "expert" => r \in E
      /\ \A e \in G : e \in S /\ e.kind = "edge"
  BY DEF Threats!Of
<1>2. \A r \in E : /\ \A o \in E : o.id \in r.refs => r.id \in o.refs
                   /\ \A area \in r.tags : \E e \in G : e.refs = {r.id} /\ e.tags = {area}
  BY DEF Threats!NetworkAgrees
<1> HIDE DEF S, E, G
<1>3. ASSUME NEW r \in S, r.kind = "expert"
      PROVE  IsDrawn(r, S) /\ \A o \in S : o.kind = "expert" /\ o.id \in r.refs => r.id \in o.refs
  <2>1. r \in E
    BY <1>1, <1>3
  <2>2. \A area \in r.tags : \E e \in G : e.refs = {r.id} /\ e.tags = {area}
    BY <1>2, <2>1
  <2>3. IsDrawn(r, S)
    BY <1>1, <2>2 DEF IsDrawn
  <2>4. QED
    BY <1>1, <1>2, <2>1, <2>3
<1>4. QED
  BY <1>3 DEF S, Agrees

LEMMA AgreesAgain ==
    ASSUME \A q \in Processes : Agrees(store'[q])
    PROVE  Threats!NetworkAgrees'
<1> SUFFICES ASSUME NEW q \in Processes, NEW r \in Threats!Of(q, "expert")'
             PROVE  /\ \A o \in Threats!Of(q, "expert")' : o.id \in r.refs => r.id \in o.refs
                    /\ \A area \in r.tags :
                          \E e \in Threats!Of(q, "edge")' : e.refs = {r.id} /\ e.tags = {area}
  BY DEF Threats!NetworkAgrees
<1> DEFINE S == store'[q]
<1>1. r \in S /\ r.kind = "expert"
  BY DEF Threats!Of
<1>2. Agrees(S)
  OBVIOUS
<1>3. \A o \in Threats!Of(q, "expert")' : o \in S /\ o.kind = "expert"
  BY DEF Threats!Of
<1>4. \A e \in S : e.kind = "edge" => e \in Threats!Of(q, "edge")'
  BY DEF Threats!Of
<1> HIDE DEF S
<1>5. QED
  BY <1>1, <1>2, <1>3, <1>4 DEF Agrees, IsDrawn

LEMMA ExpertsMove ==
    ASSUME RegistryInv, NEW p \in Processes, NEW S, desk = "experts",
           store' = [store EXCEPT ![p] = S], desk' = desk, next' \in Nat, next <= next',
           Tidy(S), Drawn(S, next'), OneRow(S), Agrees(S)
    PROVE  RegistryInv'
<1>1. (\A q \in Processes : Tidy(store[q]))'
  BY TidyStep
<1>2. \A q \in Processes : Drawn(store'[q], next')
  BY DrawnElsewhere
<1>3. DrawnInv'
  BY <1>2 DEF DrawnInv, Drawn
<1>4. \A q \in Processes : OneRow(store'[q])
  BY Elsewhere DEF RegistryInv, OneRowInv, OneRow
<1>5. OneRowInv'
  BY <1>4 DEF OneRowInv, OneRow
<1>6. \A q \in Processes : Agrees(store'[q])
  BY Elsewhere, AgreesHere DEF RegistryInv
<1>7. Threats!NetworkAgrees'
  BY <1>6, AgreesAgain
<1>8. \A q \in Processes : \A r \in store'[q] : r.kind \notin {"task", "crawl"}
  BY <1>1 DEF Tidy, Fits
<1>9. Threats!WholeOrNothing'
  BY <1>8 DEF Threats!WholeOrNothing, Threats!Of
<1>10. QED
  BY <1>1, <1>3, <1>5, <1>7, <1>9, Elsewhere DEF RegistryInv

\* What the step of a request starts from.
LEMMA ExpertsHere ==
    ASSUME RegistryInv, NEW p \in Processes, desk = "experts"
    PROVE  /\ next \in Nat /\ Tidy(store[p]) /\ Drawn(store[p], next) /\ OneRow(store[p])
           /\ Agrees(store[p])
           /\ \A r \in store[p] : r.id < next /\ \A k \in r.refs : k < next
<1>1. next \in Nat /\ Tidy(store[p]) /\ Drawn(store[p], next) /\ OneRow(store[p])
  BY DEF RegistryInv, DrawnInv, OneRowInv, OneRow
<1>2. Agrees(store[p])
  BY AgreesHere DEF RegistryInv
<1>3. \A r \in store[p] : \A k \in r.refs : Rests(k, store[p])
  BY <1>1 DEF Tidy, Fits, Threats!OnTrust
<1>4. QED
  BY <1>1, <1>2, <1>3 DEF Drawn, Rests

\* Rows that are renewed draw nothing.
LEMMA AgreesLess ==
    ASSUME NEW S, NEW T \in SUBSET S, Agrees(S), \A r \in S \ T : r.kind \in Renewed
    PROVE  Agrees(T)
<1>1. \A r \in S : r.kind \in {"expert", "edge"} => r \in T
  BY DEF Renewed
<1>2. QED
  BY <1>1 DEF Agrees, IsDrawn

\* Rows under new identifiers beside those that stay.
LEMMA ExpertsAdd ==
    ASSUME NEW n \in Nat, NEW m \in Nat, n <= m, NEW S, NEW R,
           Tidy(S), Drawn(S, n), OneRow(S), OneRow(R), IsFiniteSet(R),
           \A r \in R : /\ IsRow(r) /\ Fits(r.kind) /\ r.id \in n..(m - 1)
                        /\ \A k \in r.refs : Rests(k, S \union R)
    PROVE  Tidy(S \union R) /\ Drawn(S \union R, m) /\ OneRow(S \union R)
<1>1. Tidy(S \union R)
  BY TidyAdd
<1>2. IsFiniteSet(S \union R)
  BY FS_Union DEF Drawn
<1>3. \A r \in S : r.id \in Nat /\ r.id < n
  BY DEF Drawn
<1>4. \A r \in R : r.id \in Nat /\ n <= r.id /\ r.id < m
  OBVIOUS
<1>5. Drawn(S \union R, m)
  BY <1>2, <1>3, <1>4 DEF Drawn
<1>6. \A r \in S : \A s \in R : r.id # s.id
  BY <1>3, <1>4
<1>7. OneRow(S \union R)
  BY <1>6 DEF OneRow
<1>8. QED
  BY <1>1, <1>5, <1>7

\* The rows of a kind that is renewed, made again of a set of rows.
LEMMA ExpertsReplace ==
    ASSUME RegistryInv, NEW p \in Processes, desk = "experts",
           NEW kind \in {"match", "recommendation"}, NEW D, IsFiniteSet(D), NEW f, NEW R,
           Threats!Replace(p, kind, R), Enumerates(f, D, next, R),
           \A r \in R : IsRow(r) /\ r.kind = kind /\ \A k \in r.refs : Rests(k, store[p])
    PROVE  RegistryInv'
<1> DEFINE S == store[p] \ Threats!Of(p, kind)
           m == next + Cardinality(R)
<1>1. /\ next \in Nat /\ Tidy(store[p]) /\ Drawn(store[p], next) /\ OneRow(store[p])
      /\ Agrees(store[p])
  BY ExpertsHere
<1>2. S \subseteq store[p] /\ \A r \in store[p] \ S : r.kind \in Renewed
  BY DEF Threats!Of, Renewed
<1>3. IsFiniteSet(R) /\ Cardinality(R) = Cardinality(D) /\ Cardinality(D) \in Nat
  BY <1>1, CountedRows
<1>4. \A r \in R : r.id \in next..(next + Cardinality(D) - 1)
  BY <1>1, RowsInOrder
<1>5. OneRow(R)
  BY <1>1, OneEach DEF OneRow
<1>6. store' = [store EXCEPT ![p] = S \union R] /\ next' = m /\ desk' = desk
  BY SameSizes DEF Threats!Replace
<1>7. m \in Nat /\ next <= m
  BY <1>1, <1>3
<1>8. Drawn(S, next) /\ OneRow(S)
  BY <1>1, <1>2, FS_Subset DEF Drawn, OneRow
<1>9. Tidy(S) /\ Agrees(S)
  BY <1>1, <1>2, TidyLess, AgreesLess
<1>10. \A k : Rests(k, store[p]) => Rests(k, S \union R)
  BY <1>2 DEF Rests
<1>11. Fits(kind) /\ kind \notin {"expert", "edge"}
  BY DEF Fits, Threats!OnTrust
<1> HIDE DEF S, m
<1>12. \A r \in R : r.id \in next..(m - 1)
  BY <1>1, <1>3, <1>4 DEF m
<1>13. \A r \in R : /\ IsRow(r) /\ Fits(r.kind) /\ r.id \in next..(m - 1)
                    /\ \A k \in r.refs : Rests(k, S \union R)
  BY <1>10, <1>11, <1>12
<1>14. Tidy(S \union R) /\ Drawn(S \union R, m) /\ OneRow(S \union R)
  BY <1>1, <1>3, <1>5, <1>7, <1>8, <1>9, <1>13, ExpertsAdd
<1>15. Agrees(S \union R)
  BY <1>9, <1>11 DEF Agrees, IsDrawn
<1>16. QED
  BY <1>6, <1>7, <1>14, <1>15, ExpertsMove

\* An edge from the expert n to each of the areas, numbered from first on.
Drawing(E, first, n, areas) ==
    /\ IsFiniteSet(E) /\ Cardinality(E) = Cardinality(areas) /\ Cardinality(areas) \in Nat
    /\ OneRow(E)
    /\ \A e \in E : /\ IsRow(e) /\ e.kind = "edge" /\ e.refs = {n}
                    /\ e.id \in first..(first + Cardinality(areas) - 1)
    /\ \A area \in areas : \E e \in E : e.kind = "edge" /\ e.refs = {n} /\ e.tags = {area}

LEMMA EdgesAre ==
    ASSUME NEW first \in Nat, NEW n, NEW areas, IsFiniteSet(areas)
    PROVE  Drawing(Threats!Edges(first, n, areas), first, n, areas)
<1> DEFINE E == Threats!Edges(first, n, areas)
           num == Threats!Numbered(areas)
           refs == {n}
           tag == [area \in areas |-> {area}]
           f == [area \in areas |-> Threats!Row("edge", first + num[area], refs, tag[area], "specializes_in")]
<1>1. E = {f[area] : area \in areas}
  BY DEF Threats!Edges
<1>2. \A area \in areas : f[area] = Threats!Row("edge", first + num[area], refs, tag[area], "specializes_in")
  OBVIOUS
<1>3. \A area \in areas : tag[area] = {area}
  OBVIOUS
<1> HIDE DEF E, num, refs, tag
<1>4. \A area \in areas : /\ IsRow(f[area]) /\ f[area].kind = "edge" /\ f[area].refs = refs
                          /\ f[area].tags = tag[area] /\ f[area].id = first + num[area]
  BY <1>2 DEF IsRow, Threats!Row
<1> HIDE DEF f
<1>5. Enumerates(f, areas, first, E)
  BY <1>1, <1>4 DEF Enumerates, num
<1>6. IsFiniteSet(E) /\ Cardinality(E) = Cardinality(areas) /\ Cardinality(areas) \in Nat
  BY <1>5, CountedRows
<1>7. \A e \in E : e.id \in first..(first + Cardinality(areas) - 1)
  BY <1>5, RowsInOrder
<1>8. OneRow(E)
  BY <1>5, OneEach DEF OneRow
<1>9. \A e \in E : IsRow(e) /\ e.kind = "edge" /\ e.refs = refs
  BY <1>1, <1>4
<1>10. \A area \in areas : \E e \in E : e.kind = "edge" /\ e.refs = refs /\ e.tags = {area}
  BY <1>1, <1>3, <1>4
<1>11. QED
  BY <1>6, <1>7, <1>8, <1>9, <1>10 DEF E, refs, Drawing

LEMMA AddExpertKeeps ==
    ASSUME RegistryInv, NEW p \in Processes, desk = "experts", NEW areas, IsFiniteSet(areas),
           Threats!AddExpert(p, areas)
    PROVE  RegistryInv'
<1> DEFINE S == store[p]
           n == next
           x == Threats!Row("expert", n, {}, areas, "")
           E == Threats!Edges(n + 1, n, areas)
           c == Cardinality(areas)
           R == {x} \union E
           m == n + Cardinality(R)
<1>1. /\ n \in Nat /\ Tidy(S) /\ Drawn(S, n) /\ OneRow(S) /\ Agrees(S)
      /\ \A r \in S : r.id < n /\ \A k \in r.refs : k < n
  BY ExpertsHere
<1>2. store' = [store EXCEPT ![p] = S \union R] /\ next' = m /\ desk' = desk
  BY SameSizes DEF Threats!AddExpert, Threats!Put
<1>3. IsRow(x) /\ x.kind = "expert" /\ x.id = n /\ x.refs = {} /\ x.tags = areas
  BY DEF IsRow, Threats!Row
<1> HIDE DEF S, n, x
<1>4. n + 1 \in Nat
  BY <1>1
<1>5. /\ IsFiniteSet(E) /\ Cardinality(E) = c /\ c \in Nat /\ OneRow(E)
      /\ \A e \in E : /\ IsRow(e) /\ e.kind = "edge" /\ e.refs = {n}
                      /\ e.id \in (n + 1)..((n + 1) + c - 1)
      /\ \A area \in areas : \E e \in E : e.kind = "edge" /\ e.refs = {n} /\ e.tags = {area}
  <2>1. Drawing(E, n + 1, n, areas)
    BY <1>4, EdgesAre
  <2> HIDE DEF E
  <2>2. QED
    BY <2>1 DEF Drawing
<1> HIDE DEF E, c
<1>6. IsFiniteSet(R) /\ Cardinality(R) = c + 1
  <2>1. x \notin E /\ R = E \union {x}
    BY <1>3, <1>5
  <2> HIDE DEF R
  <2>2. QED
    BY <1>5, <2>1, FS_AddElement
<1>7. \A r \in R : r = x \/ r \in E
  OBVIOUS
<1>8. x \in R /\ E \subseteq R
  OBVIOUS
<1> HIDE DEF R
<1>9. m = n + c + 1 /\ m \in Nat /\ n <= m
  BY <1>1, <1>5, <1>6
<1> HIDE DEF m
<1>10. \A r \in R : r.id \in n..(m - 1)
  <2>1. n \in n..(m - 1)
    BY <1>1, <1>5, <1>9
  <2>2. \A i \in (n + 1)..((n + 1) + c - 1) : i \in n..(m - 1) /\ i # n
    BY <1>1, <1>5, <1>9
  <2>3. QED
    BY <1>3, <1>5, <1>7, <2>1, <2>2
<1>11. OneRow(R)
  <2>1. \A e \in E : e.id # n
    BY <1>1, <1>5
  <2>2. QED
    BY <1>3, <1>5, <1>7, <2>1 DEF OneRow
<1>12. Fits("expert") /\ Fits("edge")
  BY DEF Fits, Threats!OnTrust
<1>13. Rests(n, S \union R)
  BY <1>3, <1>8 DEF Rests, Renewed
<1>14. \A r \in R : \A k \in r.refs : Rests(k, S \union R)
  BY <1>3, <1>5, <1>7, <1>13
<1>15. \A r \in R : /\ IsRow(r) /\ Fits(r.kind) /\ r.id \in n..(m - 1)
                    /\ \A k \in r.refs : Rests(k, S \union R)
  BY <1>3, <1>5, <1>7, <1>10, <1>12, <1>14
<1>16. Tidy(S \union R) /\ Drawn(S \union R, m) /\ OneRow(S \union R)
  BY <1>1, <1>6, <1>9, <1>11, <1>15, ExpertsAdd
<1>17. \A r \in S \union R : r.kind = "expert" => r = x \/ r \in S
  BY <1>5, <1>7
<1>18. \A r \in S : r.kind = "expert" => IsDrawn(r, S \union R)
  <2>1. \A r \in S : r.kind = "expert" => IsDrawn(r, S)
    BY <1>1 DEF Agrees
  <2>2. \A r : IsDrawn(r, S) => IsDrawn(r, S \union R)
    BY DEF IsDrawn
  <2>3. QED
    BY <2>1, <2>2
<1>19. IsDrawn(x, S \union R)
  BY <1>3, <1>5, <1>8 DEF IsDrawn
<1>20. \A r \in S : x.id \notin r.refs
  BY <1>1, <1>3
<1>21. Agrees(S \union R)
  BY <1>1, <1>3, <1>17, <1>18, <1>19, <1>20 DEF Agrees
<1>22. QED
  BY <1>2, <1>9, <1>16, <1>21, ExpertsMove DEF n

\* Areas are given up and taken on; what is taken on is drawn.
LEMMA TrackKeeps ==
    ASSUME RegistryInv, NEW p \in Processes, desk = "experts", NEW k, NEW areas, IsFiniteSet(areas),
           Threats!TrackExpertise(p, k, areas)
    PROVE  RegistryInv'
<1> DEFINE S == store[p]
           n == next
           old == Threats!The(p, k)
           new == [old EXCEPT !.tags = areas]
           T == (S \ {old}) \union {new}
           more == areas \ old.tags
           R == Threats!Edges(n, k, more)
           m == n + Cardinality(R)
<1>1. /\ n \in Nat /\ Tidy(S) /\ Drawn(S, n) /\ OneRow(S) /\ Agrees(S)
  BY ExpertsHere
<1>2. Threats!Has(p, "expert", k) /\ Threats!PutFor(p, old, new, R)
  BY DEF Threats!TrackExpertise
<1>3. store' = [store EXCEPT ![p] = T \union R] /\ next' = m /\ desk' = desk
  BY <1>2, SameSizes DEF Threats!PutFor
<1>4. old \in S /\ old.id = k /\ Rests(k, S)
  BY <1>2, Found DEF Renewed
<1>5. old.kind = "expert"
  <2>1. PICK r \in S : r.id = k /\ r.kind = "expert"
    BY <1>2 DEF Threats!Has, Threats!Of
  <2>2. QED
    BY <1>1, <1>4, <2>1 DEF OneRow
<1> HIDE DEF S, n, old
<1>6. IsRow(old) /\ \A i \in old.refs : Rests(i, S)
  BY <1>1, <1>4, <1>5 DEF Tidy, Threats!OnTrust
<1>7. IsRow(new) /\ new.kind = "expert" /\ new.id = k /\ new.refs = old.refs /\ new.tags = areas
  BY <1>4, <1>5, <1>6 DEF IsRow, Threats!Row
<1> HIDE DEF new
<1>8. IsFiniteSet(more)
  BY FS_Subset
<1>9. /\ IsFiniteSet(R) /\ Cardinality(R) = Cardinality(more) /\ Cardinality(more) \in Nat /\ OneRow(R)
      /\ \A e \in R : /\ IsRow(e) /\ e.kind = "edge" /\ e.refs = {k}
                      /\ e.id \in n..(n + Cardinality(more) - 1)
      /\ \A area \in more : \E e \in R : e.kind = "edge" /\ e.refs = {k} /\ e.tags = {area}
  <2> HIDE DEF more
  <2>1. Drawing(R, n, k, more)
    BY <1>1, <1>8, EdgesAre
  <2> HIDE DEF R
  <2>2. QED
    BY <2>1 DEF Drawing
<1> HIDE DEF R
<1>10. m \in Nat /\ n <= m /\ \A e \in R : e.id \in n..(m - 1)
  <2>1. m = n + Cardinality(more)
    BY <1>9
  <2> HIDE DEF m, more
  <2>2. QED
    BY <1>1, <1>9, <2>1
<1> HIDE DEF m
<1>11. \A r \in T : r = new \/ (r \in S /\ r # old)
  OBVIOUS
<1>12. new \in T /\ \A r \in S : r # old => r \in T
  OBVIOUS
<1>13. Tidy(T)
  BY <1>1, <1>4, <1>5, <1>6, <1>7, TidySwap
<1>14. IsFiniteSet(T)
  <2>1. IsFiniteSet(S \ {old})
    BY <1>1, FS_Subset DEF Drawn
  <2>2. QED
    BY <2>1, FS_AddElement
<1> HIDE DEF T
<1>15. Drawn(T, n) /\ OneRow(T)
  BY <1>1, <1>4, <1>7, <1>11, <1>14 DEF Drawn, OneRow
<1>16. Rests(k, T \union R)
  BY <1>7, <1>12 DEF Rests, Renewed
<1>17. Fits("edge")
  BY DEF Fits, Threats!OnTrust
<1>18. \A e \in R : \A i \in e.refs : Rests(i, T \union R)
  BY <1>9, <1>16
<1>19. \A e \in R : /\ IsRow(e) /\ Fits(e.kind) /\ e.id \in n..(m - 1)
                    /\ \A i \in e.refs : Rests(i, T \union R)
  BY <1>9, <1>10, <1>17, <1>18
<1>20. Tidy(T \union R) /\ Drawn(T \union R, m) /\ OneRow(T \union R)
  BY <1>1, <1>9, <1>10, <1>13, <1>15, <1>19, ExpertsAdd
<1>21. \A r \in T \union R : r.kind = "expert" => r = new \/ (r \in S /\ r # old)
  BY <1>9, <1>11
\* The edges there were are there still.
<1>22. \A e \in S : e.kind = "edge" => e \in T \union R
  BY <1>5, <1>12
<1>23. \A r \in S : r.kind = "expert" => IsDrawn(r, T \union R)
  BY <1>1, <1>22 DEF Agrees, IsDrawn
<1>24. IsDrawn(new, T \union R)
  <2>1. ASSUME NEW area \in areas
        PROVE  \E e \in T \union R : e.kind = "edge" /\ e.refs = {new.id} /\ e.tags = {area}
    <3>1. CASE area \in old.tags
      BY <1>4, <1>5, <1>7, <1>23, <3>1 DEF IsDrawn
    <3>2. CASE area \notin old.tags
      BY <1>7, <1>9, <3>2
    <3>3. QED
      BY <3>1, <3>2
  <2>2. QED
    BY <1>7, <2>1 DEF IsDrawn
<1>25. \A r, o \in S : r.kind = "expert" /\ o.kind = "expert" /\ o.id \in r.refs => r.id \in o.refs
  BY <1>1 DEF Agrees
<1>26. \A r, o \in T \union R :
          r.kind = "expert" /\ o.kind = "expert" /\ o.id \in r.refs => r.id \in o.refs
  BY <1>4, <1>5, <1>7, <1>21, <1>25
<1>27. Agrees(T \union R)
  BY <1>21, <1>23, <1>24, <1>26 DEF Agrees
<1>28. QED
  BY <1>3, <1>10, <1>20, <1>27, ExpertsMove DEF n

LEMMA MatchKeeps ==
    ASSUME RegistryInv, NEW p \in Processes, desk = "experts", NEW named, NEW matched,
           Threats!MatchExperts(p, named, matched)
    PROVE  RegistryInv'
<1> DEFINE num == Threats!Numbered(matched)
           self == [r \in matched |-> {r.id}]
           f == [r \in matched |-> Threats!Row("match", next + num[r], self[r], {}, "")]
           R == {f[r] : r \in matched}
<1>1. matched \subseteq store[p] /\ Threats!Replace(p, "match", R)
  <2>1. R = {Threats!Row("match", next + num[r], {r.id}, {}, "") : r \in matched}
    OBVIOUS
  <2> HIDE DEF R
  <2>2. QED
    BY <2>1 DEF Threats!MatchExperts, Threats!Of
<1>2. \A r \in matched : f[r] = Threats!Row("match", next + num[r], self[r], {}, "")
  OBVIOUS
<1>3. \A r \in matched : self[r] = {r.id} /\ \A k \in self[r] : k = r.id
  OBVIOUS
<1> HIDE DEF num, self
<1>4. \A r \in matched : /\ IsRow(f[r]) /\ f[r].kind = "match" /\ f[r].refs = self[r]
                         /\ f[r].id = next + num[r]
  BY <1>2 DEF IsRow, Threats!Row
<1>5. \A s \in R : \E r \in matched : s = f[r]
  OBVIOUS
<1>6. \A r \in matched : f[r] \in R
  OBVIOUS
<1> HIDE DEF f, R
<1>7. Enumerates(f, matched, next, R)
  BY <1>4, <1>5, <1>6 DEF Enumerates, num
<1>8. IsFiniteSet(matched)
  BY <1>1, ExpertsHere, FS_Subset DEF Drawn
<1>9. \A r \in store[p] : r.kind = "expert" => Rests(r.id, store[p])
  BY DEF Rests, Renewed
<1>10. \A r \in matched : r.kind = "expert"
  BY DEF Threats!MatchExperts, Threats!Of
<1>11. \A s \in R : IsRow(s) /\ s.kind = "match" /\ \A k \in s.refs : Rests(k, store[p])
  BY <1>1, <1>3, <1>4, <1>5, <1>9, <1>10
<1>12. QED
  BY <1>1, <1>7, <1>8, <1>11, ExpertsReplace

LEMMA RecommendKeeps ==
    ASSUME RegistryInv, NEW p \in Processes, desk = "experts", NEW n, NEW others,
           Threats!Recommend(p, n, others)
    PROVE  RegistryInv'
<1> DEFINE num == Threats!Numbered(others)
           both == [r \in others |-> {n, r.id}]
           f == [r \in others |-> Threats!Row("recommendation", next + num[r], both[r], {}, "")]
           R == {f[r] : r \in others}
<1>1. Threats!Replace(p, "recommendation", R)
  <2>1. R = {Threats!Row("recommendation", next + num[r], {n, r.id}, {}, "") : r \in others}
    OBVIOUS
  <2> HIDE DEF R
  <2>2. QED
    BY <2>1 DEF Threats!Recommend
<1>2. \A r \in others : f[r] = Threats!Row("recommendation", next + num[r], both[r], {}, "")
  OBVIOUS
<1>3. \A r \in others : \A k \in both[r] : k = n \/ k = r.id
  OBVIOUS
<1> HIDE DEF num, both
<1>4. \A r \in others : /\ IsRow(f[r]) /\ f[r].kind = "recommendation" /\ f[r].refs = both[r]
                        /\ f[r].id = next + num[r]
  BY <1>2 DEF IsRow, Threats!Row
<1>5. \A s \in R : \E r \in others : s = f[r]
  OBVIOUS
<1>6. \A r \in others : f[r] \in R
  OBVIOUS
<1> HIDE DEF f, R
<1>7. Enumerates(f, others, next, R)
  BY <1>4, <1>5, <1>6 DEF Enumerates, num
<1>8. \A r \in others : r \in store[p] /\ r.kind = "expert"
  BY DEF Threats!Recommend, Threats!Of
<1>9. IsFiniteSet(others)
  <2>1. others \subseteq store[p]
    BY <1>8
  <2>2. QED
    BY <2>1, ExpertsHere, FS_Subset DEF Drawn
<1>10. \A r \in store[p] : r.kind = "expert" => Rests(r.id, store[p])
  BY DEF Rests, Renewed
<1>11. Rests(n, store[p])
  <2>1. Threats!Has(p, "expert", n) /\ "expert" \notin Renewed
    BY DEF Threats!Recommend, Renewed
  <2>2. QED
    BY <2>1, Found
<1>12. \A s \in R : IsRow(s) /\ s.kind = "recommendation" /\ \A k \in s.refs : Rests(k, store[p])
  BY <1>3, <1>4, <1>5, <1>8, <1>10, <1>11
<1>13. QED
  BY <1>1, <1>7, <1>9, <1>12, ExpertsReplace

\* Partners are made to know of each other in one step.
LEMMA CollaborationKeeps ==
    ASSUME RegistryInv, NEW p \in Processes, desk = "experts", NEW a, NEW b,
           Threats!AddCollaboration(p, a, b)
    PROVE  RegistryInv'
<1> DEFINE S == store[p]
           n == next
           gain == [r \in S |-> IF r.id = a THEN {b} ELSE IF r.id = b THEN {a} ELSE {}]
           met == [r \in S |-> [r EXCEPT !.refs = @ \union gain[r]]]
           T == {met[r] : r \in S}
           ends == {a, b}
           edge == Threats!Row("edge", n, ends, {}, "collaborates_with")
           R == {edge}
           m == n + 1
<1>1. /\ n \in Nat /\ Tidy(S) /\ Drawn(S, n) /\ OneRow(S) /\ Agrees(S)
  BY ExpertsHere
<1>2. /\ Threats!Has(p, "expert", a) /\ Threats!Has(p, "expert", b)
      /\ store' = [store EXCEPT ![p] =
            {IF r.id = a THEN [r EXCEPT !.refs = @ \union {b}]
             ELSE IF r.id = b THEN [r EXCEPT !.refs = @ \union {a}] ELSE r : r \in @} \union R]
      /\ next' = m /\ desk' = desk
  BY DEF Threats!AddCollaboration
<1>3. Rests(a, S) /\ Rests(b, S)
  <2>1. "expert" \notin Renewed
    BY DEF Renewed
  <2>2. QED
    BY <1>2, <2>1, Found
\* Whoever bears one of the two names is an expert.
<1>4. \A r \in S : r.id \in {a, b} => r.kind = "expert"
  <2>1. PICK x \in S : x.id = a /\ x.kind = "expert"
    BY <1>2 DEF Threats!Has, Threats!Of
  <2>2. PICK y \in S : y.id = b /\ y.kind = "expert"
    BY <1>2 DEF Threats!Has, Threats!Of
  <2>3. QED
    BY <1>1, <2>1, <2>2 DEF OneRow
<1>5. \A r \in S : IsRow(r) /\ Fits(r.kind) /\ \A k \in r.refs : Rests(k, S)
  BY <1>1 DEF Tidy, Fits, Threats!OnTrust
<1>6. \A r \in S : gain[r] = IF r.id = a THEN {b} ELSE IF r.id = b THEN {a} ELSE {}
  OBVIOUS
<1>7. \A r \in S : met[r] = [r EXCEPT !.refs = r.refs \union gain[r]]
  OBVIOUS
<1>8. /\ IsRow(edge) /\ edge.kind = "edge" /\ edge.id = n /\ edge.refs = ends
      /\ \A k \in ends : k = a \/ k = b
  <2>1. edge = Threats!Row("edge", n, ends, {}, "collaborates_with") /\ \A k \in ends : k = a \/ k = b
    OBVIOUS
  <2> HIDE DEF edge, ends
  <2>2. QED
    BY <2>1 DEF IsRow, Threats!Row
<1> HIDE DEF S, gain
<1>9. ASSUME NEW r \in S
      PROVE  /\ IsRow(met[r]) /\ met[r].kind = r.kind /\ met[r].id = r.id
             /\ met[r].tags = r.tags /\ met[r].mark = r.mark
             /\ met[r].refs = r.refs \union gain[r]
  <2> DEFINE x == met[r]
             refs == r.refs \union gain[r]
  <2>1. x = [r EXCEPT !.refs = refs] /\ IsRow(r)
    BY <1>5, <1>7
  <2> HIDE DEF x, refs
  <2>2. /\ IsRow(x) /\ x.kind = r.kind /\ x.id = r.id /\ x.tags = r.tags /\ x.mark = r.mark
        /\ x.refs = refs
    BY <2>1 DEF IsRow, Threats!Row
  <2>3. QED
    BY <2>2 DEF x, refs
<1>10. store' = [store EXCEPT ![p] = T \union R]
  <2> DEFINE both(r) == IF r.id = a THEN [r EXCEPT !.refs = @ \union {b}]
                        ELSE IF r.id = b THEN [r EXCEPT !.refs = @ \union {a}] ELSE r
  <2>1. ASSUME NEW r \in S
        PROVE  met[r] = both(r)
    <3>1. CASE r.id = a \/ r.id = b
      BY <1>6, <1>7, <3>1
    <3>2. CASE r.id # a /\ r.id # b
      <4>1. r.refs \union gain[r] = r.refs
        BY <1>6, <3>2
      <4>2. met[r] = r
        BY <1>5, <1>7, <4>1 DEF IsRow, Threats!Row
      <4>3. QED
        BY <3>2, <4>2
    <3>3. QED
      BY <3>1, <3>2
  <2>2. store' = [store EXCEPT ![p] = {both(r) : r \in S} \union R]
    BY <1>2 DEF S
  <2> HIDE DEF met, both
  <2>3. T = {both(r) : r \in S}
    BY <2>1
  <2> HIDE DEF T, R
  <2>4. QED
    BY <2>2, <2>3
<1>11. IsFiniteSet(T)
  <2>1. met \in Surjection(S, T)
    BY DEF Surjection
  <2>2. QED
    BY <1>1, <2>1, FS_Surjection DEF Drawn
<1>12. (\A t \in T : \E r \in S : t = met[r]) /\ (\A r \in S : met[r] \in T)
  OBVIOUS
<1> HIDE DEF met, T
<1>13. \A k : Rests(k, S) => Rests(k, T)
  BY <1>9, <1>12 DEF Rests
<1>14. \A r \in S : \A k \in gain[r] : k = a \/ k = b
  BY <1>6
<1>15. Tidy(T)
  <2>1. \A t \in T : IsRow(t) /\ Fits(t.kind)
    BY <1>5, <1>9, <1>12
  <2>2. \A t \in T : \A k \in t.refs : Rests(k, T)
    BY <1>3, <1>5, <1>9, <1>12, <1>13, <1>14
  <2>3. QED
    BY <2>1, <2>2 DEF Tidy
<1>16. Drawn(T, n)
  BY <1>1, <1>9, <1>11, <1>12 DEF Drawn
<1>17. OneRow(T)
  BY <1>1, <1>9, <1>12 DEF OneRow
<1>18. /\ IsFiniteSet(R) /\ OneRow(R)
       /\ \A r \in R : r = edge
  BY FS_Singleton DEF OneRow
<1>19. m \in Nat /\ n <= m /\ n \in n..(m - 1)
  BY <1>1
<1>20. Fits("edge")
  BY DEF Fits, Threats!OnTrust
<1> HIDE DEF R, edge, n, m
<1>21. \A k : Rests(k, T) => Rests(k, T \union R)
  BY DEF Rests
<1>22. \A r \in R : /\ IsRow(r) /\ Fits(r.kind) /\ r.id \in n..(m - 1)
                    /\ \A k \in r.refs : Rests(k, T \union R)
  BY <1>3, <1>8, <1>13, <1>18, <1>19, <1>20, <1>21
<1>23. Tidy(T \union R) /\ Drawn(T \union R, m) /\ OneRow(T \union R)
  BY <1>1, <1>15, <1>16, <1>17, <1>18, <1>19, <1>22, ExpertsAdd
\* The edges there were are as they were.
<1>24. \A e \in S : e.kind = "edge" => met[e].refs = e.refs
  BY <1>4, <1>6, <1>9
<1>25. \A r \in S : r.kind = "expert" => IsDrawn(met[r], T \union R)
  <2>1. \A r \in S : r.kind = "expert" => IsDrawn(r, S)
    BY <1>1 DEF Agrees
  <2>2. QED
    BY <1>9, <1>12, <1>24, <2>1 DEF IsDrawn
<1>26. \A r, o \in S : r.kind = "expert" /\ o.kind = "expert" /\ o.id \in r.refs => r.id \in o.refs
  BY <1>1 DEF Agrees
<1>27. \A r, o \in S : o.id \in gain[r] => r.id \in gain[o]
  BY <1>6
<1>28. \A r, o \in S :
          r.kind = "expert" /\ o.kind = "expert" /\ o.id \in met[r].refs => r.id \in met[o].refs
  BY <1>9, <1>26, <1>27
<1>29. \A t \in T \union R : t.kind = "expert" => \E r \in S : t = met[r] /\ r.kind = "expert"
  BY <1>8, <1>9, <1>12, <1>18
<1>30. Agrees(T \union R)
  <2>1. \A t, u \in T \union R :
          t.kind = "expert" /\ u.kind = "expert" /\ u.id \in t.refs => t.id \in u.refs
    BY <1>9, <1>28, <1>29
  <2>2. \A t \in T \union R : t.kind = "expert" => IsDrawn(t, T \union R)
    BY <1>25, <1>29
  <2>3. QED
    BY <2>1, <2>2 DEF Agrees
<1>31. QED
  BY <1>2, <1>10, <1>19, <1>23, <1>30, ExpertsMove DEF n

LEMMA ExpertKeeps ==
    ASSUME Threats!RegistriesAssumption, RegistryInv, NEW p \in Processes, desk = "experts", Threats!ExpertStep(p)
    PROVE  RegistryInv'
<1>1. \A areas \in SUBSET Tags : IsFiniteSet(areas)
  BY FS_Subset, SameSizes DEF Threats!RegistriesAssumption
<1>2. QED
  BY <1>1, AddExpertKeeps, TrackKeeps, MatchKeeps, RecommendKeeps, CollaborationKeeps DEF Threats!ExpertStep

-----------------------------------------------------------------------------
(* All of them *)

LEMMA StartKeeps ==
    ASSUME RegistryInv, NEW p \in Processes, Threats!Start(p)
    PROVE  RegistryInv'
<1> DEFINE S == Threats!Seeds(next)
<1>1. /\ store' = [store EXCEPT ![p] = S] /\ next' = next + Cardinality(S) /\ desk' = desk
  BY SameSizes DEF Threats!Start
<1>2. CASE desk = "knowledge"
  <2> DEFINE ttp == Threats!Row("ttp", next, {}, {}, "")
  <2>1. S = {ttp}
    BY <1>2 DEF Threats!Seeds
  <2>0. IsRow(ttp) /\ ttp.kind = "ttp" /\ ttp.refs = {}
    BY DEF IsRow, Threats!Row
  <2> HIDE DEF S, ttp
  <2>2. \A r \in S : IsRow(r) /\ r.kind = "ttp" /\ r.refs = {}
    BY <2>0, <2>1
  <2>3. Tidy(S)
    BY <1>2, <2>2 DEF Tidy, Fits
  <2>4. QED
    BY <1>1, <1>2, <2>3, PlainStep
<1>3. CASE desk = "collector"
  <2> DEFINE one == Threats!Row("source", next, {}, {}, "api")
             two == Threats!Row("source", next + 1, {}, {}, "web")
  <2>1. S = {one} \union {two}
    BY <1>3 DEF Threats!Seeds
  <2>2. /\ IsRow(one) /\ one.kind = "source" /\ one.id = next /\ one.refs = {}
        /\ IsRow(two) /\ two.kind = "source" /\ two.id = next + 1 /\ two.refs = {}
    BY DEF IsRow, Threats!Row
  <2> HIDE DEF S, one, two
  <2>3. next \in Nat
    BY <1>3 DEF RegistryInv, DrawnInv
  <2>4. IsFiniteSet(S) /\ Cardinality(S) = 2
    <3>1. two \notin {one}
      BY <2>2, <2>3
    <3>2. IsFiniteSet({one}) /\ Cardinality({one}) = 1
      BY FS_Singleton
    <3>3. QED
      BY <2>1, <3>1, <3>2, FS_AddElement
  <2>5. \A r \in S : r = one \/ r = two
    BY <2>1
  <2>6. Tidy(S)
    BY <1>3, <2>2, <2>5 DEF Tidy, Fits, Threats!OnTrust
  <2>7. next' \in Nat /\ next <= next' /\ Drawn(S, next')
    BY <1>1, <2>2, <2>3, <2>4, <2>5 DEF Drawn
  <2>8. Whole(S)
    BY <2>2, <2>5 DEF Whole
  <2>9. QED
    BY <1>1, <1>3, <2>6, <2>7, <2>8, CollectorMoves
<1>4. CASE desk \notin {"knowledge", "collector"}
  <2>1. S = {}
    BY <1>4 DEF Threats!Seeds
  <2>2. Tidy(S) /\ OneRow(S) /\ Agrees(S)
    BY <2>1 DEF Tidy, OneRow, Agrees
  <2>3. CASE desk = "experts"
    <3>1. next \in Nat
      BY <2>3 DEF RegistryInv, DrawnInv
    <3>2. IsFiniteSet(S) /\ Cardinality(S) = 0
      BY <2>1, FS_EmptySet
    <3>3. next' \in Nat /\ next <= next'
      BY <1>1, <3>1, <3>2
    <3>4. Drawn(S, next')
      BY <2>1, <3>2 DEF Drawn
    <3> HIDE DEF S
    <3>5. QED
      BY <1>1, <2>2, <2>3, <3>3, <3>4, ExpertsMove
  <2>4. CASE desk # "experts"
    <3> HIDE DEF S
    <3>1. QED
      BY <1>1, <1>4, <2>2, <2>4, PlainStep
  <2>5. QED
    BY <2>3, <2>4
<1>5. QED
  BY <1>2, <1>3, <1>4

LEMMA RegistryStart ==
    ASSUME Threats!Init
    PROVE  RegistryInv
<1>1. store = [p \in Processes |-> {}] /\ next = 1
  BY DEF Threats!Init
<1>2. \A p \in Processes : store[p] = {}
  BY <1>1
<1>3. store = [p \in Processes |-> store[p]]
  BY <1>1
<1>4. IsFiniteSet({})
  BY FS_EmptySet
<1>5. QED
  BY <1>1, <1>2, <1>3, <1>4
  DEF RegistryInv, Tidy, DrawnInv, Drawn, OneRowInv, Threats!WholeOrNothing, Threats!NetworkAgrees, Threats!Of

LEMMA RegistryStep ==
    ASSUME Threats!RegistriesAssumption, RegistryInv, Threats!Next
    PROVE  RegistryInv'
<1>1. PICK p \in Processes : Threats!Start(p) \/ Threats!Request(p)
  BY DEF Threats!Next
<1>2. CASE Threats!Start(p)
  BY <1>2, StartKeeps
<1>3. CASE Threats!Request(p)
  BY <1>3, CampaignKeeps, CorrelationKeeps, KnowledgeKeeps, PredictiveKeeps, CollectorKeeps,
     MonitorKeeps, EmulationKeeps, SharingKeeps, ExchangeKeeps, SupplyKeeps, HuntingKeeps,
     OutlookKeeps, JudgementKeeps, SignalKeeps, SubscriptionKeeps, ExpertKeeps
  DEF Threats!Request
<1>4. QED
  BY <1>1, <1>2, <1>3

LEMMA RegistryStill ==
    ASSUME RegistryInv, UNCHANGED Threats!registryVars
    PROVE  RegistryInv'
<1>1. store' = store /\ desk' = desk /\ next' = next
  BY DEF Threats!registryVars
<1>2. ASSUME NEW q \in Processes
      PROVE  Tidy(store[q])'
  <2>1. Tidy(store'[q])
    BY <1>1 DEF RegistryInv
  <2>2. QED
    BY <1>1, <2>1, TidyNext
<1>3. DrawnInv' /\ OneRowInv'
  BY <1>1 DEF RegistryInv, DrawnInv, Drawn, OneRowInv
<1>4. Threats!WholeOrNothing'
  BY <1>1 DEF RegistryInv, Threats!WholeOrNothing, Threats!Of
<1>5. Threats!NetworkAgrees'
  BY <1>1 DEF RegistryInv, Threats!NetworkAgrees, Threats!Of
<1>6. store' = [q \in Processes |-> store'[q]]
  BY <1>1 DEF RegistryInv
<1>7. QED
  BY <1>2, <1>3, <1>4, <1>5, <1>6 DEF RegistryInv

LEMMA RegistryHeld ==
    ASSUME RegistryInv
    PROVE  Threats!RegistriesHold
<1>1. Threats!DerivedRestsOnRows
  BY DEF RegistryInv, Tidy, Rests, Threats!DerivedRestsOnRows
<1>2. QED
  BY <1>1 DEF RegistryInv, Threats!RegistriesHold

\* Whatever requests reach whichever replica, in whatever order and through whatever restarts,
\* what a registry derives names rows it has; a collection or a crawl is there as a whole or
\* tells that it is not; the experts and their graph agree.
THEOREM RegistriesSafe == Threats!Spec => []RegistriesHold
<1>1. Threats!RegistriesAssumption /\ RegistryInv /\ [Threats!Next]_(Threats!registryVars) => RegistryInv'
  BY RegistryStep, RegistryStill
<1>2. Threats!RegistriesAssumption
  BY ServiceAssumption
<1>3. RegistryInv /\ [Threats!Next]_(Threats!registryVars) => RegistryInv'
  BY <1>1, <1>2
<1>4. RegistryInv => RegistriesHold
  BY RegistryHeld DEF RegistriesHold
<1>5. QED
  BY <1>3, <1>4, RegistryStart, PTL DEF Threats!Spec

-----------------------------------------------------------------------------
(* Telemetry *)

\* Rows exist up to the last id drawn, each written by a session.
IdsInv ==
    /\ \A i \in Events!Ids : i <= last => author[i] \in Sessions
    /\ \A i \in Events!Ids : i > last => row[i] = "none" /\ i \notin spoken /\ i \notin pending

\* A session commits all it has flushed: what it drew before a stored event is settled.
WholeInv ==
    \A i, j \in Events!Ids :
        i < j /\ author[i] = author[j] /\ row[j] = "stored" => row[i] # "flushed"

\* i is on its way past the poller, or already stored behind it.
Passed(c, i) == i <= polled[c].after /\ i \notin polled[c].seen /\ row[i] \in {"flushed", "stored"}

\* Whatever a poller has passed, it passed for a later event of another session.
PollInv ==
    \A c \in Clients :
        /\ polled[c].after <= last
        /\ \A j \in polled[c].seen : j <= last
        /\ \A i \in Events!Ids : Passed(c, i) => \E j \in polled[c].seen : j > i /\ author[j] # author[i]

\* A session awaits one flush at a time, so what it has still to broadcast comes after all
\* it has broadcast.
PendInv ==
    \A i \in pending :
        /\ i \notin spoken
        /\ \A j \in spoken \cup pending : j # i /\ author[j] = author[i] => j < i

\* The hub of a process has the queues of the streams that are open there.
HubInv ==
    \A c \in Clients :
        /\ stream[c].before \subseteq spoken
        /\ \A p \in Processes : c \in hub[p] <=> stream[c].home = p

Said(c) == {i \in spoken \ stream[c].before : Home[author[i]] = stream[c].home}

\* Each event once, those of one session in the order of their ids.
OrderedBy(queue, writer) ==
    \A k, l \in DOMAIN queue : k < l =>
        /\ queue[k] # queue[l]
        /\ writer[queue[k]] = writer[queue[l]] => queue[k] < queue[l]

Ordered(queue) == OrderedBy(queue, author)

Elements(queue) == {queue[k] : k \in DOMAIN queue}

\* The queue of an open stream.
HeardBefore(c) == stream[c].home # None => Elements(stream[c].queue) = Said(c) /\ Ordered(stream[c].queue)

EventInv ==
    /\ Events!TypeOK
    /\ IdsInv
    /\ WholeInv
    /\ PollInv
    /\ PendInv
    /\ HubInv
    /\ \A c \in Clients : HeardBefore(c)

-----------------------------------------------------------------------------
(* Lemmas *)

\* A new element at the end of an ordered queue, the last of its session.
LEMMA Appended ==
    ASSUME NEW queue \in Seq(Events!Ids), Ordered(queue), NEW e \in Events!Ids,
           \A i \in Elements(queue) : i # e /\ (author[i] = author[e] => i < e)
    PROVE  /\ Append(queue, e) \in Seq(Events!Ids)
           /\ Ordered(Append(queue, e))
           /\ Elements(Append(queue, e)) = Elements(queue) \cup {e}
<1> DEFINE n == Len(queue)
           q == Append(queue, e)
<1>1. /\ q \in Seq(Events!Ids) /\ DOMAIN q = 1 .. n + 1 /\ DOMAIN queue = 1 .. n /\ n \in Nat
      /\ \A k \in 1 .. n : q[k] = queue[k] /\ queue[k] \in Events!Ids
      /\ q[n + 1] = e
  OBVIOUS
<1>2. \A k \in 1 .. n : queue[k] # e /\ (author[queue[k]] = author[e] => queue[k] < e)
  BY <1>1 DEF Elements
<1> HIDE DEF q, n
<1>3. Ordered(q)
  <2>1. ASSUME NEW k \in DOMAIN q, NEW l \in DOMAIN q, k < l
        PROVE  q[k] # q[l] /\ (author[q[k]] = author[q[l]] => q[k] < q[l])
    <3>1. k \in 1 .. n
      BY <1>1, <2>1
    <3>2. CASE l = n + 1
      BY <1>1, <1>2, <3>1, <3>2
    <3>3. CASE l # n + 1
      <4>1. l \in 1 .. n
        BY <1>1, <3>3
      <4>2. queue[k] # queue[l] /\ (author[queue[k]] = author[queue[l]] => queue[k] < queue[l])
        BY <1>1, <2>1, <3>1, <4>1 DEF Ordered, OrderedBy
      <4>3. QED
        BY <1>1, <3>1, <4>1, <4>2
    <3>4. QED
      BY <3>2, <3>3
  <2>2. QED
    BY <2>1 DEF Ordered, OrderedBy
<1>4. Elements(q) = Elements(queue) \cup {e}
  <2>1. Elements(q) = {q[k] : k \in 1 .. n + 1}
    BY <1>1 DEF Elements
  <2>2. Elements(queue) = {queue[k] : k \in 1 .. n}
    BY <1>1 DEF Elements
  <2>3. 1 .. n + 1 = (1 .. n) \cup {n + 1}
    BY <1>1
  <2>4. QED
    BY <1>1, <2>1, <2>2, <2>3
<1>5. QED
  BY <1>1, <1>3, <1>4 DEF q

\* Some ids have a least one, since < on the naturals is well founded, and so a greatest.
LEMMA LeastExists ==
    ASSUME NEW T \in SUBSET Nat, T # {}
    PROVE  \E i \in T : \A j \in T : i <= j
<1>1. \E i \in T : \A j \in T : ~ (<<j, i>> \in OpToRel(<, Nat))
  BY NatLessThanWellFounded, WFMin
<1>2. PICK i \in T : \A j \in T : ~ (<<j, i>> \in OpToRel(<, Nat))
  BY <1>1
<1>3. \A j \in T : ~ (j < i)
  BY <1>2 DEF OpToRel
<1>4. QED
  BY <1>3

LEMMA GreatestFacts ==
    ASSUME Events!EventAssumption, NEW S \in SUBSET Events!Ids, S # {}, NEW least
    PROVE  Events!Greatest(S, least) \in S /\ \A i \in S : i <= Events!Greatest(S, least)
<1> DEFINE T == {MaxEvents - i : i \in S}
<1>1. MaxEvents \in Nat /\ \A i \in S : i \in 1 .. MaxEvents
  BY DEF Events!EventAssumption, Events!Ids
<1>2. T \in SUBSET Nat /\ T # {}
  BY <1>1
<1>3. PICK k \in T : \A j \in T : k <= j
  <2> HIDE DEF T
  <2>1. QED
    BY <1>2, LeastExists
<1>4. PICK m \in S : k = MaxEvents - m
  BY <1>3
<1>5. \A i \in S : i <= m
  <2>1. ASSUME NEW i \in S
        PROVE  i <= m
    <3>1. MaxEvents - i \in T
      OBVIOUS
    <3>2. k <= MaxEvents - i
      BY <1>3, <3>1
    <3>3. QED
      BY <1>1, <1>4, <3>2
  <2>2. QED
    BY <2>1
<1>6. QED
  BY <1>5 DEF Events!Greatest

-----------------------------------------------------------------------------
(* The invariant, step by step *)

LEMMA EventStart == Events!EventAssumption /\ Events!Init => EventInv
<1> SUFFICES ASSUME Events!EventAssumption, Events!Init
             PROVE  EventInv
  OBVIOUS
<1>1. MaxEvents \in Nat
  BY DEF Events!EventAssumption
<1>2. Events!Off \in Events!Stream
  BY <1>1 DEF Events!Off, Events!Stream
<1>3. Events!TypeOK
  BY <1>1, <1>2 DEF Events!Init, Events!TypeOK, Events!Polled
<1>4. IdsInv /\ WholeInv /\ PendInv
  BY <1>1 DEF Events!Init, IdsInv, WholeInv, PendInv, Events!Ids
<1>5. PollInv
  BY <1>1 DEF Events!Init, PollInv, Passed, Events!Ids
<1>6. HubInv
  BY <1>1 DEF Events!Init, HubInv, Events!Off, Events!EventAssumption
<1>7. \A c \in Clients : HeardBefore(c)
  BY DEF Events!Init, HeardBefore, Events!Off
<1>8. QED
  BY <1>3, <1>4, <1>5, <1>6, <1>7 DEF EventInv

\* A new row is the last, flushed and of its session.
LEMMA Inserted ==
    ASSUME Events!EventAssumption, EventInv, NEW s \in Sessions, Events!Insert(s)
    PROVE  /\ last' = last + 1 /\ last' \in Events!Ids /\ last \in Nat
           /\ author' \in [Events!Ids -> Sessions \cup {None}]
           /\ row' \in [Events!Ids -> {"none", "flushed", "stored", "lost"}]
           /\ author'[last + 1] = s /\ row'[last + 1] = "flushed"
           /\ \A i \in Events!Ids : i # last + 1 => author'[i] = author[i] /\ row'[i] = row[i]
           /\ WholeInv'
<1>1. last \in 0 .. MaxEvents /\ MaxEvents \in Nat
  BY DEF EventInv, Events!TypeOK, Events!EventAssumption
<1>2. last + 1 \in Events!Ids
  BY <1>1 DEF Events!Insert, Events!Ids
<1>3. /\ author \in [Events!Ids -> Sessions \cup {None}]
      /\ row \in [Events!Ids -> {"none", "flushed", "stored", "lost"}]
  BY DEF EventInv, Events!TypeOK
<1>4. /\ last' = last + 1
      /\ author' \in [Events!Ids -> Sessions \cup {None}]
      /\ row' \in [Events!Ids -> {"none", "flushed", "stored", "lost"}]
      /\ author'[last + 1] = s /\ row'[last + 1] = "flushed"
      /\ \A i \in Events!Ids : i # last + 1 => author'[i] = author[i] /\ row'[i] = row[i]
  BY <1>2, <1>3 DEF Events!Insert
<1>5. WholeInv'
  <2>1. ASSUME NEW i \in Events!Ids, NEW j \in Events!Ids, i < j, author'[i] = author'[j], row'[j] = "stored"
        PROVE  row'[i] # "flushed"
    <3>1. j # last + 1 /\ row[j] = "stored"
      BY <1>4, <2>1
    <3>2. j <= last
      BY <1>1, <3>1 DEF EventInv, IdsInv, Events!Ids
    <3>3. i # last + 1
      BY <1>1, <2>1, <3>2 DEF Events!Ids
    <3>4. QED
      BY <1>4, <2>1, <3>1, <3>3 DEF EventInv, WholeInv
  <2>2. QED
    BY <2>1 DEF WholeInv, Events!Ids
<1>6. QED
  BY <1>1, <1>2, <1>4, <1>5

\* Pollers are behind a new row.
LEMMA InsertedPoll ==
    ASSUME Events!EventAssumption, EventInv, NEW s \in Sessions, Events!Insert(s), UNCHANGED polled
    PROVE  PollInv'
<1>1. /\ last' = last + 1 /\ last \in Nat
      /\ \A i \in Events!Ids : i # last + 1 => author'[i] = author[i] /\ row'[i] = row[i]
  BY Inserted
<1>2. polled \in [Clients -> Events!Polled] /\ MaxEvents \in Nat
  BY DEF EventInv, Events!TypeOK, Events!EventAssumption
<1>3. ASSUME NEW c \in Clients
      PROVE  /\ polled'[c].after <= last'
             /\ \A j \in polled'[c].seen : j <= last'
             /\ \A i \in Events!Ids : Passed(c, i)' =>
                  \E j \in polled'[c].seen : j > i /\ author'[j] # author'[i]
  <2>1. /\ polled[c].after \in 0 .. MaxEvents /\ polled[c].seen \subseteq Events!Ids
        /\ polled[c].after <= last
        /\ \A j \in polled[c].seen : j <= last
        /\ \A i \in Events!Ids : Passed(c, i) =>
             \E j \in polled[c].seen : j > i /\ author[j] # author[i]
    BY <1>2 DEF Events!Polled, EventInv, PollInv
  <2>2. ASSUME NEW i \in Events!Ids, Passed(c, i)'
        PROVE  \E j \in polled[c].seen : j > i /\ author'[j] # author'[i]
    <3>1. i <= polled[c].after
      BY <2>2 DEF Passed
    <3>2. i # last + 1
      BY <1>1, <1>2, <2>1, <3>1 DEF Events!Ids
    <3>3. Passed(c, i)
      BY <1>1, <2>2, <3>2 DEF Passed
    <3>4. PICK j \in polled[c].seen : j > i /\ author[j] # author[i]
      BY <2>1, <3>3
    <3>5. j \in Events!Ids /\ j # last + 1
      BY <1>1, <1>2, <2>1 DEF Events!Ids
    <3>6. QED
      BY <1>1, <3>2, <3>4, <3>5
  <2>3. QED
    BY <1>1, <1>2, <2>1, <2>2 DEF Events!Ids
<1>4. QED
  BY <1>3 DEF PollInv

\* Settled rows make no poller miss anything.
LEMMA SettledPoll ==
    ASSUME EventInv, UNCHANGED <<last, author, polled>>,
           row' \in [Events!Ids -> {"none", "flushed", "stored", "lost"}],
           \A i \in Events!Ids : row'[i] \in {"flushed", "stored"} => row[i] \in {"flushed", "stored"}
    PROVE  PollInv'
BY DEF EventInv, PollInv, Passed

\* Streams and hubs that nothing is put in keep what they have, whatever is given up.
LEMMA QuietStreams ==
    ASSUME EventInv, UNCHANGED <<last, author, spoken, hub, stream>>, pending' \subseteq pending
    PROVE  PendInv' /\ HubInv' /\ \A c \in Clients : HeardBefore(c)'
BY DEF EventInv, PendInv, HubInv, HeardBefore, Said, Ordered, OrderedBy

\* A row is flushed, to be broadcast or not: the queues keep what they have.
LEMMA InsertStep ==
    ASSUME Events!EventAssumption, EventInv, NEW s \in Sessions, Events!Insert(s),
           UNCHANGED <<spoken, hub, stream, polled>>,
           pending' = pending \/ pending' = pending \cup {last'}
    PROVE  EventInv'
<1>2. /\ last' = last + 1 /\ last' \in Events!Ids /\ last \in Nat
      /\ author' \in [Events!Ids -> Sessions \cup {None}]
      /\ row' \in [Events!Ids -> {"none", "flushed", "stored", "lost"}]
      /\ author'[last + 1] = s
      /\ \A i \in Events!Ids : i # last + 1 => author'[i] = author[i] /\ row'[i] = row[i]
      /\ WholeInv'
  BY Inserted
<1>3. Events!TypeOK'
  <2>1. pending \subseteq Events!Ids
    BY DEF EventInv, Events!TypeOK
  <2>2. pending' \subseteq Events!Ids
    BY <1>2, <2>1
  <2>3. last' \in 0 .. MaxEvents
    BY <1>2 DEF Events!Ids
  <2>4. QED
    BY <1>2, <2>2, <2>3 DEF EventInv, Events!TypeOK
<1>4. IdsInv'
  BY <1>2 DEF EventInv, IdsInv, Events!Ids
<1>5. PollInv'
  BY InsertedPoll
<1>6. /\ spoken \subseteq Events!Ids /\ pending \subseteq Events!Ids
      /\ \A i \in spoken \cup pending : i <= last /\ i # last + 1 /\ author'[i] = author[i]
  <2>1. spoken \subseteq Events!Ids /\ pending \subseteq Events!Ids /\ Events!Ids \subseteq Nat
    BY DEF EventInv, Events!TypeOK, Events!Ids
  <2>2. \A i \in spoken \cup pending : i <= last
    BY <1>2, <2>1 DEF EventInv, IdsInv
  <2>3. QED
    BY <1>2, <2>1, <2>2
<1>7. PendInv'
  <2>1. \A i \in pending : author[i] # s
    BY DEF Events!Insert, Events!Emitting
  <2>2. ASSUME NEW i \in pending', NEW j \in spoken \cup pending', j # i, author'[j] = author'[i]
        PROVE  j < i
    <3>1. CASE i = last + 1
      <4>1. j \in spoken \cup pending
        BY <1>2, <2>2, <3>1
      <4>2. QED
        BY <1>2, <1>6, <2>1, <2>2, <3>1, <4>1 DEF Events!Ids
    <3>2. CASE i # last + 1
      <4>1. i \in pending
        BY <1>2, <3>2
      <4>2. j # last + 1
        BY <1>2, <1>6, <2>1, <2>2, <4>1
      <4>3. j \in spoken \cup pending
        BY <1>2, <2>2, <4>2
      <4>4. QED
        BY <1>6, <2>2, <4>1, <4>3 DEF EventInv, PendInv
    <3>3. QED
      BY <3>1, <3>2
  <2>3. \A i \in pending' : i \notin spoken
    BY <1>2, <1>6 DEF EventInv, PendInv
  <2>4. QED
    BY <2>2, <2>3 DEF PendInv
<1>8. HubInv'
  BY DEF EventInv, HubInv
<1>9. ASSUME NEW c \in Clients
      PROVE  HeardBefore(c)'
  <2>1. Said(c)' = Said(c)
    BY <1>6 DEF Said
  <2>2. SUFFICES ASSUME stream[c].home # None
                 PROVE  Elements(stream[c].queue) = Said(c) /\ Ordered(stream[c].queue)'
    BY <2>1 DEF HeardBefore
  <2>3. Elements(stream[c].queue) = Said(c) /\ Ordered(stream[c].queue)
    BY <2>2 DEF EventInv, HeardBefore
  <2>4. \A k \in DOMAIN stream[c].queue : author'[stream[c].queue[k]] = author[stream[c].queue[k]]
    BY <1>6, <2>3 DEF Elements, Said
  <2>5. QED
    BY <2>3, <2>4 DEF Ordered, OrderedBy
<1>10. QED
  BY <1>2, <1>3, <1>4, <1>5, <1>7, <1>8, <1>9 DEF EventInv

\* The awaited flush is over: what is broadcast is new to every queue and comes after all
\* its session has broadcast.
LEMMA BroadcastStep ==
    ASSUME Events!EventAssumption, EventInv, NEW e \in Events!Ids, Events!Broadcast(e)
    PROVE  EventInv'
<1>1. /\ e \in pending /\ pending' = pending \ {e} /\ spoken' = spoken \cup {e}
      /\ stream' = [c \in Clients |->
                      IF c \in hub[Home[author[e]]] THEN Events!Heard(c, e) ELSE stream[c]]
      /\ UNCHANGED <<last, author, row, hub, polled>>
  BY DEF Events!Broadcast
<1>2. /\ e \notin spoken /\ e <= last /\ author[e] \in Sessions /\ last \in Nat
      /\ spoken \subseteq Events!Ids
      /\ stream \in [Clients -> Events!Stream]
  <2>1. last \in Nat /\ e \in Nat
    BY DEF EventInv, Events!TypeOK, Events!Ids
  <2>2. e <= last
    BY <1>1, <2>1 DEF EventInv, IdsInv
  <2>3. QED
    BY <1>1, <2>1, <2>2 DEF EventInv, IdsInv, PendInv, Events!TypeOK
<1>3. Home[author[e]] \in Processes /\ Home[author[e]] # None
  BY <1>2 DEF Events!EventAssumption
<1>4. ASSUME NEW c \in Clients
      PROVE  /\ stream'[c] \in Events!Stream
             /\ stream'[c].home = stream[c].home /\ stream'[c].before = stream[c].before
             /\ HeardBefore(c)'
  <2>1. /\ stream[c] \in Events!Stream /\ stream[c].queue \in Seq(Events!Ids)
        /\ e \notin stream[c].before
    BY <1>2 DEF EventInv, Events!TypeOK, Events!Stream, HubInv
  <2>2. c \in hub[Home[author[e]]] <=> stream[c].home = Home[author[e]]
    BY <1>3 DEF EventInv, HubInv
  <2>3. CASE stream[c].home = Home[author[e]]
    <3>1. stream'[c] = [stream[c] EXCEPT !.queue = Append(@, e)]
      BY <1>1, <2>2, <2>3 DEF Events!Heard
    <3>2. Elements(stream[c].queue) = Said(c) /\ Ordered(stream[c].queue)
      BY <1>3, <2>3 DEF EventInv, HeardBefore
    <3>3. \A i \in Elements(stream[c].queue) : i # e /\ (author[i] = author[e] => i < e)
      BY <1>1, <1>2, <3>2 DEF Said, EventInv, PendInv
    <3>4. /\ Append(stream[c].queue, e) \in Seq(Events!Ids)
          /\ Ordered(Append(stream[c].queue, e))
          /\ Elements(Append(stream[c].queue, e)) = Elements(stream[c].queue) \cup {e}
      BY <2>1, <3>2, <3>3, Appended
    <3>5. /\ stream'[c] \in Events!Stream /\ stream'[c].queue = Append(stream[c].queue, e)
          /\ stream'[c].home = stream[c].home /\ stream'[c].before = stream[c].before
      BY <2>1, <3>1, <3>4 DEF Events!Stream
    <3>6. Said(c)' = Said(c) \cup {e}
      BY <1>1, <2>1, <2>3, <3>5 DEF Said
    <3>7. Ordered(stream[c].queue)'
      BY <1>1, <3>4, <3>5 DEF Ordered
    <3>8. Elements(stream'[c].queue) = Said(c)'
      BY <3>2, <3>4, <3>5, <3>6
    <3>9. HeardBefore(c)'
      BY <3>7, <3>8 DEF HeardBefore, Elements
    <3>10. QED
      BY <3>5, <3>9
  <2>4. CASE stream[c].home # Home[author[e]]
    <3>1. stream'[c] = stream[c]
      BY <1>1, <2>2, <2>4
    <3>2. Said(c)' = Said(c)
      BY <1>1, <2>4, <3>1 DEF Said
    <3>3. Ordered(stream[c].queue)' <=> Ordered(stream[c].queue)
      BY <1>1, <3>1 DEF Ordered, OrderedBy
    <3>4. QED
      BY <2>1, <3>1, <3>2, <3>3 DEF EventInv, HeardBefore
  <2>5. QED
    BY <2>3, <2>4
<1>5. Events!TypeOK'
  <2>1. stream' \in [Clients -> Events!Stream]
    BY <1>1, <1>4
  <2>2. QED
    BY <1>1, <2>1 DEF EventInv, Events!TypeOK
<1>6. IdsInv' /\ WholeInv'
  BY <1>1, <1>2 DEF EventInv, IdsInv, WholeInv, Events!Ids
<1>7. PollInv'
  BY <1>1, SettledPoll DEF EventInv, Events!TypeOK
<1>8. HubInv'
  BY <1>1, <1>4 DEF EventInv, HubInv
<1>9. PendInv'
  <2>1. ASSUME NEW i \in pending, i # e, author[i] = author[e]
        PROVE  FALSE
    <3>1. e < i /\ i < e
      BY <1>1, <2>1 DEF EventInv, PendInv
    <3>2. i \in Int /\ e \in Int
      BY DEF EventInv, Events!TypeOK, Events!Ids
    <3>3. QED
      BY <3>1, <3>2
  <2>2. QED
    BY <1>1, <2>1 DEF EventInv, PendInv
<1>10. QED
  BY <1>4, <1>5, <1>6, <1>7, <1>8, <1>9 DEF EventInv

LEMMA CommitStep ==
    ASSUME Events!EventAssumption, EventInv, NEW s \in Sessions, Events!Commit(s)
    PROVE  EventInv'
<1>1. /\ row' = [i \in Events!Ids |-> IF author[i] = s /\ row[i] = "flushed" THEN "stored" ELSE row[i]]
      /\ UNCHANGED <<last, author, pending, spoken, hub, stream, polled>>
  BY DEF Events!Commit, Events!Flushed
<1>2. Events!TypeOK' /\ IdsInv'
  BY <1>1 DEF EventInv, Events!TypeOK, IdsInv
<1>3. WholeInv'
  BY <1>1 DEF EventInv, WholeInv
<1>4. PollInv'
  BY <1>1, <1>2, SettledPoll DEF Events!TypeOK
<1>5. QED
  BY <1>1, <1>2, <1>3, <1>4, QuietStreams DEF EventInv

LEMMA RollbackStep ==
    ASSUME Events!EventAssumption, EventInv, NEW s \in Sessions, Events!Rollback(s)
    PROVE  EventInv'
<1>1. /\ row' = [i \in Events!Ids |-> IF author[i] = s /\ row[i] = "flushed" THEN "lost" ELSE row[i]]
      /\ pending' \subseteq pending
      /\ UNCHANGED <<last, author, spoken, hub, stream, polled>>
  BY DEF Events!Rollback, Events!Flushed
<1>2. Events!TypeOK' /\ IdsInv'
  BY <1>1 DEF EventInv, Events!TypeOK, IdsInv
<1>3. WholeInv'
  BY <1>1 DEF EventInv, WholeInv
<1>4. PollInv'
  BY <1>1, <1>2, SettledPoll DEF Events!TypeOK
<1>5. QED
  BY <1>1, <1>2, <1>3, <1>4, QuietStreams DEF EventInv

LEMMA CrashStep ==
    ASSUME Events!EventAssumption, EventInv, NEW p \in Processes, Events!Crash(p)
    PROVE  EventInv'
<1>1. /\ row' \in [Events!Ids -> {"none", "flushed", "stored", "lost"}]
      /\ \A i \in Events!Ids : row'[i] = row[i] \/ (row[i] = "flushed" /\ row'[i] = "lost")
  BY DEF Events!Crash, EventInv, Events!TypeOK, Events!Flushed
<1>2. /\ stream' = [c \in Clients |-> IF stream[c].home = p THEN Events!Off ELSE stream[c]]
      /\ hub' = [hub EXCEPT ![p] = {}]
      /\ pending' \subseteq pending
      /\ UNCHANGED <<last, author, spoken, polled>>
  BY DEF Events!Crash
<1>3. Events!Off \in Events!Stream /\ Events!Off.home = None /\ Events!Off.before = {}
  BY DEF Events!Off, Events!Stream, Events!EventAssumption, EventInv, Events!TypeOK
<1>4. Events!TypeOK'
  BY <1>1, <1>2, <1>3 DEF EventInv, Events!TypeOK
<1>5. IdsInv'
  BY <1>1, <1>2 DEF EventInv, IdsInv
<1>6. WholeInv' /\ PendInv'
  BY <1>1, <1>2 DEF EventInv, WholeInv, PendInv
<1>7. PollInv'
  BY <1>1, <1>2, SettledPoll
<1>8. HubInv'
  <2>1. p # None /\ hub \in [Processes -> SUBSET Clients]
    BY DEF Events!EventAssumption, EventInv, Events!TypeOK
  <2>2. ASSUME NEW c \in Clients
        PROVE  /\ stream'[c].before \subseteq spoken'
               /\ \A q \in Processes : c \in hub'[q] <=> stream'[c].home = q
    <3>1. stream[c].before \subseteq spoken /\ \A q \in Processes : c \in hub[q] <=> stream[c].home = q
      BY DEF EventInv, HubInv
    <3>2. CASE stream[c].home = p
      BY <1>2, <1>3, <2>1, <3>1, <3>2 DEF Events!EventAssumption
    <3>3. CASE stream[c].home # p
      BY <1>2, <2>1, <3>1, <3>3
    <3>4. QED
      BY <3>2, <3>3
  <2>3. QED
    BY <2>2 DEF HubInv
<1>9. ASSUME NEW c \in Clients
      PROVE  HeardBefore(c)'
  BY <1>2, <1>3 DEF EventInv, HeardBefore, Said, Ordered, OrderedBy
<1>10. QED
  BY <1>4, <1>5, <1>6, <1>7, <1>8, <1>9 DEF EventInv

LEMMA SubscribeStep ==
    ASSUME Events!EventAssumption, EventInv, NEW c \in Clients, NEW p \in Processes, Events!Subscribe(c, p)
    PROVE  EventInv'
<1> DEFINE new == [home |-> p, before |-> spoken, queue |-> <<>>]
<1>1. /\ stream[c].home = None
      /\ stream' = [stream EXCEPT ![c] = new]
      /\ hub' = [hub EXCEPT ![p] = hub[p] \cup {c}]
      /\ UNCHANGED <<last, author, row, pending, spoken, polled>>
  BY DEF Events!Subscribe
<1>2. /\ spoken \subseteq Events!Ids /\ last \in 0 .. MaxEvents /\ MaxEvents \in Nat /\ p # None
      /\ stream \in [Clients -> Events!Stream] /\ hub \in [Processes -> SUBSET Clients]
  BY DEF Events!EventAssumption, EventInv, Events!TypeOK
<1>3. new \in Events!Stream
  BY <1>2 DEF Events!Stream
<1>4. Events!TypeOK' /\ IdsInv' /\ WholeInv' /\ PendInv'
  BY <1>1, <1>2, <1>3 DEF EventInv, Events!TypeOK, IdsInv, WholeInv, PendInv
<1>5. PollInv'
  BY <1>1, SettledPoll DEF EventInv, Events!TypeOK
<1>6. HubInv'
  <2>1. ASSUME NEW d \in Clients
        PROVE  /\ stream'[d].before \subseteq spoken'
               /\ \A q \in Processes : d \in hub'[q] <=> stream'[d].home = q
    <3>1. stream[d].before \subseteq spoken /\ \A q \in Processes : d \in hub[q] <=> stream[d].home = q
      BY DEF EventInv, HubInv
    <3>2. CASE d = c
      <4>1. stream'[d] = new /\ \A q \in Processes : d \in hub'[q] <=> q = p
        BY <1>1, <1>2, <3>1, <3>2 DEF Events!EventAssumption
      <4>2. QED
        BY <1>1, <1>2, <4>1
    <3>3. CASE d # c
      BY <1>1, <1>2, <3>1, <3>3
    <3>4. QED
      BY <3>2, <3>3
  <2>2. QED
    BY <2>1 DEF HubInv
<1>7. ASSUME NEW d \in Clients
      PROVE  HeardBefore(d)'
  <2>1. CASE d = c
    <3>1. stream'[d] = new
      BY <1>1, <1>2, <2>1
    <3>2. Said(d)' = {} /\ Elements(<<>>) = {} /\ Ordered(<<>>)'
      BY <1>1, <1>2, <3>1 DEF Said, Elements, Ordered, OrderedBy
    <3>3. QED
      BY <3>1, <3>2 DEF HeardBefore
  <2>2. CASE d # c
    BY <1>1, <1>2, <2>2 DEF EventInv, HeardBefore, Said, Ordered, OrderedBy
  <2>3. QED
    BY <2>1, <2>2
<1>8. QED
  BY <1>4, <1>5, <1>6, <1>7 DEF EventInv

LEMMA UnsubscribeStep ==
    ASSUME Events!EventAssumption, EventInv, NEW c \in Clients, Events!Unsubscribe(c)
    PROVE  EventInv'
<1> DEFINE p == stream[c].home
<1>1. /\ p # None
      /\ stream' = [stream EXCEPT ![c] = Events!Off]
      /\ hub' = [hub EXCEPT ![p] = hub[p] \ {c}]
      /\ UNCHANGED <<last, author, row, pending, spoken, polled>>
  BY DEF Events!Unsubscribe
<1>2. /\ last \in 0 .. MaxEvents /\ MaxEvents \in Nat
      /\ stream \in [Clients -> Events!Stream] /\ hub \in [Processes -> SUBSET Clients]
  BY DEF Events!EventAssumption, EventInv, Events!TypeOK
<1>3. p \in Processes /\ Events!Off \in Events!Stream /\ Events!Off.home = None /\ Events!Off.before = {}
  BY <1>1, <1>2 DEF Events!Stream, Events!Off
<1>4. Events!TypeOK' /\ IdsInv' /\ WholeInv' /\ PendInv'
  BY <1>1, <1>2, <1>3 DEF EventInv, Events!TypeOK, IdsInv, WholeInv, PendInv
<1>5. PollInv'
  BY <1>1, SettledPoll DEF EventInv, Events!TypeOK
<1>6. HubInv'
  <2>1. ASSUME NEW d \in Clients
        PROVE  /\ stream'[d].before \subseteq spoken'
               /\ \A q \in Processes : d \in hub'[q] <=> stream'[d].home = q
    <3>1. stream[d].before \subseteq spoken /\ \A q \in Processes : d \in hub[q] <=> stream[d].home = q
      BY DEF EventInv, HubInv
    <3>2. CASE d = c
      <4>1. \A q \in Processes : d \notin hub'[q]
        BY <1>1, <1>2, <1>3, <3>1, <3>2
      <4>2. QED
        BY <1>1, <1>2, <1>3, <3>2, <4>1 DEF Events!EventAssumption
    <3>3. CASE d # c
      BY <1>1, <1>2, <1>3, <3>1, <3>3
    <3>4. QED
      BY <3>2, <3>3
  <2>2. QED
    BY <2>1 DEF HubInv
<1>7. ASSUME NEW d \in Clients
      PROVE  HeardBefore(d)'
  BY <1>1, <1>2, <1>3 DEF EventInv, HeardBefore, Said, Ordered, OrderedBy
<1>8. QED
  BY <1>4, <1>5, <1>6, <1>7 DEF EventInv

\* A page has every stored event behind the cursor, so what it passes is not stored yet,
\* and was not written by the session of the last event it returns.
LEMMA PollStep ==
    ASSUME Events!EventAssumption, EventInv, NEW c \in Clients, Events!Poll(c)
    PROVE  EventInv'
<1> DEFINE page == {i \in Events!Ids : row[i] = "stored" /\ i > polled[c].after}
           m == Events!Greatest(page, polled[c].after)
           new == [after |-> m, seen |-> polled[c].seen \cup page]
<1>1. /\ page # {}
      /\ polled' = [polled EXCEPT ![c] = new]
      /\ UNCHANGED <<last, author, row, pending, spoken, hub, stream>>
  BY DEF Events!Poll
<1>2. /\ last \in 0 .. MaxEvents /\ MaxEvents \in Nat
      /\ polled \in [Clients -> Events!Polled]
  BY DEF Events!EventAssumption, EventInv, Events!TypeOK
<1>3. /\ page \in SUBSET Events!Ids
      /\ \A i \in Events!Ids : i \in page <=> row[i] = "stored" /\ i > polled[c].after
  OBVIOUS
<1>p. polled'[c] = new /\ \A d \in Clients : d # c => polled'[d] = polled[d]
  BY <1>1, <1>2
<1> HIDE DEF page
<1>4. m \in page /\ \A i \in page : i <= m
  BY <1>1, <1>3, GreatestFacts
<1> HIDE DEF m
<1>5. m \in Events!Ids /\ m <= last /\ row[m] = "stored"
  <2>1. m \in Events!Ids /\ row[m] = "stored"
    BY <1>3, <1>4
  <2>2. m > last => row[m] = "none"
    BY <2>1 DEF EventInv, IdsInv
  <2>3. m \in Int /\ last \in Int
    BY <1>2, <2>1 DEF Events!Ids
  <2>4. QED
    BY <2>1, <2>2, <2>3
<1>6. new \in Events!Polled
  <2>1. polled[c].seen \in SUBSET Events!Ids
    BY <1>2 DEF Events!Polled
  <2>2. m \in 0 .. MaxEvents
    BY <1>2, <1>5 DEF Events!Ids
  <2>3. polled[c].seen \cup page \in SUBSET Events!Ids
    BY <1>3, <2>1
  <2>4. QED
    BY <2>2, <2>3 DEF Events!Polled
<1>7. Events!TypeOK' /\ IdsInv' /\ WholeInv'
  <2>1. polled' \in [Clients -> Events!Polled]
    BY <1>1, <1>2, <1>6
  <2>2. QED
    BY <1>1, <2>1 DEF EventInv, Events!TypeOK, IdsInv, WholeInv
<1>8. ASSUME NEW d \in Clients
      PROVE  /\ polled'[d].after <= last'
             /\ \A j \in polled'[d].seen : j <= last'
             /\ \A i \in Events!Ids : Passed(d, i)' =>
                  \E j \in polled'[d].seen : j > i /\ author'[j] # author'[i]
  <2>1. /\ polled[d].after <= last
        /\ \A j \in polled[d].seen : j <= last
        /\ \A i \in Events!Ids : Passed(d, i) =>
             \E j \in polled[d].seen : j > i /\ author[j] # author[i]
    BY DEF EventInv, PollInv
  <2>2. CASE d # c
    BY <1>1, <1>p, <2>1, <2>2 DEF Passed
  <2>3. CASE d = c
    <3>1. /\ polled'[d].after = m /\ polled'[d].seen = polled[d].seen \cup page
      BY <1>p, <2>3
    <3>2. \A j \in page : j <= last
      BY <1>2, <1>3, <1>4, <1>5 DEF Events!Ids
    <3>3. ASSUME NEW i \in Events!Ids, Passed(d, i)'
          PROVE  \E j \in polled'[d].seen : j > i /\ author'[j] # author'[i]
      <4>1. /\ i <= m /\ i \notin polled[d].seen /\ i \notin page
            /\ row[i] \in {"flushed", "stored"}
        BY <1>1, <3>1, <3>3 DEF Passed
      <4>2. CASE i <= polled[d].after
        <5>1. Passed(d, i)
          BY <4>1, <4>2 DEF Passed
        <5>2. QED
          BY <1>1, <2>1, <3>1, <5>1
      <4>3. CASE ~(i <= polled[d].after)
        <5>1. polled[d].after \in Int /\ i \in Int /\ m \in Int
          BY <1>2, <1>5 DEF Events!Polled, Events!Ids
        <5>2. i > polled[c].after
          BY <2>3, <4>3, <5>1
        <5>3. row[i] = "flushed"
          BY <1>3, <4>1, <5>2
        <5>4. m > i
          BY <1>5, <4>1, <5>1, <5>3
        <5>5. author[m] # author[i]
          BY <1>5, <5>3, <5>4 DEF EventInv, WholeInv
        <5>6. QED
          BY <1>1, <1>4, <3>1, <5>4, <5>5
      <4>4. QED
        BY <4>2, <4>3
    <3>4. QED
      BY <1>1, <1>5, <2>1, <3>1, <3>2, <3>3
  <2>4. QED
    BY <2>2, <2>3
<1>9. PollInv'
  BY <1>8 DEF PollInv
<1>10. QED
  BY <1>1, <1>7, <1>9, QuietStreams DEF EventInv

LEMMA EventStep == Events!EventAssumption /\ EventInv /\ [Events!Next]_(Events!eventVars) => EventInv'
<1> SUFFICES ASSUME Events!EventAssumption, EventInv, [Events!Next]_(Events!eventVars)
             PROVE  EventInv'
  OBVIOUS
<1>1. CASE UNCHANGED Events!eventVars
  <2>1. Events!TypeOK' /\ IdsInv' /\ WholeInv'
    BY <1>1 DEF EventInv, Events!TypeOK, IdsInv, WholeInv, Events!eventVars
  <2>2. PollInv'
    BY <1>1, <2>1, SettledPoll DEF Events!TypeOK, Events!eventVars
  <2>3. QED
    BY <1>1, <2>1, <2>2, QuietStreams DEF EventInv, Events!eventVars
<1>2. ASSUME NEW s \in Sessions, Events!AddEvent(s) \/ Events!EmitEvent(s) \/ Events!Commit(s) \/ Events!Rollback(s)
      PROVE  EventInv'
  <2>1. CASE Events!AddEvent(s) \/ Events!EmitEvent(s)
    BY <2>1, InsertStep DEF Events!AddEvent, Events!EmitEvent
  <2>2. QED
    BY <1>2, <2>1, CommitStep, RollbackStep
<1>7. ASSUME NEW i \in Events!Ids, Events!Broadcast(i)
      PROVE  EventInv'
  BY <1>7, BroadcastStep
<1>3. ASSUME NEW p \in Processes, Events!Crash(p)
      PROVE  EventInv'
  BY <1>3, CrashStep
<1>4. ASSUME NEW c \in Clients, Events!Unsubscribe(c) \/ Events!Poll(c)
      PROVE  EventInv'
  BY <1>4, UnsubscribeStep, PollStep
<1>5. ASSUME NEW c \in Clients, NEW p \in Processes, Events!Subscribe(c, p)
      PROVE  EventInv'
  BY <1>5, SubscribeStep
<1>6. QED
  BY <1>1, <1>2, <1>3, <1>4, <1>5, <1>7 DEF Events!Next

-----------------------------------------------------------------------------
(* What follows from it *)

\* Rows, streams, hubs and cursors keep their types for any instance.
THEOREM EventsTyped == Events!Spec => []Events!TypeOK
<1>1. Events!EventAssumption
  BY ServiceAssumption
<1>2. Events!Init => EventInv
  BY <1>1, EventStart
<1>3. EventInv /\ [Events!Next]_(Events!eventVars) => EventInv'
  BY <1>1, EventStep
<1>4. EventInv => Events!TypeOK
  BY DEF EventInv
<1>5. QED
  BY <1>2, <1>3, <1>4, PTL DEF Events!Spec

\* A poller misses an event only when another session committed a later one first; an open
\* stream has all that was broadcast in its process, once and in order (endpoints.py:326).
THEOREM ReadersReached == Events!Spec => []EventsReachReaders
<1>1. Events!EventAssumption
  BY ServiceAssumption
<1>2. Events!Init => EventInv
  BY <1>1, EventStart
<1>3. EventInv /\ [Events!Next]_(Events!eventVars) => EventInv'
  BY <1>1, EventStep
<1>4. EventInv => EventsReachReaders
  <2>1. SUFFICES ASSUME EventInv
                 PROVE  EventsReachReaders
    OBVIOUS
  <2>2. Events!PollersMissOnlyAcrossSessions
    BY <2>1 DEF EventInv, PollInv, Passed, Events!PollersMissOnlyAcrossSessions
  <2>3. Events!StreamsHearTheirProcess
    BY <2>1 DEF EventInv, HeardBefore, Said, Elements, Ordered, OrderedBy, Events!StreamsHearTheirProcess
  <2>4. QED
    BY <2>2, <2>3 DEF EventsReachReaders, Events!EventsReachReaders
<1>5. QED
  BY <1>2, <1>3, <1>4, PTL DEF Events!Spec

-----------------------------------------------------------------------------
(* Answers *)

ReplyTexts == {"none", "findings", "claims", "404", "409", "CANCELLED", "COMPLETED", "SUCCESS", "503",
            "INSUFFICIENT_EVIDENCE", "PARTIAL_EVIDENCE", "EVIDENCE_AVAILABLE", "not_needed",
            "unavailable", "ok"}

Reading ==
    [kind : Store!Kinds,
     pc : {"runs", "claims", "findings", "answer", "rows", "news", "assess", "done"},
     runs : SUBSET Runs, claims : SUBSET Claims, findings : SUBSET Findings,
     news : {"unasked", "hits", "nothing", "outage"},
     answer : [text : ReplyTexts, says : SUBSET Claims, backs : SUBSET Claims],
     mood : BOOLEAN, seen : SUBSET Claims]

Tabled ==
    /\ run \in [Runs -> Store!Statuses]
    /\ rows \in [claims : SUBSET Claims, findings : SUBSET Findings]
    /\ disputed \subseteq Claims
    /\ req \in [Requests -> Reading]
    /\ moved \in [Requests -> SUBSET Runs]

\* What was read belongs to the runs that were chosen, which are complete or have moved.
FromChosenRuns(q) ==
    /\ req[q].pc = "runs" => req[q].claims = {} /\ req[q].findings = {}
    /\ \A r \in req[q].runs :
         /\ r \in moved[q] \/ run[r] \in Store!Outcomes
         /\ req[q].kind \in Store!Peers => r \in moved[q] \/ run[r] = "ANSWERED"
         /\ req[q].kind = "task" => Store!Mine(q, r)
    /\ \A c \in req[q].claims : RunOf[c] \in req[q].runs
    /\ \A f \in req[q].findings : \A c \in Names[f] : RunOf[c] \in req[q].runs

\* What was disputed at the first statement is read with a finding only.
ComesWithFinding(q) ==
    /\ req[q].seen \subseteq disputed
    /\ req[q].pc \in {"runs", "claims"} => req[q].claims = {}
    /\ req[q].pc \in {"runs", "claims", "findings"} => req[q].findings = {}
    /\ req[q].claims \cap req[q].seen \subseteq Store!Conclusions(req[q].findings)
    /\ req[q].pc # "done" => req[q].answer.says = {} /\ req[q].answer.backs = {}
    /\ (req[q].answer.says \cup req[q].answer.backs) \cap req[q].seen
         \subseteq Store!Conclusions(req[q].findings)

\* The text of a market report tells whether something stored was read.
MovedByEvidence(q) ==
    /\ req[q].pc \in {"runs", "rows", "news", "assess"} =>
         /\ ~req[q].mood
         /\ req[q].answer.text # "none" => req[q].findings \cup req[q].claims # {}
    /\ req[q].pc \in {"runs", "rows"} => req[q].answer.text = "none"
    /\ req[q].pc = "assess" /\ req[q].news = "outage" => req[q].answer.text # "none"
    /\ req[q].mood => req[q].findings \cup req[q].claims # {} \/ req[q].news = "hits"
    /\ req[q].pc = "done" /\ req[q].news = "outage" /\ req[q].findings \cup req[q].claims = {} =>
         req[q].answer.text = "503"

Answerable(q) ==
    /\ req[q].kind \in Store!Peers \cup {"task"} => FromChosenRuns(q)
    /\ req[q].kind = "task" => ComesWithFinding(q)
    /\ req[q].kind = "market" => MovedByEvidence(q)

AnswersInv == Tabled /\ \A q \in Requests : Answerable(q)

LEMMA AnswersStart == Store!Init => AnswersInv
<1> SUFFICES ASSUME Store!Init
             PROVE  AnswersInv
  OBVIOUS
<1>1. PICK kind \in [Requests -> Store!Kinds] : req = [q \in Requests |-> Store!Fresh(kind[q])]
  BY DEF Store!Init
<1>2. \A k \in Store!Kinds :
        /\ Store!Fresh(k) \in Reading /\ Store!Fresh(k).pc = "runs" /\ Store!Fresh(k).runs = {} /\ ~Store!Fresh(k).mood
        /\ Store!Fresh(k).claims = {} /\ Store!Fresh(k).findings = {} /\ Store!Fresh(k).seen = {}
        /\ Store!Fresh(k).answer.text = "none" /\ Store!Fresh(k).answer.says = {}
        /\ Store!Fresh(k).answer.backs = {}
  <2>1. Store!Nothing \in [text : ReplyTexts, says : SUBSET Claims, backs : SUBSET Claims]
    BY DEF Store!Nothing, ReplyTexts
  <2>2. QED
    BY <2>1 DEF Store!Fresh, Reading, Store!Nothing
<1>3. Tabled
  BY <1>1, <1>2 DEF Store!Init, Tabled, Store!Statuses, Store!Outcomes
<1>4. \A q \in Requests : Answerable(q)
  BY <1>1, <1>2 DEF Answerable, FromChosenRuns, ComesWithFinding, MovedByEvidence
<1>5. QED
  BY <1>3, <1>4 DEF AnswersInv

\* A run that is complete stays what it is or moves for whoever chose it; a dispute stays.
Forward ==
    /\ \A r \in Runs : run[r] \in Store!Outcomes =>
         run'[r] = run[r] \/ \A q \in Requests : r \in req[q].runs => r \in moved'[q]
    /\ \A q \in Requests : moved[q] \subseteq moved'[q]
    /\ disputed \subseteq disputed'

LEMMA OthersStay ==
    ASSUME AnswersInv, Forward, NEW q \in Requests, req'[q] = req[q]
    PROVE  Answerable(q)'
<1>1. Answerable(q) /\ req[q].runs \subseteq Runs
  BY DEF AnswersInv, Tabled, Reading
<1>2. FromChosenRuns(q) => FromChosenRuns(q)'
  BY <1>1 DEF FromChosenRuns, Forward, Store!Mine
<1>3. ComesWithFinding(q) => ComesWithFinding(q)'
  BY DEF ComesWithFinding, Forward, Store!Conclusions
<1>4. MovedByEvidence(q) => MovedByEvidence(q)'
  BY DEF MovedByEvidence
<1>5. QED
  BY <1>1, <1>2, <1>3, <1>4 DEF Answerable

\* A step of one request.
LEMMA ReplyStep ==
    ASSUME AnswersInv, Forward, Tabled', NEW q \in Requests, Answerable(q)',
           \A p \in Requests : p # q => req'[p] = req[p]
    PROVE  AnswersInv'
<1>1. ASSUME NEW p \in Requests, p # q
      PROVE  Answerable(p)'
  BY <1>1, OthersStay
<1>2. QED
  BY <1>1 DEF AnswersInv

LEMMA YoungestAreSome == ASSUME NEW S, NEW n PROVE Store!Youngest(S, n) \subseteq S
  BY DEF Store!Youngest

LEMMA NamedAreOfRun ==
    ASSUME Store!AnswersAssumption, Tabled, NEW R
    PROVE  \A f \in Store!FindingsOf(R) : f \in Findings /\ \A c \in Names[f] : RunOf[c] \in R
<1> SUFFICES ASSUME NEW f \in Store!FindingsOf(R), NEW c \in Names[f]
             PROVE  RunOf[c] \in R
  BY DEF Store!FindingsOf, Tabled
<1>1. f \in Findings /\ Store!RunOfFinding(f) \in R
  BY DEF Store!FindingsOf, Tabled
<1>2. (CHOOSE d \in Names[f] : TRUE) \in Names[f]
  OBVIOUS
<1>3. RunOf[c] = Store!RunOfFinding(f)
  BY <1>1, <1>2 DEF Store!AnswersAssumption, Store!RunOfFinding
<1>4. QED
  BY <1>1, <1>3

\* The executions, which no request takes part in.
LEMMA ExecutionsStep ==
    ASSUME AnswersInv, UNCHANGED req,
           \/ \E c \in Claims : Store!Extract(c) \/ Store!Dispute(c)
           \/ \E f \in Findings : Store!Synthesize(f)
           \/ \E r \in Runs : Store!Pause(r) \/ Store!Finish(r) \/ Store!Cancel(r) \/ Store!Reopen(r)
                             \/ Store!Relabel(r)
    PROVE  AnswersInv'
<1>1. Tabled
  BY DEF AnswersInv
<1>2. Forward /\ Tabled'
  <2>1. ASSUME NEW c \in Claims, Store!Extract(c)
        PROVE  Forward /\ Tabled'
    BY <1>1, <2>1 DEF Store!Extract, Forward, Tabled
  <2>2. ASSUME NEW c \in Claims, Store!Dispute(c)
        PROVE  Forward /\ Tabled'
    BY <1>1, <2>2 DEF Store!Dispute, Forward, Tabled
  <2>3. ASSUME NEW f \in Findings, Store!Synthesize(f)
        PROVE  Forward /\ Tabled'
    BY <1>1, <2>3 DEF Store!Synthesize, Forward, Tabled
  <2>4. ASSUME NEW r \in Runs, Store!Pause(r)
        PROVE  Forward /\ Tabled'
    BY <1>1, <2>4 DEF Store!Pause, Forward, Tabled, Store!Statuses, Store!Completed, Store!Outcomes
  <2>5. ASSUME NEW r \in Runs, Store!Finish(r)
        PROVE  Forward /\ Tabled'
    <3> DEFINE x == IF Store!ClaimsOf({r}) = {} THEN "INSUFFICIENT_EVIDENCE" ELSE "ANSWERED"
    <3>1. x \in Store!Statuses
      BY DEF Store!Statuses, Store!Outcomes
    <3>2. run[r] \notin Store!Outcomes /\ run' = [run EXCEPT ![r] = x] /\ UNCHANGED <<rows, disputed, moved>>
      BY <2>5 DEF Store!Finish, Store!Completed, Store!Outcomes
    <3> HIDE DEF x
    <3>3. QED
      BY <1>1, <3>1, <3>2 DEF Forward, Tabled
  <2>6. ASSUME NEW r \in Runs, Store!Cancel(r)
        PROVE  Forward /\ Tabled'
    BY <1>1, <2>6 DEF Store!Cancel, Forward, Tabled, Store!Statuses, Store!Completed, Store!Outcomes
  <2>7. ASSUME NEW r \in Runs, Store!Reopen(r) \/ Store!Relabel(r)
        PROVE  Forward /\ Tabled'
    <3>1. PICK s \in {"ACTIVE", "CANCELLED"} : run' = [run EXCEPT ![r] = s]
      BY <2>7 DEF Store!Reopen, Store!Relabel
    <3>2. /\ moved' = [q \in Requests |-> moved[q] \cup ({r} \cap req[q].runs)]
          /\ UNCHANGED <<rows, disputed, req>>
      BY <2>7 DEF Store!Reopen, Store!Relabel, Store!Move
    <3>3. Tabled'
      BY <1>1, <3>1, <3>2 DEF Tabled, Store!Statuses
    <3>4. Forward
      BY <1>1, <3>1, <3>2 DEF Tabled, Forward
    <3>5. QED
      BY <3>3, <3>4
  <2>8. QED
    BY <2>1, <2>2, <2>3, <2>4, <2>5, <2>6, <2>7
<1>3. \A q \in Requests : Answerable(q)'
  BY <1>2, OthersStay
<1>4. QED
  BY <1>2, <1>3 DEF AnswersInv

\* A request that ends without reading anything of a run.
LEMMA EndingStep ==
    ASSUME AnswersInv, Forward, Tabled', NEW q \in Requests,
           \A p \in Requests : p # q => req'[p] = req[p],
           req'[q].kind = req[q].kind, req'[q].pc = "done",
           req'[q].runs = req[q].runs, req'[q].claims = req[q].claims,
           req'[q].findings = req[q].findings, req'[q].seen = req[q].seen,
           req'[q].answer.says = req[q].answer.says, req'[q].answer.backs = req[q].answer.backs,
           req[q].kind # "market"
    PROVE  AnswersInv'
<1>1. Answerable(q) /\ req[q].runs \subseteq Runs
  BY DEF AnswersInv, Tabled, Reading
<1>2. FromChosenRuns(q) => FromChosenRuns(q)'
  BY <1>1 DEF FromChosenRuns, Forward, Store!Mine
<1>3. ComesWithFinding(q) => ComesWithFinding(q)'
  BY DEF ComesWithFinding, Forward, Store!Conclusions
<1>4. Answerable(q)'
  BY <1>1, <1>2, <1>3 DEF Answerable
<1>5. QED
  BY <1>4, ReplyStep

LEMMA CancelTaskStep ==
    ASSUME AnswersInv, NEW q \in Requests, NEW r \in Runs, Store!CancelTask(q, r)
    PROVE  AnswersInv'
<1>1. Tabled /\ req[q] \in Reading /\ req[q].kind = "task"
  BY DEF AnswersInv, Tabled, Store!CancelTask
<1>2. PICK text \in {"404", "409", "CANCELLED"} :
        req' = [req EXCEPT ![q].pc = "done", ![q].answer.text = text]
  BY DEF Store!CancelTask
<1> DEFINE x == [req[q] EXCEPT !.pc = "done", !.answer.text = text]
<1>3. x \in Reading
  BY <1>1 DEF Reading, ReplyTexts
<1>4. /\ x.pc = "done" /\ x.kind = req[q].kind /\ x.runs = req[q].runs
      /\ x.claims = req[q].claims /\ x.findings = req[q].findings /\ x.seen = req[q].seen
      /\ x.answer.says = req[q].answer.says /\ x.answer.backs = req[q].answer.backs
  BY <1>1 DEF Reading
<1>5. req' = [req EXCEPT ![q] = x]
  BY <1>1, <1>2 DEF Tabled
<1> HIDE DEF x
<1>6. /\ req' \in [Requests -> Reading] /\ req'[q] = x
      /\ \A p \in Requests : p # q => req'[p] = req[p]
  BY <1>1, <1>3, <1>5 DEF Tabled
<1>7. Forward /\ Tabled'
  <2>1. CASE UNCHANGED run
    BY <1>1, <1>6, <2>1 DEF Store!CancelTask, Forward, Tabled
  <2>2. CASE /\ run[r] \notin Store!Outcomes
             /\ run' = [run EXCEPT ![r] = "CANCELLED"]
    BY <1>1, <1>6, <2>2 DEF Store!CancelTask, Forward, Tabled, Store!Statuses, Store!Outcomes
  <2>3. QED
    BY <2>1, <2>2 DEF Store!CancelTask, Store!Completed
<1>8. QED
  BY <1>1, <1>4, <1>6, <1>7, EndingStep

LEMMA CancelDelegationStep ==
    ASSUME AnswersInv, NEW q \in Requests, Store!CancelDelegation(q)
    PROVE  AnswersInv'
<1>1. Tabled /\ req[q] \in Reading /\ req[q].kind = "mesh"
  BY DEF AnswersInv, Tabled, Store!CancelDelegation
<1>2. PICK text \in {"COMPLETED", "CANCELLED"} :
        req' = [req EXCEPT ![q].pc = "done", ![q].answer.text = text]
  BY DEF Store!CancelDelegation
<1> DEFINE x == [req[q] EXCEPT !.pc = "done", !.answer.text = text]
<1>3. x \in Reading
  BY <1>1 DEF Reading, ReplyTexts
<1>4. /\ x.pc = "done" /\ x.kind = req[q].kind /\ x.runs = req[q].runs
      /\ x.claims = req[q].claims /\ x.findings = req[q].findings /\ x.seen = req[q].seen
      /\ x.answer.says = req[q].answer.says /\ x.answer.backs = req[q].answer.backs
  BY <1>1 DEF Reading
<1>5. req' = [req EXCEPT ![q] = x]
  BY <1>1, <1>2 DEF Tabled
<1> HIDE DEF x
<1>6. /\ req' \in [Requests -> Reading] /\ req'[q] = x
      /\ \A p \in Requests : p # q => req'[p] = req[p]
  BY <1>1, <1>3, <1>5 DEF Tabled
<1>7. Forward /\ Tabled'
  <2>1. CASE UNCHANGED run
    BY <1>1, <1>6, <2>1 DEF Store!CancelDelegation, Forward, Tabled
  <2>2. ASSUME NEW r \in Runs, run[r] \notin Store!Outcomes,
               run' = [run EXCEPT ![r] = "CANCELLED"]
        PROVE  Forward /\ Tabled'
    BY <1>1, <1>6, <2>2 DEF Store!CancelDelegation, Forward, Tabled, Store!Statuses, Store!Outcomes
  <2>3. QED
    BY <2>1, <2>2 DEF Store!CancelDelegation, Store!Completed
<1>8. QED
  BY <1>1, <1>4, <1>6, <1>7, EndingStep

\* A request takes a step that touches nothing but itself.
LEMMA OwnReplyStep ==
    ASSUME AnswersInv, NEW q \in Requests, NEW x, x \in Reading,
           req' = [req EXCEPT ![q] = x], UNCHANGED <<run, rows, disputed, moved>>,
           Answerable(q)'
    PROVE  AnswersInv'
<1>1. Tabled
  BY DEF AnswersInv
<1>2. Forward /\ Tabled'
  BY <1>1 DEF Forward, Tabled
<1>3. \A p \in Requests : p # q => req'[p] = req[p]
  BY <1>1 DEF Tabled
<1>4. QED
  BY <1>2, <1>3, ReplyStep

LEMMA TaskRunsStep ==
    ASSUME AnswersInv, NEW q \in Requests, Store!TaskRuns(q)
    PROVE  AnswersInv'
<1>1. /\ Tabled /\ Answerable(q) /\ req[q] \in Reading /\ req[q].kind = "task" /\ req[q].pc = "runs"
      /\ UNCHANGED <<run, rows, disputed, moved>>
  BY DEF AnswersInv, Tabled, Store!TaskRuns
<1> DEFINE mine == Store!Youngest({r \in Runs : Store!Completed(r) /\ Store!Mine(q, r)}, RunLimit)
           later == IF mine = {} THEN "answer" ELSE "claims"
           x == [req[q] EXCEPT !.runs = mine, !.seen = disputed, !.pc = later]
<1>2. req' = [req EXCEPT ![q] = x]
  BY <1>1 DEF Store!TaskRuns, Tabled
<1>3. mine \subseteq Runs /\ later \in {"answer", "claims"}
  BY YoungestAreSome
<1>4. \A r \in mine : run[r] \in Store!Outcomes /\ Store!Mine(q, r)
  BY YoungestAreSome DEF Store!Completed
<1> HIDE DEF mine, later
<1>5. /\ x \in Reading /\ x.kind = "task" /\ x.runs = mine /\ x.seen = disputed /\ x.pc = later
      /\ x.claims = req[q].claims /\ x.findings = req[q].findings /\ x.answer = req[q].answer
  BY <1>1, <1>3 DEF Reading, Tabled
<1> HIDE DEF x
<1>6. req'[q] = x
  BY <1>1, <1>2 DEF Tabled
<1>7. FromChosenRuns(q)'
  BY <1>1, <1>4, <1>5, <1>6 DEF Answerable, ComesWithFinding, FromChosenRuns, Store!Peers, Store!Mine
<1>8. ComesWithFinding(q)'
  BY <1>1, <1>3, <1>5, <1>6 DEF Answerable, ComesWithFinding, Store!Conclusions
<1>9. Answerable(q)'
  BY <1>5, <1>6, <1>7, <1>8 DEF Answerable
<1>10. QED
  BY <1>1, <1>2, <1>5, <1>9, OwnReplyStep

LEMMA TaskClaimsStep ==
    ASSUME AnswersInv, NEW q \in Requests, Store!TaskClaims(q)
    PROVE  AnswersInv'
<1>1. /\ Tabled /\ Answerable(q) /\ req[q] \in Reading /\ req[q].kind = "task"
      /\ req[q].pc = "claims" /\ UNCHANGED <<run, rows, disputed, moved>>
  BY DEF AnswersInv, Tabled, Store!TaskClaims
<1> DEFINE read == Store!Youngest(Store!ClaimsOf(req[q].runs) \ disputed, ClaimLimit)
           x == [req[q] EXCEPT !.claims = read, !.pc = "findings"]
<1>2. req' = [req EXCEPT ![q] = x]
  BY <1>1 DEF Store!TaskClaims, Tabled
<1>3. /\ read \subseteq Claims /\ read \cap disputed = {}
      /\ \A c \in read : RunOf[c] \in req[q].runs
  BY <1>1, YoungestAreSome DEF Store!ClaimsOf, Tabled
<1> HIDE DEF read
<1>4. /\ x \in Reading /\ x.kind = "task" /\ x.runs = req[q].runs /\ x.seen = req[q].seen
      /\ x.pc = "findings" /\ x.claims = read /\ x.findings = req[q].findings
      /\ x.answer = req[q].answer
  BY <1>1, <1>3 DEF Reading
<1> HIDE DEF x
<1>5. req'[q] = x
  BY <1>1, <1>2 DEF Tabled
<1>6. FromChosenRuns(q)'
  BY <1>1, <1>3, <1>4, <1>5 DEF Answerable, FromChosenRuns, Store!Peers, Store!Mine
<1>7. ComesWithFinding(q)'
  BY <1>1, <1>3, <1>4, <1>5 DEF Answerable, ComesWithFinding, Store!Conclusions
<1>8. Answerable(q)'
  BY <1>4, <1>5, <1>6, <1>7 DEF Answerable
<1>9. QED
  BY <1>1, <1>2, <1>4, <1>8, OwnReplyStep

LEMMA TaskFindingsStep ==
    ASSUME Store!AnswersAssumption, AnswersInv, NEW q \in Requests, Store!TaskFindings(q)
    PROVE  AnswersInv'
<1>1. /\ Tabled /\ Answerable(q) /\ req[q] \in Reading /\ req[q].kind = "task"
      /\ req[q].pc = "findings" /\ UNCHANGED <<run, rows, disputed, moved>>
  BY DEF AnswersInv, Tabled, Store!TaskFindings
<1> DEFINE stated == Store!Youngest(Store!FindingsOf(req[q].runs), FindingLimit)
           named == Store!Conclusions(stated)
           read == named \cap Store!ClaimsOf(req[q].runs)
           x == [req[q] EXCEPT !.findings = stated, !.claims = req[q].claims \cup read,
                               !.pc = "answer"]
<1>2. req' = [req EXCEPT ![q].findings = stated, ![q].claims = @ \cup read, ![q].pc = "answer"]
  BY DEF Store!TaskFindings
<1>3. \A f \in stated : f \in Findings /\ \A c \in Names[f] : RunOf[c] \in req[q].runs
  BY <1>1, NamedAreOfRun, YoungestAreSome
<1>4. /\ read \subseteq Claims /\ \A c \in read : RunOf[c] \in req[q].runs
      /\ read \subseteq Store!Conclusions(stated)
  <2>1. read \subseteq Store!ClaimsOf(req[q].runs)
    OBVIOUS
  <2>2. read \subseteq Store!Conclusions(stated)
    OBVIOUS
  <2> HIDE DEF read, stated
  <2>3. QED
    BY <1>1, <2>1, <2>2 DEF Store!ClaimsOf, Tabled
<1> HIDE DEF stated, named, read
<1>5. /\ x \in Reading /\ x.kind = "task" /\ x.runs = req[q].runs /\ x.seen = req[q].seen
      /\ x.pc = "answer" /\ x.claims = req[q].claims \cup read /\ x.findings = stated
      /\ x.answer = req[q].answer
  BY <1>1, <1>3, <1>4 DEF Reading
<1>11. req' = [req EXCEPT ![q] = x]
  BY <1>1, <1>2 DEF Tabled
<1> HIDE DEF x
<1>6. req'[q] = x
  BY <1>1, <1>11 DEF Tabled
<1>7. FromChosenRuns(q)'
  BY <1>1, <1>3, <1>4, <1>5, <1>6 DEF Answerable, FromChosenRuns, Store!Peers, Store!Mine
<1>8. ComesWithFinding(q)'
  BY <1>1, <1>4, <1>5, <1>6 DEF Answerable, ComesWithFinding, Store!Conclusions
<1>9. Answerable(q)'
  BY <1>5, <1>6, <1>7, <1>8 DEF Answerable
<1>10. QED
  BY <1>1, <1>5, <1>9, <1>11, OwnReplyStep

LEMMA TaskAnswerStep ==
    ASSUME Store!AnswersAssumption, AnswersInv, NEW q \in Requests, Store!TaskAnswer(q)
    PROVE  AnswersInv'
<1>1. /\ Tabled /\ Answerable(q) /\ req[q] \in Reading /\ req[q].kind = "task"
      /\ req[q].pc = "answer" /\ UNCHANGED <<run, rows, disputed, moved>>
  BY DEF AnswersInv, Tabled, Store!TaskAnswer
<1> DEFINE text == IF req[q].findings # {} THEN "findings"
                   ELSE IF req[q].claims # {} THEN "claims" ELSE "none"
           concluded == Store!Conclusions(req[q].findings)
           says == IF req[q].findings # {} THEN concluded
                   ELSE Store!Youngest(req[q].claims, Fallback)
           backs == Store!Youngest(req[q].claims, Chain)
           a == [text |-> text, says |-> says, backs |-> backs]
           x == [req[q] EXCEPT !.pc = "done", !.answer = a]
<1>2. req' = [req EXCEPT ![q] = x]
  BY <1>1 DEF Store!TaskAnswer, Tabled
<1>3. /\ text \in ReplyTexts /\ says \subseteq Claims /\ backs \subseteq Claims
      /\ says \subseteq req[q].claims \cup concluded /\ backs \subseteq req[q].claims
  <2>1. concluded \subseteq Claims
    BY <1>1 DEF Store!Conclusions, Store!AnswersAssumption, Reading
  <2>2. req[q].claims \subseteq Claims
    BY <1>1 DEF Reading
  <2> HIDE DEF concluded
  <2>3. QED
    BY <2>1, <2>2, YoungestAreSome DEF ReplyTexts
<1> HIDE DEF text, says, backs
<1>4. /\ a \in [text : ReplyTexts, says : SUBSET Claims, backs : SUBSET Claims]
      /\ a.says = says /\ a.backs = backs
  BY <1>3
<1> HIDE DEF a
<1>5. /\ x \in Reading /\ x.kind = "task" /\ x.runs = req[q].runs /\ x.seen = req[q].seen
      /\ x.pc = "done" /\ x.claims = req[q].claims /\ x.findings = req[q].findings
      /\ x.answer.says = says /\ x.answer.backs = backs
  BY <1>1, <1>4 DEF Reading
<1> HIDE DEF x
<1>6. req'[q] = x
  BY <1>1, <1>2 DEF Tabled
<1>7. FromChosenRuns(q)'
  BY <1>1, <1>5, <1>6 DEF Answerable, FromChosenRuns, Store!Peers, Store!Mine
<1>8. ComesWithFinding(q)'
  BY <1>1, <1>3, <1>5, <1>6 DEF Answerable, ComesWithFinding, Store!Conclusions
<1>9. Answerable(q)'
  BY <1>5, <1>6, <1>7, <1>8 DEF Answerable
<1>10. QED
  BY <1>1, <1>2, <1>5, <1>9, OwnReplyStep

LEMMA PeerRunsStep ==
    ASSUME AnswersInv, NEW q \in Requests, Store!PeerRuns(q)
    PROVE  AnswersInv'
<1>1. /\ Tabled /\ Answerable(q) /\ req[q] \in Reading /\ req[q].kind \in Store!Peers
      /\ req[q].pc = "runs" /\ UNCHANGED <<run, rows, disputed, moved>>
  BY DEF AnswersInv, Tabled, Store!PeerRuns
<1> DEFINE done == {r \in Runs : Store!Answered(r)}
           later == IF done # {} THEN "rows"
                   ELSE IF req[q].kind = "market" THEN "news" ELSE "done"
           x == [req[q] EXCEPT !.runs = done, !.pc = later]
<1>2. req' = [req EXCEPT ![q] = x]
  BY <1>1 DEF Store!PeerRuns, Tabled
<1>3. /\ done \subseteq Runs /\ later \in {"rows", "news", "done"}
      /\ req[q].kind = "market" => later \in {"rows", "news"}
  OBVIOUS
<1>4. \A r \in done : run[r] \in Store!Outcomes /\ run[r] = "ANSWERED"
  BY DEF Store!Answered, Store!Outcomes
<1> HIDE DEF done, later
<1>5. /\ x \in Reading /\ x.kind = req[q].kind /\ x.runs = done /\ x.pc = later
      /\ x.claims = req[q].claims /\ x.findings = req[q].findings /\ x.answer = req[q].answer
      /\ x.mood = req[q].mood /\ x.news = req[q].news
  BY <1>1, <1>3 DEF Reading
<1> HIDE DEF x
<1>6. req'[q] = x
  BY <1>1, <1>2 DEF Tabled
<1>7. FromChosenRuns(q)'
  BY <1>1, <1>4, <1>5, <1>6 DEF Answerable, FromChosenRuns, Store!Peers, Store!Mine
<1>8. req[q].kind = "market" => MovedByEvidence(q)'
  BY <1>1, <1>3, <1>5, <1>6 DEF Answerable, MovedByEvidence
<1>9. Answerable(q)'
  BY <1>1, <1>5, <1>6, <1>7, <1>8 DEF Answerable, Store!Peers
<1>10. QED
  BY <1>1, <1>2, <1>5, <1>9, OwnReplyStep

LEMMA PeerRowsStep ==
    ASSUME Store!AnswersAssumption, AnswersInv, NEW q \in Requests, Store!PeerRows(q)
    PROVE  AnswersInv'
<1>1. /\ Tabled /\ Answerable(q) /\ req[q] \in Reading /\ req[q].kind \in Store!Peers
      /\ req[q].pc = "rows" /\ UNCHANGED <<run, rows, disputed, moved>>
  BY DEF AnswersInv, Tabled, Store!PeerRows
<1> DEFINE stated == Store!FindingsOf(req[q].runs)
           reported == {Store!RunOfFinding(f) : f \in stated}
           said == CASE req[q].kind = "reports" -> Store!ClaimsOf(req[q].runs \ reported)
                     [] OTHER -> IF stated = {} THEN Store!ClaimsOf(req[q].runs) ELSE {}
           text == IF stated # {} THEN "findings" ELSE IF said # {} THEN "claims" ELSE "none"
           later == IF req[q].kind = "market" THEN "news" ELSE "done"
           backs == {}
           concluded == Store!Conclusions(stated)
           says == said \cup concluded
           a == [text |-> text, says |-> says, backs |-> backs]
           x == [req[q] EXCEPT !.findings = stated, !.claims = said, !.answer = a, !.pc = later]
<1>2. req' = [req EXCEPT ![q].findings = stated, ![q].claims = said, ![q].answer = a, ![q].pc = later]
  BY DEF Store!PeerRows
<1>3. \A f \in stated : f \in Findings /\ \A c \in Names[f] : RunOf[c] \in req[q].runs
  BY <1>1, NamedAreOfRun
<1>4. said \subseteq Claims /\ \A c \in said : RunOf[c] \in req[q].runs
  <2>1. \E R : said = {} \/ (said = Store!ClaimsOf(R) /\ R \subseteq req[q].runs)
    <3>1. CASE req[q].kind = "reports"
      <4>1. said = Store!ClaimsOf(req[q].runs \ reported)
        BY <3>1
      <4>2. req[q].runs \ reported \subseteq req[q].runs
        OBVIOUS
      <4>3. QED
        BY <4>1, <4>2
    <3>2. CASE req[q].kind # "reports"
      <4>1. said = IF stated = {} THEN Store!ClaimsOf(req[q].runs) ELSE {}
        BY <3>2
      <4>2. QED
        BY <4>1
    <3>3. QED
      BY <3>1, <3>2
  <2> HIDE DEF said
  <2>2. QED
    BY <1>1, <2>1 DEF Store!ClaimsOf, Tabled
<1>5. /\ text \in ReplyTexts /\ backs \subseteq Claims /\ later \in {"news", "done"}
      /\ req[q].kind = "market" => later = "news"
  BY DEF ReplyTexts
<1>15. says \subseteq Claims
  <2> HIDE DEF stated, said
  <2>1. QED
    BY <1>3, <1>4 DEF Store!Conclusions, Store!AnswersAssumption
<1>6. text # "none" => stated \cup said # {}
  OBVIOUS
<1> HIDE DEF stated, reported, said, text, later, backs, concluded, says
<1>7. a \in [text : ReplyTexts, says : SUBSET Claims, backs : SUBSET Claims] /\ a.text = text
  BY <1>5, <1>15
<1> HIDE DEF a
<1>8. /\ x \in Reading /\ x.kind = req[q].kind /\ x.runs = req[q].runs /\ x.pc = later
      /\ x.claims = said /\ x.findings = stated /\ x.answer = a
      /\ x.mood = req[q].mood /\ x.news = req[q].news
  BY <1>1, <1>3, <1>4, <1>5, <1>7 DEF Reading
<1>9. req' = [req EXCEPT ![q] = x]
  BY <1>1, <1>2 DEF Tabled
<1> HIDE DEF x
<1>10. req'[q] = x
  BY <1>1, <1>9 DEF Tabled
<1>11. FromChosenRuns(q)'
  BY <1>1, <1>3, <1>4, <1>5, <1>8, <1>10 DEF Answerable, FromChosenRuns, Store!Peers, Store!Mine
<1>12. req[q].kind = "market" => MovedByEvidence(q)'
  BY <1>1, <1>5, <1>6, <1>7, <1>8, <1>10 DEF Answerable, MovedByEvidence
<1>13. Answerable(q)'
  BY <1>1, <1>8, <1>10, <1>11, <1>12 DEF Answerable, Store!Peers
<1>14. QED
  BY <1>1, <1>8, <1>9, <1>13, OwnReplyStep

LEMMA ContextStep ==
    ASSUME Store!AnswersAssumption, AnswersInv, NEW q \in Requests, Store!Context(q)
    PROVE  AnswersInv'
<1>1. /\ Tabled /\ Answerable(q) /\ req[q] \in Reading /\ req[q].kind = "context"
      /\ req[q].pc = "rows" /\ UNCHANGED <<run, rows, disputed, moved>>
  BY DEF AnswersInv, Tabled, Store!Context
<1>2. PICK near \in SUBSET Store!ClaimsOf(req[q].runs), stated \in SUBSET Store!FindingsOf(req[q].runs) :
        req' = [req EXCEPT
            ![q].findings = stated,
            ![q].claims = near,
            ![q].answer = [text |-> IF stated # {} THEN "findings"
                                    ELSE IF near # {} THEN "claims" ELSE "none",
                           says |-> near \cup Store!Conclusions(stated),
                           backs |-> {c \in near \ disputed : Created[c] \in req[q].runs}],
            ![q].pc = "done"]
  BY DEF Store!Context
<1> DEFINE text == IF stated # {} THEN "findings" ELSE IF near # {} THEN "claims" ELSE "none"
           backs == {c \in near \ disputed : Created[c] \in req[q].runs}
           says == near \cup Store!Conclusions(stated)
           a == [text |-> text, says |-> says, backs |-> backs]
           x == [req[q] EXCEPT !.findings = stated, !.claims = near, !.answer = a, !.pc = "done"]
<1>3. req' = [req EXCEPT ![q].findings = stated, ![q].claims = near, ![q].answer = a,
                         ![q].pc = "done"]
  BY <1>2
<1>4. \A f \in stated : f \in Findings /\ \A c \in Names[f] : RunOf[c] \in req[q].runs
  BY <1>1, NamedAreOfRun
<1>5. /\ near \subseteq Claims /\ \A c \in near : RunOf[c] \in req[q].runs
      /\ backs \subseteq near /\ text \in ReplyTexts
  BY <1>1 DEF Store!ClaimsOf, Tabled, ReplyTexts
<1>13. says \subseteq Claims
  BY <1>4, <1>5 DEF Store!Conclusions, Store!AnswersAssumption
<1> HIDE DEF text, backs, says
<1>6. a \in [text : ReplyTexts, says : SUBSET Claims, backs : SUBSET Claims]
  BY <1>5, <1>13
<1> HIDE DEF a
<1>7. /\ x \in Reading /\ x.kind = "context" /\ x.runs = req[q].runs /\ x.pc = "done"
      /\ x.claims = near /\ x.findings = stated
  BY <1>1, <1>4, <1>5, <1>6 DEF Reading
<1>8. req' = [req EXCEPT ![q] = x]
  BY <1>1, <1>3 DEF Tabled
<1> HIDE DEF x
<1>9. req'[q] = x
  BY <1>1, <1>8 DEF Tabled
<1>10. FromChosenRuns(q)'
  BY <1>1, <1>4, <1>5, <1>7, <1>9 DEF Answerable, FromChosenRuns, Store!Peers, Store!Mine
<1>11. Answerable(q)'
  BY <1>7, <1>9, <1>10 DEF Answerable
<1>12. QED
  BY <1>1, <1>7, <1>8, <1>11, OwnReplyStep

LEMMA HeardStep ==
    ASSUME AnswersInv, NEW q \in Requests, Store!News(q)
    PROVE  AnswersInv'
<1>1. /\ Tabled /\ Answerable(q) /\ req[q] \in Reading /\ req[q].kind = "market"
      /\ req[q].pc = "news" /\ UNCHANGED <<run, rows, disputed, moved>>
  BY DEF AnswersInv, Tabled, Store!News
<1>2. PICK heard \in {"hits", "nothing", "outage"} :
        IF heard = "outage" /\ req[q].answer.text = "none"
        THEN req' = [req EXCEPT ![q].news = heard, ![q].pc = "done", ![q].answer.text = "503"]
        ELSE req' = [req EXCEPT ![q].news = heard, ![q].pc = "assess"]
  BY DEF Store!News
<1> DEFINE silent == heard = "outage" /\ req[q].answer.text = "none"
<1>3. \E x \in Reading :
        /\ req' = [req EXCEPT ![q] = x] /\ x.kind = "market" /\ x.runs = req[q].runs
        /\ x.claims = req[q].claims /\ x.findings = req[q].findings
        /\ x.mood = req[q].mood /\ x.news = heard
        /\ silent => x.pc = "done" /\ x.answer.text = "503"
        /\ ~silent => x.pc = "assess" /\ x.answer.text = req[q].answer.text
  <2>1. CASE silent
    <3> DEFINE x == [req[q] EXCEPT !.news = heard, !.pc = "done", !.answer.text = "503"]
    <3>1. req' = [req EXCEPT ![q] = x]
      BY <1>1, <1>2, <2>1 DEF Tabled
    <3>2. /\ x \in Reading /\ x.kind = "market" /\ x.runs = req[q].runs
          /\ x.claims = req[q].claims /\ x.findings = req[q].findings
          /\ x.mood = req[q].mood /\ x.news = heard /\ x.pc = "done" /\ x.answer.text = "503"
      BY <1>1 DEF Reading, ReplyTexts
    <3> HIDE DEF x, silent
    <3>3. QED
      BY <2>1, <3>1, <3>2
  <2>2. CASE ~silent
    <3> DEFINE x == [req[q] EXCEPT !.news = heard, !.pc = "assess"]
    <3>1. req' = [req EXCEPT ![q] = x]
      BY <1>1, <1>2, <2>2 DEF Tabled
    <3>2. /\ x \in Reading /\ x.kind = "market" /\ x.runs = req[q].runs
          /\ x.claims = req[q].claims /\ x.findings = req[q].findings
          /\ x.mood = req[q].mood /\ x.news = heard /\ x.pc = "assess"
          /\ x.answer.text = req[q].answer.text
      BY <1>1 DEF Reading
    <3> HIDE DEF x, silent
    <3>3. QED
      BY <2>2, <3>1, <3>2
  <2>3. QED
    BY <2>1, <2>2
<1>4. PICK x \in Reading :
        /\ req' = [req EXCEPT ![q] = x] /\ x.kind = "market" /\ x.runs = req[q].runs
        /\ x.claims = req[q].claims /\ x.findings = req[q].findings
        /\ x.mood = req[q].mood /\ x.news = heard
        /\ silent => x.pc = "done" /\ x.answer.text = "503"
        /\ ~silent => x.pc = "assess" /\ x.answer.text = req[q].answer.text
  BY <1>3
<1>5. req'[q] = x
  BY <1>1, <1>4 DEF Tabled
<1>6. FromChosenRuns(q)'
  BY <1>1, <1>4, <1>5 DEF Answerable, FromChosenRuns, Store!Peers
<1>7. MovedByEvidence(q)'
  BY <1>1, <1>4, <1>5 DEF Answerable, MovedByEvidence
<1>8. Answerable(q)'
  BY <1>4, <1>5, <1>6, <1>7 DEF Answerable
<1>9. QED
  BY <1>1, <1>4, <1>8, OwnReplyStep

LEMMA AssessStep ==
    ASSUME AnswersInv, NEW q \in Requests, Store!Assess(q)
    PROVE  AnswersInv'
<1>1. /\ Tabled /\ Answerable(q) /\ req[q] \in Reading /\ req[q].kind = "market"
      /\ req[q].pc = "assess" /\ UNCHANGED <<run, rows, disputed, moved>>
  BY DEF AnswersInv, Tabled, Store!Assess
<1> DEFINE text == IF ~Store!HasEvidence(q) THEN "INSUFFICIENT_EVIDENCE"
                   ELSE IF req[q].news = "outage" THEN "PARTIAL_EVIDENCE"
                   ELSE "EVIDENCE_AVAILABLE"
<1>2. PICK mood \in BOOLEAN :
        /\ mood => Store!HasEvidence(q)
        /\ req' = [req EXCEPT ![q].mood = mood, ![q].pc = "done", ![q].answer.text = text]
  BY DEF Store!Assess
<1>3. text \in ReplyTexts
  BY DEF ReplyTexts
<1> HIDE DEF text
<1> DEFINE x == [req[q] EXCEPT !.mood = mood, !.pc = "done", !.answer.text = text]
<1>4. req' = [req EXCEPT ![q] = x]
  BY <1>1, <1>2, ZenonT(40) DEF Tabled
<1>5. /\ x \in Reading /\ x.kind = "market" /\ x.runs = req[q].runs
      /\ x.claims = req[q].claims /\ x.findings = req[q].findings
      /\ x.mood = mood /\ x.news = req[q].news /\ x.pc = "done"
  BY <1>1, <1>3 DEF Reading
<1> HIDE DEF x
<1>6. req'[q] = x
  BY <1>1, <1>4 DEF Tabled
<1>7. FromChosenRuns(q)'
  BY <1>1, <1>5, <1>6 DEF Answerable, FromChosenRuns, Store!Peers
<1>8. MovedByEvidence(q)'
  BY <1>1, <1>2, <1>5, <1>6 DEF Answerable, MovedByEvidence, Store!HasEvidence
<1>9. Answerable(q)'
  BY <1>5, <1>6, <1>7, <1>8 DEF Answerable
<1>10. QED
  BY <1>1, <1>4, <1>5, <1>9, OwnReplyStep

\* Requests that make no promise of the store.
LEMMA OtherStep ==
    ASSUME Store!AnswersAssumption, AnswersInv, NEW q \in Requests,
           Store!Visit(q) \/ Store!Search(q) \/ Store!Summarize(q) \/ Store!Delegate(q)
    PROVE  AnswersInv'
<1>1. /\ Tabled /\ req[q] \in Reading /\ UNCHANGED <<run, rows, disputed, moved>>
      /\ req[q].kind \notin Store!Peers \cup {"task"}
  BY DEF AnswersInv, Tabled, Store!Visit, Store!Search, Store!Summarize, Store!Delegate, Store!Peers
<1>2. \E x \in Reading : req' = [req EXCEPT ![q] = x] /\ x.kind = req[q].kind
  <2>1. CASE Store!Visit(q)
    <3>1. CASE rows.findings # {}
      <4> DEFINE concluded == Store!Conclusions(rows.findings)
                 a == [text |-> "findings", says |-> concluded, backs |-> {}]
                 x == [req[q] EXCEPT !.findings = rows.findings, !.pc = "done", !.answer = a]
      <4>4. concluded \subseteq Claims /\ rows.findings \subseteq Findings
        BY <1>1 DEF Store!Conclusions, Store!AnswersAssumption, Tabled
      <4> HIDE DEF concluded
      <4>5. a \in [text : ReplyTexts, says : SUBSET Claims, backs : SUBSET Claims]
        BY <4>4 DEF ReplyTexts
      <4>6. req' = [req EXCEPT ![q].findings = rows.findings, ![q].pc = "done", ![q].answer = a]
        BY <2>1, <3>1 DEF Store!Visit, concluded
      <4> HIDE DEF a
      <4>1. x \in Reading /\ x.kind = req[q].kind
        BY <1>1, <4>4, <4>5 DEF Reading
      <4>2. req' = [req EXCEPT ![q] = x]
        BY <1>1, <4>6 DEF Tabled
      <4> HIDE DEF x
      <4>3. QED
        BY <4>1, <4>2
    <3>2. CASE rows.findings = {}
      <4>1. PICK heard \in {"hits", "nothing", "outage"} :
              req' = [req EXCEPT ![q].news = heard, ![q].pc = "done"]
        BY <2>1, <3>2 DEF Store!Visit
      <4> DEFINE x == [req[q] EXCEPT !.news = heard, !.pc = "done"]
      <4>2. x \in Reading /\ x.kind = req[q].kind
        BY <1>1 DEF Reading
      <4>3. req' = [req EXCEPT ![q] = x]
        BY <1>1, <4>1 DEF Tabled
      <4> HIDE DEF x
      <4>4. QED
        BY <4>2, <4>3
    <3>3. QED
      BY <3>1, <3>2
  <2>2. CASE Store!Search(q)
    <3>1. PICK stored \in {"enough", "few"}, heard \in {"hits", "nothing", "outage"} :
            req' = [req EXCEPT ![q].pc = "done",
                ![q].news = IF stored = "enough" THEN "unasked" ELSE heard,
                ![q].answer.text = IF stored = "enough" THEN "not_needed"
                                   ELSE IF heard = "outage" THEN "unavailable" ELSE "ok"]
      BY <2>2 DEF Store!Search
    <3> DEFINE stated == IF stored = "enough" THEN "unasked" ELSE heard
               said == IF stored = "enough" THEN "not_needed"
                       ELSE IF heard = "outage" THEN "unavailable" ELSE "ok"
               x == [req[q] EXCEPT !.pc = "done", !.news = stated, !.answer.text = said]
    <3>2. req' = [req EXCEPT ![q].pc = "done", ![q].news = stated, ![q].answer.text = said]
      BY <3>1
    <3>3. stated \in {"unasked", "hits", "nothing", "outage"} /\ said \in ReplyTexts
      BY DEF ReplyTexts
    <3> HIDE DEF stated, said
    <3>4. x \in Reading /\ x.kind = req[q].kind
      BY <1>1, <3>3 DEF Reading
    <3>5. req' = [req EXCEPT ![q] = x]
      <4>1. req = [p \in Requests |-> req[p]] /\ DOMAIN req = Requests
        BY <1>1 DEF Tabled
      <4>2. req' = [p \in Requests |-> IF p = q THEN x ELSE req[p]]
        BY <3>2, <4>1, ZenonT(40)
      <4>3. QED
        BY <4>1, <4>2
    <3> HIDE DEF x
    <3>6. QED
      BY <3>4, <3>5
  <2>3. CASE Store!Summarize(q)
    <3>1. PICK said \in SUBSET rows.claims :
            req' = [req EXCEPT ![q].claims = said, ![q].pc = "done",
                       ![q].answer = [text |-> IF said = {} THEN "none" ELSE "claims",
                                      says |-> said, backs |-> {}]]
      BY <2>3 DEF Store!Summarize
    <3> DEFINE text == IF said = {} THEN "none" ELSE "claims"
               a == [text |-> text, says |-> said, backs |-> {}]
               x == [req[q] EXCEPT !.claims = said, !.pc = "done", !.answer = a]
    <3>2. a \in [text : ReplyTexts, says : SUBSET Claims, backs : SUBSET Claims] /\ said \subseteq Claims
      BY <1>1 DEF Tabled, ReplyTexts
    <3>3. req' = [req EXCEPT ![q].claims = said, ![q].pc = "done", ![q].answer = a]
      BY <3>1
    <3> HIDE DEF a
    <3>4. x \in Reading /\ x.kind = req[q].kind
      BY <1>1, <3>2 DEF Reading
    <3>5. req' = [req EXCEPT ![q] = x]
      BY <1>1, <3>3 DEF Tabled
    <3> HIDE DEF x
    <3>6. QED
      BY <3>4, <3>5
  <2>4. CASE Store!Delegate(q)
    <3>1. PICK heard \in {"hits", "nothing", "outage"}, made \in SUBSET Claims :
            req' = [req EXCEPT ![q].news = heard, ![q].pc = "done",
                       ![q].answer = [text |-> "SUCCESS", says |-> Store!Youngest(made, MeshFindings),
                                      backs |-> Store!Youngest(made, Chain)]]
      BY <2>4 DEF Store!Delegate
    <3> DEFINE a == [text |-> "SUCCESS", says |-> Store!Youngest(made, MeshFindings),
                     backs |-> Store!Youngest(made, Chain)]
               x == [req[q] EXCEPT !.news = heard, !.pc = "done", !.answer = a]
    <3>2. a \in [text : ReplyTexts, says : SUBSET Claims, backs : SUBSET Claims]
      BY YoungestAreSome DEF ReplyTexts
    <3>3. req' = [req EXCEPT ![q].news = heard, ![q].pc = "done", ![q].answer = a]
      BY <3>1
    <3> HIDE DEF a
    <3>4. x \in Reading /\ x.kind = req[q].kind
      BY <1>1, <3>2 DEF Reading
    <3>5. req' = [req EXCEPT ![q] = x]
      BY <1>1, <3>3 DEF Tabled
    <3> HIDE DEF x
    <3>6. QED
      BY <3>4, <3>5
  <2>5. QED
    BY <2>1, <2>2, <2>3, <2>4
<1>3. PICK x \in Reading : req' = [req EXCEPT ![q] = x] /\ x.kind = req[q].kind
  BY <1>2
<1>4. req'[q] = x
  BY <1>1, <1>3 DEF Tabled
<1>5. Answerable(q)'
  BY <1>1, <1>3, <1>4 DEF Answerable, Store!Peers
<1>6. QED
  BY <1>1, <1>3, <1>5, OwnReplyStep

LEMMA AnswersStep == Store!AnswersAssumption /\ AnswersInv /\ [Store!Next]_(Store!answerVars) => AnswersInv'
<1> SUFFICES ASSUME Store!AnswersAssumption, AnswersInv, [Store!Next]_(Store!answerVars)
             PROVE  AnswersInv'
  OBVIOUS
<1>1. CASE UNCHANGED Store!answerVars
  <2>1. Forward /\ Tabled'
    BY <1>1 DEF Store!answerVars, Forward, AnswersInv, Tabled
  <2>2. \A q \in Requests : Answerable(q)'
    BY <1>1, <2>1, OthersStay DEF Store!answerVars
  <2>3. QED
    BY <2>1, <2>2 DEF AnswersInv
<1>2. CASE \/ \E c \in Claims : Store!Extract(c) \/ Store!Dispute(c)
           \/ \E f \in Findings : Store!Synthesize(f)
           \/ \E r \in Runs : Store!Pause(r) \/ Store!Finish(r) \/ Store!Cancel(r) \/ Store!Reopen(r)
                             \/ Store!Relabel(r)
  <2>1. UNCHANGED req
    BY <1>2 DEF Store!Extract, Store!Dispute, Store!Synthesize, Store!Pause, Store!Finish,
       Store!Cancel, Store!Reopen, Store!Relabel
  <2>2. QED
    BY <1>2, <2>1, ExecutionsStep
<1>3. QED
  BY <1>1, <1>2, CancelTaskStep, TaskRunsStep, TaskClaimsStep, TaskFindingsStep, TaskAnswerStep,
     PeerRunsStep, PeerRowsStep, ContextStep, HeardStep, AssessStep, OtherStep,
     CancelDelegationStep DEF Store!Next

\* What a task or a peer is told rests on runs that are complete (and answered) or were when
\* it chose them and moved since, and that it may see, and a market is moved by evidence and
\* not by an outage, for any requests, runs, claims and findings, whatever executions,
\* disputes and reviews come between two statements (router.py:130, stratex.py:188).
THEOREM AnswersRest == Store!Spec => []AnswersHold
<1>1. Store!AnswersAssumption
  BY ServiceAssumption
<1>2. AnswersInv /\ [Store!Next]_(Store!answerVars) => AnswersInv'
  BY <1>1, AnswersStep
<1>3. AnswersInv => AnswersHold
  <2> SUFFICES ASSUME AnswersInv
               PROVE  AnswersHold
    OBVIOUS
  <2>1. ASSUME NEW q \in Requests, req[q].kind \in Store!Peers \cup {"task"},
               NEW c \in req[q].claims \cup Store!Conclusions(req[q].findings)
        PROVE  /\ RunOf[c] \in moved[q] \/ run[RunOf[c]] \in Store!Outcomes
               /\ req[q].kind \in Store!Peers => RunOf[c] \in moved[q] \/ run[RunOf[c]] = "ANSWERED"
               /\ req[q].kind = "task" => Caller[q] \in Admins \/ Owner[RunOf[c]] = Caller[q]
    <3>1. FromChosenRuns(q)
      BY <2>1 DEF AnswersInv, Answerable
    <3>2. RunOf[c] \in req[q].runs
      BY <3>1 DEF FromChosenRuns, Store!Conclusions
    <3>3. QED
      BY <3>1, <3>2 DEF FromChosenRuns, Store!Mine
  <2>2. Store!AnswersRestOnFinishedRuns
    BY <2>1 DEF Store!AnswersRestOnFinishedRuns, Store!Peers
  <2>3. ASSUME NEW q \in Requests, req[q].kind = "market"
        PROVE  MovedByEvidence(q) /\ req[q] \in Reading
    BY <2>3 DEF AnswersInv, Answerable, Tabled
  <2>4. Store!MarketMovesOnEvidence
    BY <2>3 DEF Store!MarketMovesOnEvidence, MovedByEvidence
  <2>5. QED
    BY <2>2, <2>4 DEF AnswersHold, Store!AnswersHold
<1>4. QED
  BY <1>2, <1>3, AnswersStart, PTL DEF Store!Spec

\* What was disputed before a task was asked gets into its answer only with a finding that
\* concludes from it, whatever is stored, disputed and finished while it reads
\* (router.py:190, :202).
THEOREM DisputesCome == Store!Spec => []DisputesComeWithTheirFinding
<1>1. Store!AnswersAssumption
  BY ServiceAssumption
<1>2. AnswersInv /\ [Store!Next]_(Store!answerVars) => AnswersInv'
  BY <1>1, AnswersStep
<1>3. AnswersInv => DisputesComeWithTheirFinding
  BY DEF AnswersInv, Answerable, ComesWithFinding, DisputesComeWithTheirFinding,
     Store!DisputesComeWithTheirFinding
<1>4. QED
  BY <1>2, <1>3, AnswersStart, PTL DEF Store!Spec
=============================================================================
