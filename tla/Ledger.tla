------------------------------- MODULE Ledger -------------------------------
(***************************************************************************)
(* The registry of propositions (intelx/agents/claim_ledger.py), the       *)
(* conflicts between them (intelx/core/contradiction.py) and the score a   *)
(* proposition starts with (intelx/core/confidence.py and credibility.py). *)
(* Scores are counted in ten-thousandths.                                  *)
(***************************************************************************)
EXTENDS Integers, FiniteSets

CONSTANTS
    Use,           \* "registry" or "conflicts", which do not touch each other's state
    MaxClaims,     \* bound on the claims, numbered in the order they come
    Statements,    \* records [subject, value, says, words]; value 0: nothing measured
    Opposing,      \* the pairs of things said that contradict each other
    Items, NoItem, \* plan items
    Tiers, Credibilities, Debates, \* inputs of a score; Debates may hold NoDebate
    NoDebate,
    Penalties,     \* pairs: stale, opinion or forecast
    Corroborated,  \* bound on the corroborations counted
    Similarity     \* hundredths of shared words (85)

\* What the parameters are; the instance that gives them assumes it.
LedgerAssumption ==
    /\ MaxClaims \in Nat /\ Corroborated \in Nat
    /\ Tiers \subseteq {"TRUSTED", "STANDARD", "QUARANTINE", "BLOCKED"}
    /\ Credibilities \subseteq Int /\ Debates \ {NoDebate} \subseteq Int
    /\ Penalties \subseteq BOOLEAN \X BOOLEAN

VARIABLES
    use,       \* the part in use
    records,   \* the registry: of each claim, numbered as it was inserted, its record or NoRow
    given,     \* every evidence handed in, with the statement it was for
    rows,      \* the claims given to the conflict engine
    clashes    \* for each row the largest number of conflicts it was in at once

ledgerVars == <<use, records, given, rows, clashes>>

Entries == 1..MaxClaims
NoRow == [status |-> "none"]
Least2(a, b) == IF a < b THEN a ELSE b
Most2(a, b) == IF a < b THEN b ELSE a
Clamp(x, low, high) == Most2(low, Least2(x, high))

----------------------------------------------------------------------------
\* The composite score.
TierBase(tier) ==
    CASE tier = "TRUSTED" -> 7000 [] tier = "STANDARD" -> 5000
      [] tier = "QUARANTINE" -> 2000 [] tier = "BLOCKED" -> 500

CredibilityBonus(c) == Clamp((c - 7000) \div 5, -1000, 1000)

Score(tier, corroborations, stale, opinion, credibility, debate) ==
    LET raw == TierBase(tier) + 1500 * Least2(corroborations, 3)
                - (IF stale THEN 2000 ELSE 0) - (IF opinion THEN 2500 ELSE 0)
                + CredibilityBonus(credibility)
        weighed == IF debate = NoDebate THEN raw
                   ELSE (raw * Clamp(debate, 1000, 10000)) \div 10000
    IN  Clamp(weighed, 500, 9500)

----------------------------------------------------------------------------
\* Two supported propositions are one if they measure and deny the same and share most of
\* their words; a plan item keeps its own.
Material(s) == <<s.value, s.says>>

Similar(s, t) ==
    /\ s.words # {} /\ t.words # {}
    /\ 100 * Cardinality(s.words \intersect t.words)
            >= Similarity * Cardinality(s.words \union t.words)

Mergeable(a, b) ==
    /\ a.status \in {"SUPPORTED", "ACTIVE"}
    /\ b.status = a.status
    /\ a.item = NoItem \/ b.item = NoItem \/ a.item = b.item
    /\ Material(a.statement) = Material(b.statement)
    /\ Similar(a.statement, b.statement)

Present == {c \in Entries : records[c].status # "none"}

\* The most certain of some records.
Surest(S) == CHOOSE x \in {records[d].conf : d \in S} : \A d \in S : records[d].conf <= x

\* Mutant: the records that go take their evidence with them.
MergeAway(c, S) ==
    [statement |-> records[c].statement, item |-> records[c].item, status |-> records[c].status,
     evidence |-> records[c].evidence, conf |-> Surest(S \union {c})]

\* The record of c takes up those of S.
Merge(c, S) ==
    [statement |-> records[c].statement, item |-> records[c].item, status |-> records[c].status,
     evidence |-> UNION {records[d].evidence : d \in S \union {c}},
     conf |-> Surest(S \union {c})]

\* Each record in turn takes up the later ones it can be merged with, so that L stay: those
\* none of L before them takes up.
Stay(L) ==
    L = {c \in Present : \A b \in L : b < c => ~Mergeable(records[b], records[c])}

TakenUp(L, c) ==
    {d \in Present \ L : /\ c < d /\ Mergeable(records[c], records[d])
                        /\ \A b \in L : b < c => ~Mergeable(records[b], records[d])}

----------------------------------------------------------------------------
\* Two claims on one subject clash if they measure it more than a tenth apart, or, where
\* not both measure it, if they say opposite things.
SameSubject(s, t) == s.subject = t.subject
BothMeasure(s, t) == s.value # 0 /\ t.value # 0

FarApart(s, t) ==
    LET far == IF s.value > t.value THEN s.value - t.value ELSE t.value - s.value
    IN  10 * far > Most2(s.value, t.value)

Opposed(s, t) == <<s.says, t.says>> \in Opposing \/ <<t.says, s.says>> \in Opposing

Clash(s, t) ==
    /\ SameSubject(s, t)
    /\ \/ BothMeasure(s, t) /\ FarApart(s, t)
       \/ ~BothMeasure(s, t) /\ Opposed(s, t)

Clashing(c) ==
    {d \in Entries \ {c} : rows[c] # NoRow /\ rows[d] # NoRow /\ Clash(rows[c].statement, rows[d].statement)}

\* At most 0.35, less by 0.85 for every clash after the first, at least 0.05,
\* rounded down.
Decayed(x, n) ==
    LET f[k \in 0..n] == IF k = 0 THEN x ELSE (f[k - 1] * 85) \div 100 IN f[n]

\* Mutant: the discount starts from the score as it stands.
DiscountedUncapped(base, n) ==
    IF n <= 0 THEN Clamp(base, 500, 10000) ELSE Most2(500, Decayed(base, n - 1))

Discounted(base, n) ==
    IF n <= 0 THEN Clamp(base, 500, 10000)
    ELSE Most2(500, Decayed(Least2(3500, base), n - 1))

----------------------------------------------------------------------------
Scores == 500..10000

TypeOK ==
    /\ records \in [Entries -> {NoRow} \union [statement : Statements, item : Items \union {NoItem},
            evidence : SUBSET Entries, conf : Scores, status : {"SUPPORTED", "DISPUTED"}]]
    /\ given \subseteq Entries \X Statements
    /\ rows \in [Entries -> {NoRow} \union
            [statement : Statements, conf : Scores, status : {"ACTIVE", "DISPUTED"}]]
    /\ clashes \in [Entries -> 0..Cardinality(Entries)]

Init ==
    /\ use \in Use
    /\ records = [c \in Entries |-> NoRow]
    /\ given = {}
    /\ rows = [c \in Entries |-> NoRow]
    /\ clashes = [c \in Entries |-> 0]

\* A new claim, with an evidence of its own.
Add(c, s, item, conf) ==
    /\ c = Cardinality(given) + 1
    /\ records' = [records EXCEPT ![c] = [statement |-> s, item |-> item, evidence |-> {c},
                                         conf |-> conf, status |-> "SUPPORTED"]]
    /\ given' = given \union {<<c, s>>}
    /\ UNCHANGED <<use, rows, clashes>>

DisputeClaim(c) ==
    /\ c \in Present
    /\ records' = [records EXCEPT ![c] =
            [statement |-> @.statement, item |-> @.item, evidence |-> @.evidence,
             status |-> "DISPUTED", conf |-> Least2(@.conf, 3500)]]
    /\ UNCHANGED <<use, given, rows, clashes>>

Deduplicate ==
    /\ \E L \in SUBSET Present :
        /\ Stay(L)
        /\ records' = [c \in Entries |-> IF c \in L THEN Merge(c, TakenUp(L, c)) ELSE NoRow]
    /\ UNCHANGED <<use, given, rows, clashes>>

AddRow(c, s, conf) ==
    /\ rows[c] = NoRow
    /\ \A d \in Entries : d < c => rows[d] # NoRow
    /\ rows' = [rows EXCEPT ![c] = [statement |-> s, conf |-> conf, status |-> "ACTIVE"]]
    /\ UNCHANGED <<use, records, given, clashes>>

\* Every claim in a conflict is disputed and discounted; a second pass discounts again.
ApplyResolutions ==
    /\ \E c \in Entries : Clashing(c) # {}
    /\ rows' = [c \in Entries |->
            IF Clashing(c) = {} THEN rows[c]
            ELSE [statement |-> rows[c].statement, status |-> "DISPUTED",
                  conf |-> Discounted(rows[c].conf, Cardinality(Clashing(c)))]]
    /\ clashes' = [c \in Entries |-> Most2(clashes[c], Cardinality(Clashing(c)))]
    /\ UNCHANGED <<use, records, given>>

RegistryStep ==
    \/ \E c \in Entries, s \in Statements, item \in Items \union {NoItem},
          tier \in Tiers, n \in 0..Corroborated, penalty \in Penalties,
          cred \in Credibilities, debate \in Debates :
            Add(c, s, item, Score(tier, n, penalty[1], penalty[2], cred, debate))
    \/ \E c \in Entries : DisputeClaim(c)
    \/ Deduplicate

ConflictStep ==
    \/ \E c \in Entries, s \in Statements, tier \in Tiers, debate \in Debates,
          cred \in Credibilities :
            AddRow(c, s, Score(tier, 0, FALSE, FALSE, cred, debate))
    \/ ApplyResolutions

Next ==
    \/ use = "registry" /\ RegistryStep
    \/ use = "conflicts" /\ ConflictStep

Spec == Init /\ [][Next]_ledgerVars

----------------------------------------------------------------------------
\* However often the registry is deduplicated, every evidence handed in is kept by a record
\* that measures and denies what its own claim did, and by one record only
\* (claim_ledger.py 132-186).
EvidenceKeepsItsProposition ==
    \A g \in given : \E c \in Present :
        /\ g[1] \in records[c].evidence
        /\ Material(records[c].statement) = Material(g[2])
        /\ \A d \in Present : g[1] \in records[d].evidence => d = c

\* A disputed proposition is never restored or made more certain, by a merge or by a second
\* reckoning of the conflicts: it stays disputed at 0.35 or less, lower with more conflicts
\* (contradiction.py 256-272, 323-359).
DisputedStaysLow ==
    /\ \A c \in Present : records[c].status = "DISPUTED" => records[c].conf <= 3500
    /\ \A c \in Entries : clashes[c] > 0 =>
            /\ rows[c].status = "DISPUTED"
            /\ rows[c].conf <= Most2(500, Decayed(3500, clashes[c] - 1))

\* A proposition keeps the evidence it was given through merging and resolution, and what
\* is disputed does not come out trusted (claim_ledger.py:132, contradiction.py:323).
PropositionsHold == EvidenceKeepsItsProposition /\ DisputedStaysLow
=============================================================================
