------------------------------ MODULE Reports ------------------------------
(***************************************************************************)
(* What a report cites (intelx/core/report.py, agents/synthesizer.py) and  *)
(* what its citations open later (web/routes.py, agents/citations.py,      *)
(* api/v1/friday.py).  A report prints the shortest beginning of an id, at *)
(* least eight characters, that no other row of the run shares; a reader   *)
(* opens that beginning in a table that has grown and been purged since.   *)
(* Identifiers are short sequences: what matters of them is how they       *)
(* begin.                                                                  *)
(***************************************************************************)
EXTENDS Naturals, FiniteSets, Sequences, SequencesExt

CONSTANTS
    Runs,
    ClaimIds, SourceIds,  \* identifiers, each a sequence
    Least,                \* the shortest token (8)
    Drafts,               \* the findings a model may draft: sets of what they cite
    Prose,                \* the tokens the prose of a report may carry, [kind, text, left]
    Unknown,              \* printed for the source of a claim that is not there
    Fallback              \* claims that become findings when no draft is grounded (5)

\* What the parameters are: no identifier begins another of its kind, for those drawn have one
\* length, and those of the demonstration data are written to differ.
ReportsAssumption ==
    /\ IsFiniteSet(ClaimIds) /\ IsFiniteSet(SourceIds)
    /\ ClaimIds \union SourceIds \union {Unknown} \union UNION Drafts \subseteq Seq(Nat)
    /\ Prose \subseteq [kind : {"C", "S"}, text : Seq(Nat), left : BOOLEAN]
    /\ <<>> \notin ClaimIds \union SourceIds
    /\ \A v, w \in ClaimIds : IsPrefix(v, w) => v = w
    /\ \A v, w \in SourceIds : IsPrefix(v, w) => v = w
    /\ Least \in Nat /\ Fallback \in Nat \ {0}

VARIABLES
    claim,     \* the claims by id: NoRow, Purged, or run, source and status
    source,    \* the run that stored each source, NoRun or GoneRun
    report,    \* the report of each run, with the rows it was rendered from
    finding,   \* the findings stored with it
    printed    \* the tokens handed out

reportVars == <<claim, source, report, finding, printed>>

NoId == <<>>
NoRow == [run |-> "none"]
Purged == [run |-> "purged"]
NoRun == "none"
GoneRun == "purged"
NoReport == [made |-> FALSE, tokens |-> {}, left |-> {}, cited |-> {}, claims |-> {},
             sources |-> {}]

Claims == {c \in ClaimIds : claim[c] \notin {NoRow, Purged}}
Sources == {s \in SourceIds : source[s] \notin {NoRun, GoneRun}}
ClaimsOf(r) == {c \in Claims : claim[c].run = r}

\* The rows the synthesis of a run looks at: its claims, the sources it stored and those
\* its claims cite, if they are still there.
SourcesOf(r) == {s \in Sources : source[s] = r \/ \E c \in ClaimsOf(r) : claim[c].source = s}

----------------------------------------------------------------------------
\* Mutant: a token stands for any row that begins with it.
ResolveAny(token, ids) ==
    LET matches == {v \in ids : IsPrefix(token, v)}
    IN  IF matches = {} THEN NoId ELSE CHOOSE v \in matches : TRUE

\* An exact identifier, else the only one that begins with the token.
Resolve(token, ids) ==
    LET matches == {v \in ids : IsPrefix(token, v)}
    IN  IF token \in ids THEN token
        ELSE IF Cardinality(matches) = 1 THEN CHOOSE v \in matches : TRUE
        ELSE NoId

Lengths(id) == (IF Least < Len(id) THEN Least ELSE Len(id))..Len(id)

Shared(id, n, ids) == \E v \in ids \ {id} : IsPrefix(SubSeq(id, 1, n), v)

\* Mutant: every token has eight characters.
FormatFixed(id, ids) == SubSeq(id, 1, IF Least < Len(id) THEN Least ELSE Len(id))

Format(id, ids) ==
    LET n == CHOOSE n \in Lengths(id) :
                /\ n = Len(id) \/ ~Shared(id, n, ids)
                /\ \A k \in Lengths(id) : k < n => Shared(id, k, ids)
    IN  SubSeq(id, 1, n)

Token(kind, id, ids) == [kind |-> kind, text |-> Format(id, ids), meant |-> Resolve(id, ids)]

----------------------------------------------------------------------------
\* A finding is grounded by one claim in good standing, named in full or by its beginning.
IsGrounded(f, r) ==
    \E cited \in f : LET c == Resolve(cited, ClaimsOf(r))
                     IN  c # NoId /\ claim[c].status = "ACTIVE"

\* Mutant: drafts without ground leave no findings.
OnlyDrafted(drafts, r, first) == {f \in drafts : IsGrounded(f, r)}

\* If the drafts have no grounded finding, the first claims are the findings.
GroundedFindings(drafts, r, first) ==
    LET grounded == {f \in drafts : IsGrounded(f, r)}
    IN  IF grounded = {} THEN {{c} : c \in first} ELSE grounded

Firsts(r) ==
    LET n == Cardinality(ClaimsOf(r))
    IN  {T \in SUBSET ClaimsOf(r) : Cardinality(T) = IF n < Fallback THEN n ELSE Fallback}

SourceOf(cited, r) == IF cited \in ClaimsOf(r) THEN claim[cited].source ELSE Unknown

\* The tokens a render prints: for what the findings cite, with its source (key findings
\* and evidence map), for the disputed claims, and for every source.
Rendered(r, grounded) ==
    LET all == UNION grounded
        disputed == {c \in ClaimsOf(r) : claim[c].status = "DISPUTED"}
    IN  {Token("C", cited, ClaimsOf(r)) : cited \in all \union disputed}
        \union {Token("S", SourceOf(cited, r), SourcesOf(r)) : cited \in all \union disputed}
        \union {Token("S", s, SourcesOf(r)) : s \in SourcesOf(r)}

\* What the prose carries of itself, the model's, the caller's or a source's title, be it in
\* the form of the report's tokens, or left whatever it names: in the old form, [S1], or put
\* together by the strike.
Written(r, prose, left) ==
    {[kind |-> t.kind, text |-> t.text,
      meant |-> Resolve(t.text, IF t.kind = "C" THEN ClaimsOf(r) ELSE SourcesOf(r))] :
        t \in {x \in prose : x.left = left}}

\* What resolves to nothing is struck from the text.
Validated(tokens, claims, sources) ==
    {t \in tokens : Resolve(t.text, IF t.kind = "C" THEN claims ELSE sources) # NoId}

\* The final gate (agents/report_gate.py), which recomputes the citations of a report.
GateReasons(rep) ==
    LET found(kind, ids) ==
            {Resolve(t.text, ids) : t \in {x \in rep.tokens \union rep.left : x.kind = kind}}
        missing(kind, ids) == NoId \in found(kind, ids)
    IN  (IF rep.sources = {} THEN {"sources"} ELSE {})
        \union (IF missing("S", rep.sources) \/ missing("C", rep.claims) THEN {"dangling"} ELSE {})
        \union (IF rep.sources # {} /\ found("S", rep.sources) \ {NoId} = {}
                THEN {"no source cited"} ELSE {})
        \union (IF rep.claims # {} /\ found("C", rep.claims) \ {NoId} = {}
                THEN {"no claim cited"} ELSE {})

\* What a reader's token opens, in tables of all runs; NoId for an unknown or ambiguous one.
Opened(t) == Resolve(t.text, IF t.kind = "C" THEN Claims ELSE Sources)

----------------------------------------------------------------------------
Tokens == [kind : {"C", "S"},
           text : UNION {{SubSeq(v, 1, n) : n \in 1..Len(v)} :
                            v \in ClaimIds \union SourceIds \union {Unknown}
                                  \union UNION Drafts \union {p.text : p \in Prose}},
           meant : ClaimIds \union SourceIds \union {NoId}]

TypeOK ==
    /\ claim \in [ClaimIds -> {NoRow, Purged} \union
            [run : Runs, source : SourceIds, status : {"ACTIVE", "DISPUTED"}]]
    /\ source \in [SourceIds -> Runs \union {NoRun, GoneRun}]
    /\ \A r \in Runs :
        /\ report[r].made \in BOOLEAN
        /\ report[r].tokens \union report[r].left \subseteq Tokens
        /\ report[r].claims \subseteq ClaimIds
        /\ report[r].sources \subseteq SourceIds
    /\ finding \in [Runs -> SUBSET (Drafts \union {{c} : c \in ClaimIds})]
    /\ printed \subseteq Tokens

Init ==
    /\ claim = [c \in ClaimIds |-> NoRow]
    /\ source = [s \in SourceIds |-> NoRun]
    /\ report = [r \in Runs |-> NoReport]
    /\ finding = [r \in Runs |-> {}]
    /\ printed = {}

StoreSource(r, s) ==
    /\ ~report[r].made
    /\ source[s] = NoRun
    /\ source' = [source EXCEPT ![s] = r]
    /\ UNCHANGED <<claim, report, finding, printed>>

StoreClaim(r, c, s) ==
    /\ ~report[r].made
    /\ claim[c] = NoRow
    /\ s \in Sources
    /\ claim' = [claim EXCEPT ![c] = [run |-> r, source |-> s, status |-> "ACTIVE"]]
    /\ UNCHANGED <<source, report, finding, printed>>

\* By the verifier before the report, by a retraction after it.
Dispute(c) ==
    /\ c \in Claims
    /\ claim[c].status = "ACTIVE"
    /\ claim' = [claim EXCEPT ![c].status = "DISPUTED"]
    /\ UNCHANGED <<source, report, finding, printed>>

Synthesize(r, drafts, prose) ==
    /\ ~report[r].made
    /\ \E first \in Firsts(r) :
        LET grounded == IF ClaimsOf(r) = {} THEN {} ELSE GroundedFindings(drafts, r, first)
            unverified == IF ClaimsOf(r) = {} THEN {} ELSE {f \in drafts : ~IsGrounded(f, r)}
            tokens == Validated(Rendered(r, grounded) \union Written(r, prose, FALSE),
                                ClaimsOf(r), SourcesOf(r))
        IN  /\ report' = [report EXCEPT ![r] = [made |-> TRUE, tokens |-> tokens,
                                left |-> Written(r, prose, TRUE), cited |-> UNION grounded,
                                claims |-> ClaimsOf(r), sources |-> SourcesOf(r)]]
            /\ finding' = [finding EXCEPT ![r] = grounded \union unverified]
            /\ printed' = printed \union tokens
    /\ UNCHANGED <<claim, source>>

\* An answer to a peer prints the claims its findings name, told apart among themselves
\* only, and either the publications of its citations or the sources it found; nothing
\* strikes what does not resolve, there or in the findings' own words.
Export(r, shown) ==
    /\ report[r].made
    /\ shown \in {{}, SourcesOf(r)}
    /\ LET all == UNION finding[r]
       IN  printed' = printed
                \union {[Token("C", cited, all) EXCEPT !.meant = Resolve(cited, ClaimsOf(r))] :
                            cited \in all}
                \union {Token("S", s, shown) : s \in shown}
    /\ UNCHANGED <<claim, source, report, finding>>

\* Retention removes a finished run's claims, findings and the sources it stored; an
\* identifier is not drawn twice.
Purge(r) ==
    /\ report[r].made
    /\ claim' = [c \in ClaimIds |-> IF c \in ClaimsOf(r) THEN Purged ELSE claim[c]]
    /\ source' = [s \in SourceIds |-> IF source[s] = r THEN GoneRun ELSE source[s]]
    /\ finding' = [finding EXCEPT ![r] = {}]
    /\ UNCHANGED <<report, printed>>

Next ==
    \/ \E r \in Runs, s \in SourceIds : StoreSource(r, s)
    \/ \E r \in Runs, c \in ClaimIds, s \in SourceIds : StoreClaim(r, c, s)
    \/ \E c \in ClaimIds : Dispute(c)
    \/ \E r \in Runs, drafts \in SUBSET Drafts, prose \in SUBSET Prose :
            Synthesize(r, drafts, prose)
    \/ \E r \in Runs, shown \in SUBSET SourceIds : Export(r, shown)
    \/ \E r \in Runs : Purge(r)

Spec == Init /\ [][Next]_reportVars

----------------------------------------------------------------------------
\* A report cites, for every claim of the run its findings name, that claim and no other,
\* and every token in the form the strike knows stands for one row of the run: what a model
\* made up, in a citation or in its prose, or a source that was purged meanwhile, is never
\* read as another row (core/report.py 58-102).
CitationsNameTheirRows ==
    \A r \in Runs : report[r].made =>
        /\ \A t \in report[r].tokens :
            /\ t.meant # NoId
            /\ Resolve(t.text, IF t.kind = "C" THEN report[r].claims ELSE report[r].sources)
                    = t.meant
        /\ \A c \in report[r].cited \intersect report[r].claims :
            \E t \in report[r].tokens : t.kind = "C" /\ t.meant = c

\* The gate finds nothing in the report of a run with claims and sources but what the strike
\* left in its prose, whatever the model drafted and wrote: such a token is refused when it
\* names no row, and nothing else is (agents/report_gate.py 37-77, agents/citations.py 37-69).
ReportPassesGate ==
    \A r \in Runs :
        report[r].made /\ report[r].claims # {} /\ report[r].sources # {}
            => GateReasons(report[r]) =
                    IF \E t \in report[r].left : t.meant = NoId THEN {"dangling"} ELSE {}

\* A token handed out opens, as long as its row is stored, that row or none, however many
\* rows of other runs came and went in between (web/routes.py 418-470).
TokensOpenTheirRow ==
    \A t \in printed :
        t.meant \in (IF t.kind = "C" THEN Claims ELSE Sources) => Opened(t) \in {t.meant, NoId}

\* From the synthesizer's draft to the reader's click: every citation in the report names a
\* row of its run, the gate objects to nothing but stray tokens of the prose, and a token
\* opens the row that was cited (synthesizer.py:421, report.py:69, web/routes.py:426).
CitationsHold == CitationsNameTheirRows /\ ReportPassesGate /\ TokensOpenTheirRow
=============================================================================
