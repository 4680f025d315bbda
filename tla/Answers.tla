------------------------------ MODULE Answers ------------------------------
(***************************************************************************)
(* What the service answers from its store without researching anything    *)
(* new: the Universal Task Protocol (intelx/api/router.py), the market     *)
(* report of StrateX (api/v1/stratex.py), the reports and the forecast     *)
(* context of Futuris (api/v1/futuris.py, integrations/futuris_context.py),*)
(* the lead dossier and the visitor's answer of Cortex (api/v1/cortex.py,  *)
(* integrations/cortex_context.py), and FRIDAY's delegation, which         *)
(* researches in memory alone (api/v1/friday.py).                          *)
(*                                                                         *)
(* A handler reads runs, claims, findings and sources in separate          *)
(* statements of a READ COMMITTED session, while executions store, finish  *)
(* and retract.  The larger a row's number, the younger it is.  Every run  *)
(* is about what is asked; what a text's words decide (relevance, market   *)
(* mood) is any choice.                                                    *)
(***************************************************************************)
EXTENDS Naturals, FiniteSets

CONSTANTS
    Requests, Caller,  \* the requests and the name of the key each one carries
    Admins,
    Runs, Owner,       \* the runs and who created each
    Claims, RunOf,     \* the claims with the run that stores each
    Created,           \* the run that first stored the source a claim cites
    Findings, Names,   \* the findings with the claims each names
    RunLimit,          \* of the runs a task reads (20)
    ClaimLimit,        \* of the claims (50)
    FindingLimit,      \* of the findings (5)
    Fallback,          \* claims quoted where there is no finding (5)
    Chain,             \* of the provenance chain (10)
    MeshFindings       \* findings of a delegation (8)

\* What the parameters are: every claim is of a run, and a finding names claims of its own.
AnswersAssumption ==
    /\ RunOf \in [Claims -> Runs]
    /\ Names \in [Findings -> SUBSET Claims]
    /\ \A f \in Findings : \A c, d \in Names[f] : RunOf[c] = RunOf[d]

VARIABLES
    run,               \* each run's status, with the outcome of one that completed
    rows,              \* the claims and findings stored
    disputed,          \* the stored claims that are DISPUTED
    req,               \* what each request has read and answered
    moved              \* ghost: the runs each request chose that were then reopened or relabelled

answerVars == <<run, rows, disputed, req, moved>>

Kinds == {"task", "market", "reports", "context", "dossier", "visitor", "mesh", "search", "summary"}
\* No reader asks for the outcome of a run that is not completed, and a run that failed is
\* like one cancelled: nobody asks for either.
Outcomes == {"ANSWERED", "INSUFFICIENT_EVIDENCE"}
Statuses == {"ACTIVE", "REVIEW_REQUIRED", "CANCELLED"} \union Outcomes

Completed(r) == run[r] \in Outcomes

RunOfFinding(f) == RunOf[CHOOSE c \in Names[f] : TRUE]

\* The n youngest of S.
Youngest(S, n) == {x \in S : Cardinality({y \in S : y > x}) < n}

ClaimsOf(R) == {c \in rows.claims : RunOf[c] \in R}
FindingsOf(R) == {f \in rows.findings : RunOfFinding(f) \in R}

\* What the findings F conclude from.
Conclusions(F) == UNION {Names[f] : f \in F}

\* A reply states claims, by themselves or in a finding's conclusion, and backs what it
\* states with others.
Nothing == [text |-> "none", says |-> {}, backs |-> {}]
Fresh(k) ==
    [kind |-> k, pc |-> "runs", runs |-> {}, claims |-> {}, findings |-> {}, news |-> "unasked",
     answer |-> Nothing, mood |-> FALSE, seen |-> {}]

TypeOK ==
    /\ run \in [Runs -> Statuses]
    /\ rows \in [claims : SUBSET Claims, findings : SUBSET Findings]
    /\ disputed \subseteq rows.claims
    /\ \A q \in Requests :
        /\ req[q].runs \subseteq Runs
        /\ req[q].claims \subseteq Claims
        /\ req[q].findings \subseteq Findings
        /\ req[q].seen \subseteq Claims
        /\ moved[q] \subseteq req[q].runs

Init ==
    /\ run = [r \in Runs |-> "ACTIVE"]
    /\ rows = [claims |-> {}, findings |-> {}]
    /\ disputed = {}
    /\ moved = [q \in Requests |-> {}]
    /\ \E kind \in [Requests -> Kinds] : req = [q \in Requests |-> Fresh(kind[q])]

(* The executions.                                                         *)

Extract(c) ==
    /\ run[RunOf[c]] = "ACTIVE"
    /\ \A d \in rows.claims : d < c
    /\ rows' = [rows EXCEPT !.claims = @ \union {c}]
    /\ UNCHANGED <<run, disputed, req, moved>>

\* The verifier, or somebody's retraction, at any time.
Dispute(c) ==
    /\ c \in rows.claims \ disputed
    /\ disputed' = disputed \union {c}
    /\ UNCHANGED <<run, rows, req, moved>>

\* The findings are stored before it is settled whether the run must be reviewed.
Synthesize(f) ==
    /\ run[RunOfFinding(f)] = "ACTIVE"
    /\ Names[f] \subseteq rows.claims
    /\ rows' = [rows EXCEPT !.findings = @ \union {f}]
    /\ UNCHANGED <<run, disputed, req, moved>>

Pause(r) ==
    /\ run[r] = "ACTIVE"
    /\ ClaimsOf({r}) \intersect disputed # {}
    /\ run' = [run EXCEPT ![r] = "REVIEW_REQUIRED"]
    /\ UNCHANGED <<rows, disputed, req, moved>>

Finish(r) ==
    /\ run[r] = "ACTIVE"
    /\ run' = [run EXCEPT ![r] =
            IF ClaimsOf({r}) = {} THEN "INSUFFICIENT_EVIDENCE" ELSE "ANSWERED"]
    /\ UNCHANGED <<rows, disputed, req, moved>>

\* The console, the versioned API, or a failure.
Cancel(r) ==
    /\ run[r] \in {"ACTIVE", "REVIEW_REQUIRED"}
    /\ run' = [run EXCEPT ![r] = "CANCELLED"]
    /\ UNCHANGED <<rows, disputed, req, moved>>

\* Whoever chose r rests on a run that changes under it.
Move(r) == moved' = [q \in Requests |-> moved[q] \union ({r} \intersect req[q].runs)]

\* A review queues the run again, the console's one of any status.
Reopen(r) ==
    /\ run' = [run EXCEPT ![r] = "ACTIVE"]
    /\ Move(r)
    /\ UNCHANGED <<rows, disputed, req>>

\* An execution cancelled while it announces its completion, or a cancel that read the run
\* before it completed.
Relabel(r) ==
    /\ Completed(r)
    /\ run' = [run EXCEPT ![r] = "CANCELLED"]
    /\ Move(r)
    /\ UNCHANGED <<rows, disputed, req>>

(* The task protocol.                                                      *)

\* Mutant: any key reads every run.
MineOrNot(q, r) == TRUE

Mine(q, r) == Caller[q] \in Admins \/ Owner[r] = Caller[q]

\* A cancel of the caller's own unfinished run; a run it does not own is not found, a
\* finished one is a conflict.
CancelTask(q, r) ==
    /\ req[q].kind = "task"
    /\ req[q].pc = "runs"
    /\ IF ~Mine(q, r)
       THEN req' = [req EXCEPT ![q].pc = "done", ![q].answer.text = "404"] /\ UNCHANGED run
       ELSE IF Completed(r) \/ run[r] = "CANCELLED"
       THEN req' = [req EXCEPT ![q].pc = "done", ![q].answer.text = "409"] /\ UNCHANGED run
       ELSE /\ run' = [run EXCEPT ![r] = "CANCELLED"]
            /\ req' = [req EXCEPT ![q].pc = "done", ![q].answer.text = "CANCELLED"]
    /\ UNCHANGED <<rows, disputed, moved>>

\* Everything but the cancel of a known run is a research: the cancel of an unknown one too.
TaskRuns(q) ==
    /\ req[q].kind = "task"
    /\ req[q].pc = "runs"
    /\ LET mine == Youngest({r \in Runs : Completed(r) /\ Mine(q, r)}, RunLimit)
       IN req' = [req EXCEPT ![q].runs = mine, ![q].seen = disputed,
               ![q].pc = IF mine = {} THEN "answer" ELSE "claims"]
    /\ UNCHANGED <<run, rows, disputed, moved>>

\* Mutant: disputed claims are not left out.
TaskClaimsOfAnyStanding(q) ==
    /\ req[q].kind = "task"
    /\ req[q].pc = "claims"
    /\ req' = [req EXCEPT
            ![q].claims = Youngest(ClaimsOf(req[q].runs), ClaimLimit),
            ![q].pc = "findings"]
    /\ UNCHANGED <<run, rows, disputed, moved>>

TaskClaims(q) ==
    /\ req[q].kind = "task"
    /\ req[q].pc = "claims"
    /\ req' = [req EXCEPT
            ![q].claims = Youngest(ClaimsOf(req[q].runs) \ disputed, ClaimLimit),
            ![q].pc = "findings"]
    /\ UNCHANGED <<run, rows, disputed, moved>>

\* The claims the findings name are read after them, disputed ones too.
TaskFindings(q) ==
    /\ req[q].kind = "task"
    /\ req[q].pc = "findings"
    /\ LET found == Youngest(FindingsOf(req[q].runs), FindingLimit)
       IN req' = [req EXCEPT
            ![q].findings = found,
            ![q].claims = @ \union (Conclusions(found) \intersect ClaimsOf(req[q].runs)),
            ![q].pc = "answer"]
    /\ UNCHANGED <<run, rows, disputed, moved>>

\* Without a finding the claims speak for themselves.
TaskAnswer(q) ==
    /\ req[q].kind = "task"
    /\ req[q].pc = "answer"
    /\ req' = [req EXCEPT ![q].pc = "done", ![q].answer =
            [text |-> IF req[q].findings # {} THEN "findings"
                      ELSE IF req[q].claims # {} THEN "claims" ELSE "none",
             says |-> IF req[q].findings # {} THEN Conclusions(req[q].findings)
                      ELSE Youngest(req[q].claims, Fallback),
             backs |-> Youngest(req[q].claims, Chain)]]
    /\ UNCHANGED <<run, rows, disputed, moved>>

(* The ecosystem's readers.                                                *)

Peers == {"market", "reports", "context", "dossier"}

\* Mutant: a run that is not over will do.
AnsweredOrAwaited(r) == run[r] # "CANCELLED"

\* Whoever asks, the runs that answered what they were asked.
Answered(r) == run[r] = "ANSWERED"

PeerRuns(q) ==
    /\ req[q].kind \in Peers
    /\ req[q].pc = "runs"
    /\ LET done == {r \in Runs : Answered(r)}
       IN req' = [req EXCEPT ![q].runs = done,
               ![q].pc = IF done # {} THEN "rows"
                         ELSE IF req[q].kind = "market" THEN "news" ELSE "done"]
    /\ UNCHANGED <<run, rows, disputed, moved>>

\* A market report and a dossier fall back on claims, disputed ones too, when no run has
\* a finding; a list of reports run by run.
PeerRows(q) ==
    /\ req[q].kind \in Peers \ {"context"}
    /\ req[q].pc = "rows"
    /\ LET found == FindingsOf(req[q].runs)
           told == {RunOfFinding(f) : f \in found}
           said == CASE req[q].kind = "reports" -> ClaimsOf(req[q].runs \ told)
                     [] OTHER -> IF found = {} THEN ClaimsOf(req[q].runs) ELSE {}
       IN req' = [req EXCEPT
            ![q].findings = found,
            ![q].claims = said,
            ![q].answer = [text |-> IF found # {} THEN "findings"
                                    ELSE IF said # {} THEN "claims" ELSE "none",
                           says |-> said \union Conclusions(found), backs |-> {}],
            ![q].pc = IF req[q].kind = "market" THEN "news" ELSE "done"]
    /\ UNCHANGED <<run, rows, disputed, moved>>

\* A forecast's context takes the findings and the claims near its target.  It verifies a
\* claim that is not disputed and whose source one of these runs created; sources are
\* shared, so a claim may cite one of an older run and stay unverified.
Context(q) ==
    /\ req[q].kind = "context"
    /\ req[q].pc = "rows"
    /\ \E near \in SUBSET ClaimsOf(req[q].runs), found \in SUBSET FindingsOf(req[q].runs) :
        req' = [req EXCEPT
            ![q].findings = found,
            ![q].claims = near,
            ![q].answer = [text |-> IF found # {} THEN "findings"
                                    ELSE IF near # {} THEN "claims" ELSE "none",
                           says |-> near \union Conclusions(found),
                           backs |-> {c \in near \ disputed : Created[c] \in req[q].runs}],
            ![q].pc = "done"]
    /\ UNCHANGED <<run, rows, disputed, moved>>

(* The market report always asks for news as well.                         *)

\* Mutant: an outage counts as no news.
NewsOrSilence(q) ==
    /\ req[q].kind = "market"
    /\ req[q].pc = "news"
    /\ \E heard \in {"hits", "nothing", "outage"} :
        req' = [req EXCEPT ![q].news = heard, ![q].pc = "assess"]
    /\ UNCHANGED <<run, rows, disputed, moved>>

News(q) ==
    /\ req[q].kind = "market"
    /\ req[q].pc = "news"
    /\ \E heard \in {"hits", "nothing", "outage"} :
        IF heard = "outage" /\ req[q].answer.text = "none"
        THEN req' = [req EXCEPT ![q].news = heard, ![q].pc = "done", ![q].answer.text = "503"]
        ELSE req' = [req EXCEPT ![q].news = heard, ![q].pc = "assess"]
    /\ UNCHANGED <<run, rows, disputed, moved>>

HasEvidence(q) == req[q].answer.text # "none" \/ req[q].news = "hits"

\* The mood and the volatility leave their neutral values only on evidence.
Assess(q) ==
    /\ req[q].kind = "market"
    /\ req[q].pc = "assess"
    /\ \E mood \in IF HasEvidence(q) THEN BOOLEAN ELSE {FALSE} :
        req' = [req EXCEPT ![q].mood = mood, ![q].pc = "done",
            ![q].answer.text = IF ~HasEvidence(q) THEN "INSUFFICIENT_EVIDENCE"
                               ELSE IF req[q].news = "outage" THEN "PARTIAL_EVIDENCE"
                               ELSE "EVIDENCE_AVAILABLE"]
    /\ UNCHANGED <<run, rows, disputed, moved>>

\* A website visitor's question is matched with every finding there is.
Visit(q) ==
    /\ req[q].kind = "visitor"
    /\ req[q].pc = "runs"
    /\ IF rows.findings # {}
       THEN req' = [req EXCEPT ![q].findings = rows.findings, ![q].pc = "done",
                ![q].answer = [text |-> "findings", says |-> Conclusions(rows.findings),
                               backs |-> {}]]
       ELSE \E heard \in {"hits", "nothing", "outage"} :
            req' = [req EXCEPT ![q].news = heard, ![q].pc = "done"]
    /\ UNCHANGED <<run, rows, disputed, moved>>

\* The search endpoint fills up with web hits what the store leaves room for, and says
\* when the web did not answer.
Search(q) ==
    /\ req[q].kind = "search"
    /\ req[q].pc = "runs"
    /\ \E stored \in {"enough", "few"}, heard \in {"hits", "nothing", "outage"} :
        req' = [req EXCEPT ![q].pc = "done",
            ![q].news = IF stored = "enough" THEN "unasked" ELSE heard,
            ![q].answer.text = IF stored = "enough" THEN "not_needed"
                               ELSE IF heard = "outage" THEN "unavailable" ELSE "ok"]
    /\ UNCHANGED <<run, rows, disputed, moved>>

\* A summary joins the first claims that match, of whatever run and standing.
Summarize(q) ==
    /\ req[q].kind = "summary"
    /\ req[q].pc = "runs"
    /\ \E said \in SUBSET rows.claims :
        /\ Cardinality(said) <= Fallback
        /\ req' = [req EXCEPT ![q].claims = said, ![q].pc = "done",
               ![q].answer = [text |-> IF said = {} THEN "none" ELSE "claims",
                              says |-> said, backs |-> {}]]
    /\ UNCHANGED <<run, rows, disputed, moved>>

\* FRIDAY's cancel asks only whether the run exists and is over; the id of a delegation is
\* acknowledged without a run.
CancelDelegation(q) ==
    /\ req[q].kind = "mesh"
    /\ req[q].pc = "runs"
    /\ \/ req' = [req EXCEPT ![q].pc = "done", ![q].answer.text = "CANCELLED"] /\ UNCHANGED run
       \/ \E r \in Runs :
            IF Completed(r) \/ run[r] = "CANCELLED"
            THEN /\ req' = [req EXCEPT ![q].pc = "done",
                        ![q].answer.text = IF Completed(r) THEN "COMPLETED" ELSE "CANCELLED"]
                 /\ UNCHANGED run
            ELSE /\ run' = [run EXCEPT ![r] = "CANCELLED"]
                 /\ req' = [req EXCEPT ![q].pc = "done", ![q].answer.text = "CANCELLED"]
    /\ UNCHANGED <<rows, disputed, moved>>

\* FRIDAY's delegation searches by itself and makes claims of the hits: whatever the store
\* holds, and whether the searches failed, the answer is a success.
Delegate(q) ==
    /\ req[q].kind = "mesh"
    /\ req[q].pc = "runs"
    /\ \E heard \in {"hits", "nothing", "outage"}, made \in SUBSET Claims :
        /\ heard = "hits" \/ made = {}
        /\ req' = [req EXCEPT ![q].news = heard, ![q].pc = "done",
               ![q].answer = [text |-> "SUCCESS", says |-> Youngest(made, MeshFindings),
                              backs |-> Youngest(made, Chain)]]
    /\ UNCHANGED <<run, rows, disputed, moved>>

Next ==
    \/ \E c \in Claims : Extract(c) \/ Dispute(c)
    \/ \E f \in Findings : Synthesize(f)
    \/ \E r \in Runs : Pause(r) \/ Finish(r) \/ Cancel(r) \/ Reopen(r) \/ Relabel(r)
    \/ \E q \in Requests :
        \/ \E r \in Runs : CancelTask(q, r)
        \/ TaskRuns(q) \/ TaskClaims(q) \/ TaskFindings(q) \/ TaskAnswer(q)
        \/ PeerRuns(q) \/ PeerRows(q) \/ Context(q)
        \/ News(q) \/ Assess(q) \/ Visit(q) \/ Search(q) \/ Summarize(q)
        \/ CancelDelegation(q) \/ Delegate(q)

Spec == Init /\ [][Next]_answerVars

-----------------------------------------------------------------------------

\* Everything an answer rests on was established by a run that is complete (and answered,
\* for the peers) or was when the request chose it and has been reopened or relabelled
\* since, and a task's by a run of its own key: the statements after the first must not
\* reach past the runs the first one chose.  Searches, summaries and visitors' answers make
\* no such promise.
AnswersRestOnFinishedRuns ==
    \A q \in Requests : req[q].kind \in Peers \union {"task"} =>
        \A c \in req[q].claims \union Conclusions(req[q].findings) :
            /\ \/ RunOf[c] \in moved[q]
               \/ run[RunOf[c]] \in IF req[q].kind = "task" THEN Outcomes ELSE {"ANSWERED"}
            /\ req[q].kind = "task" => Caller[q] \in Admins \/ Owner[RunOf[c]] = Caller[q]

\* What was disputed before a task was asked gets into its answer, as a statement or in the
\* provenance of one, only with a finding that concludes from it: the claims read for their
\* own sake leave it out, those read for the findings do not.
DisputesComeWithTheirFinding ==
    \A q \in Requests : req[q].kind = "task" =>
        (req[q].answer.says \union req[q].answer.backs) \intersect req[q].seen
            \subseteq Conclusions(req[q].findings)

\* StrateX moves its mood or volatility only on evidence, stored or fresh; when it has none
\* and could not look for any, the caller learns of the outage instead.
MarketMovesOnEvidence ==
    \A q \in Requests : req[q].kind = "market" =>
        LET stored == req[q].findings \union req[q].claims # {}
        IN /\ req[q].mood => stored \/ req[q].news = "hits"
           /\ req[q].pc = "done" /\ req[q].news = "outage" /\ ~stored =>
                req[q].answer.text = "503"

\* What a website visitor is shown as verified comes from a run that is complete, neither
\* cancelled nor waiting for its review (api/v1/cortex.py:167 promises verified, cited
\* intelligence).  The code selects findings of any run.
VisitorsSeeFinishedWork ==
    \A q \in Requests : req[q].kind = "visitor" =>
        \A f \in req[q].findings : Completed(RunOfFinding(f))

\* What the peers are told rests on runs that ended and that they may see, and a market is
\* moved by evidence and not by an outage (friday.py, futuris.py, stratex.py:188).
AnswersHold == AnswersRestOnFinishedRuns /\ MarketMovesOnEvidence
=============================================================================
