------------------------------ MODULE Evidence ------------------------------
(***************************************************************************)
(* Evidence: the claims an execution extracts from stored documents, the   *)
(* evidence rows and disputes its verification adds, the report it writes  *)
(* (agents/extractor.py, verifier.py, synthesizer.py as engine.py calls    *)
(* them), the retraction of claims (api/v1/endpoints.py) and the retention *)
(* purge (db/retention.py) that runs beside all of this.                   *)
(*                                                                         *)
(* An execution uses one session: sessionmaker has expire_on_commit and    *)
(* autoflush off, so an object once loaded keeps its values while other    *)
(* transactions change the row, and a changed attribute is written only    *)
(* when it differs from the loaded value.  Flushed rows are seen by no one *)
(* else and hold their row locks until the session commits.                *)
(*                                                                         *)
(* A document gives one claim per extraction; which documents contradict   *)
(* each other independently is a constant.  How two retrievers race for a  *)
(* location is SourceStore, and who executes or cancels a run is           *)
(* RunLifecycle: here a run is executed by one worker at a time.           *)
(***************************************************************************)
EXTENDS Integers, FiniteSets

CONSTANTS
    Runs,
    Docs,
    Offers,       \* [Runs -> SUBSET Docs], what its scouts find
    Verdicts,     \* the verdicts the verifier's model gives
    Contradict,   \* the pairs {d, e} whose measurements conflict
    Brought,      \* a function from some documents: the earlier run that stored each
    Deep,         \* the runs whose scope asks for depth "deep"
    MaxVisits,    \* bound on the claims of one run from one document
    MaxWork,      \* bound on claims, requeues, replans and faults together
    MaxRequeues,  \* bound on requeues and replans together
    MaxFaults,    \* bound on exceptions and crashes
    None

ASSUME EvidenceAssumption ==
    /\ Offers \in [Runs -> SUBSET Docs]
    /\ Verdicts \subseteq {"SUPPORTED", "CONTRADICTED", "UNRELATED"}
    /\ Contradict \subseteq {p \in SUBSET Docs : Cardinality(p) = 2}
    /\ DOMAIN Brought \subseteq Docs
    /\ \A d \in DOMAIN Brought : Brought[d] \in Runs
    /\ Deep \subseteq Runs
    /\ MaxVisits \in Nat
    /\ MaxWork \in Nat
    /\ MaxRequeues \in Nat
    /\ MaxFaults \in Nat
    /\ None \notin Runs

VARIABLES
    text,      \* [Docs -> Texts], documents.text as committed
    maker,     \* [Docs -> Runs], the source's created_by_run_id
    claim,     \* the committed claims: a function from some of Claims to Row
    evidence,  \* the committed evidence rows
    finding,   \* the committed finding rows
    run,       \* [Runs -> Run]
    session,   \* [Runs -> Session], the session of the run's execution
    requeues,
    faults

vars == <<text, maker, claim, evidence, finding, run, session, requeues, faults>>

\* A document is not stored, stored whole, or replaced by the purge's placeholder.
Texts == {"absent", "whole", "purged"}

\* n counts the run's extractions from the document.
Claims == [run : Runs, doc : Docs, n : 1 .. MaxVisits]

ClaimStatuses == {"ACTIVE", "DISPUTED", "RETRACTED"}

\* What the quote was sliced from, and the status.
Row == [quote : {"whole", "purged"}, status : ClaimStatuses]

\* A quote of document `from` that supports or contradicts the claim `on`.
EvidenceRow ==
    [on : Claims, from : Docs, quote : {"whole", "purged"},
     supports : BOOLEAN, by : {"extractor", "verifier", "contradiction-engine"}]

Stages == {"retrieve", "extract", "verify", "critic", "save", "decide", "failed"}

\* status "ended" is FAILED or CANCELLED; "gone": the row is deleted.
Run ==
    [pc : Stages \cup {"idle"},
     status : {"QUEUED", "running", "REVIEW_REQUIRED", "COMPLETED", "ended", "gone"},
     age : 0 .. 2,        \* 1: past the retention of raw texts, 2: of reports
     executed : BOOLEAN,  \* it has events and tasks
     file : Nat,          \* the report on disk: of the run's file-th synthesis
     listed : Nat]        \* the report its newest artifact row describes

Nothing == [c \in {} |-> None]

\* A session as it is opened.  copy, view: the identity map, documents ("absent":
\* not loaded) and claims; list: the claims the engine hands to its agents;
\* rows, evidence, finding, report: flushed and not committed.
Closed ==
    [copy |-> [d \in Docs |-> "absent"], ingested |-> {}, replanned |-> FALSE,
     view |-> Nothing, list |-> {},
     rows |-> Nothing, evidence |-> {}, finding |-> {}, report |-> 0]

Finding == [run : Runs, cites : SUBSET Claims, grounded : BOOLEAN]

\* f is a function from some claims to rows.
RowsOk(f) == DOMAIN f \subseteq Claims /\ \A c \in DOMAIN f : f[c] \in Row

TypeOK ==
    /\ text \in [Docs -> Texts]
    /\ maker \in [Docs -> Runs \cup {None}]
    /\ RowsOk(claim)
    /\ evidence \subseteq EvidenceRow
    /\ finding \subseteq Finding
    /\ run \in [Runs -> Run]
    /\ \A r \in Runs :
         /\ DOMAIN session[r] = DOMAIN Closed
         /\ session[r].copy \in [Docs -> Texts]
         /\ RowsOk(session[r].view)
         /\ session[r].ingested \subseteq Docs
         /\ session[r].replanned \in BOOLEAN
         /\ session[r].list \subseteq DOMAIN session[r].view
         /\ RowsOk(session[r].rows)
         /\ session[r].evidence \subseteq EvidenceRow
         /\ session[r].finding \subseteq Finding
         /\ session[r].report \in Nat
    /\ requeues \in 0 .. MaxRequeues
    /\ faults \in 0 .. MaxFaults

\* The runs that are over when the model starts: they found no claim in what they
\* brought into the store.
Earlier == {Brought[d] : d \in DOMAIN Brought}

Init ==
    /\ text = [d \in Docs |-> IF d \in DOMAIN Brought THEN "whole" ELSE "absent"]
    /\ maker = [d \in Docs |-> IF d \in DOMAIN Brought THEN Brought[d] ELSE None]
    /\ claim = Nothing
    /\ evidence = {}
    /\ finding = {}
    /\ run = [r \in Runs |->
                IF r \in Earlier
                THEN [pc |-> "idle", status |-> "COMPLETED", age |-> 0, executed |-> TRUE,
                      file |-> 1, listed |-> 1]
                ELSE [pc |-> "idle", status |-> "QUEUED", age |-> 0, executed |-> FALSE,
                      file |-> 0, listed |-> 0]]
    /\ session = [r \in Runs |-> Closed]
    /\ requeues = 0
    /\ faults = 0

-----------------------------------------------------------------------------
(* Sessions and rows *)

\* f with the rows of g written over it.
Over(f, g) ==
    [c \in DOMAIN f \cup DOMAIN g |-> IF c \in DOMAIN g THEN g[c] ELSE f[c]]

\* The rows s[c] of the claims C, DISPUTED.
Dispute(s, C) == [c \in C |-> [s[c] EXCEPT !.status = "DISPUTED"]]

\* Mutant: every loaded claim is written, changed or not.
CommitLoaded(s) ==
    /\ claim' = Over(claim, s.view)
    /\ evidence' = evidence \cup s.evidence
    /\ finding' = finding \cup s.finding

\* session.commit(): everything the session flushed becomes the database's.
Commit(s) ==
    /\ claim' = Over(claim, s.rows)
    /\ evidence' = evidence \cup s.evidence
    /\ finding' = finding \cup s.finding

Committed(s) ==
    [s EXCEPT !.rows = Nothing, !.evidence = {}, !.finding = {}, !.report = 0]

Use(r, s) == session' = [session EXCEPT ![r] = s]

Step(r, x) == run' = [run EXCEPT ![r] = x]

GoTo(r, pc) == Step(r, [run[r] EXCEPT !.pc = pc])

\* The texts once the documents ds are in the store.
Stored(ds) == [d \in Docs |-> IF d \in ds /\ text[d] = "absent" THEN "whole" ELSE text[d]]

\* RetrieverAgent: what is not in the store is fetched and stored, the rest is a hit.
Fetch(r, ds) ==
    /\ text' = Stored(ds)
    /\ maker' = [d \in Docs |-> IF text[d] # Stored(ds)[d] THEN r ELSE maker[d]]

\* s with the documents ds loaded; an object already loaded is not refreshed.
Loaded(s, ds) ==
    [s EXCEPT !.copy =
       [d \in Docs |-> IF d \in ds /\ s.copy[d] = "absent" THEN Stored(ds)[d] ELSE s.copy[d]]]

\* The room the bound leaves for claims of the session s, requeues and faults.
Room(s, more) ==
    Cardinality(DOMAIN claim \cup DOMAIN s.rows) + requeues + faults + more <= MaxWork

\* The row the run's next extraction of d adds, if any is left.
NextClaim(r, s, d) ==
    {c \in Claims :
        /\ c.run = r /\ c.doc = d
        /\ c.n = 1 + Cardinality({k \in DOMAIN claim \cup DOMAIN s.rows :
                                     k.run = r /\ k.doc = d})
        /\ Room(s, 1)}

\* ExtractorAgent._persist: a claim per document of ds that gives one, each with
\* the evidence row of its own quote.
Extracted(r, s, ds) ==
    LET new == UNION {NextClaim(r, s, d) : d \in ds}
        rows == [c \in new |-> [quote |-> s.copy[c.doc], status |-> "ACTIVE"]]
    IN  [s EXCEPT
           !.rows = Over(s.rows, rows),
           !.view = Over(s.view, rows),
           !.evidence = @ \cup
             {[on |-> c, from |-> c.doc, quote |-> s.copy[c.doc],
               supports |-> TRUE, by |-> "extractor"] : c \in new}]

-----------------------------------------------------------------------------
(* One execution of a run *)

Start(r) ==
    /\ run[r].pc = "idle"
    /\ run[r].status = "QUEUED"
    /\ Step(r, [run[r] EXCEPT !.pc = "retrieve", !.status = "running", !.executed = TRUE])
    /\ Use(r, Closed)
    /\ UNCHANGED <<text, maker, claim, evidence, finding, requeues, faults>>

Retrieve(r, ds) ==
    /\ run[r].pc = "retrieve"
    /\ ds \subseteq Offers[r]
    /\ Fetch(r, ds)
    /\ Use(r, [Loaded(session[r], ds) EXCEPT !.ingested = ds])
    /\ GoTo(r, "extract")
    /\ UNCHANGED <<claim, evidence, finding, requeues, faults>>

\* Mutant: only the claims of the documents of this pass.
OwnOfPass(r) == {c \in DOMAIN claim' : c.run = r /\ c.doc \in session[r].ingested}

\* The run's claims at the engine's SELECT.
Own(r) == {c \in DOMAIN claim' : c.run = r}

\* execute_many, then the engine's SELECT of the run's claims: rows the session
\* does not know are loaded, the others stay as it knows them.
Extract(r, ds) ==
    LET s == Extracted(r, session[r], ds)
        found == [c \in Own(r) |-> claim'[c]]
    IN  /\ run[r].pc = "extract"
        /\ ds \subseteq session[r].ingested
        /\ Commit(s)
        /\ Use(r, [Committed(s) EXCEPT !.list = Own(r), !.view = Over(found, s.view)])
        /\ GoTo(r, IF Own(r) = {} THEN "critic" ELSE "verify")
        /\ UNCHANGED <<text, maker, requeues, faults>>

\* A verdict on the claim c by the new claims of another document.
Judged(s, c, new, verdict) ==
    LET from == new.doc
        quote == s.copy[from]
        twins == {k \in DOMAIN claim \cup DOMAIN s.rows :
                    k.run = c.run /\ k.doc = from /\ Over(claim, s.rows)[k].quote = quote}
        hit == {c} \cup twins
        view == Over([k \in twins |-> Over(claim, s.rows)[k]], s.view)
        dirty == {k \in hit : view[k].status # "DISPUTED"}
        row == [on |-> c, from |-> from, quote |-> quote,
                supports |-> verdict = "SUPPORTED", by |-> "verifier"]
    IN  CASE verdict = "CONTRADICTED" ->
               [s EXCEPT !.view = Over(view, Dispute(view, hit)),
                         !.rows = Over(s.rows, Dispute(view, dirty)),
                         !.evidence = @ \cup {row}]
          [] verdict = "SUPPORTED" -> [s EXCEPT !.evidence = @ \cup {row}]
          [] OTHER -> s

\* One claim of the verifier's loop: a document that had to be fetched is stored
\* by a commit, which also takes along what the claims before left flushed.
VerifyTarget(r, c, d, verdict) ==
    LET fetched == text[d] = "absent"
        before == IF fetched THEN Committed(session[r]) ELSE session[r]
        s == Loaded(before, {d})
    IN  /\ run[r].pc = "verify"
        /\ c \in session[r].list
        /\ d \in Offers[r] /\ d # c.doc
        /\ \E new \in NextClaim(r, session[r], d) :
              Use(r, Judged(Extracted(r, s, {d}), c, new, verdict))
        /\ Fetch(r, {d})
        /\ IF fetched THEN Commit(session[r]) ELSE UNCHANGED <<claim, evidence, finding>>
        /\ UNCHANGED <<run, requeues, faults>>

\* The evidence on a that quotes b, its independent opponent.
Opposing(a, b) ==
    [on |-> a, from |-> b.doc, quote |-> "whole",
     supports |-> FALSE, by |-> "contradiction-engine"]

\* ContradictionEngine.analyze, without what the agent skips.
Conflicts(s) ==
    {p \in s.list \X s.list :
        /\ {p[1].doc, p[2].doc} \in Contradict
        /\ \A c \in {p[1], p[2]} :
              s.view[c].quote = "whole" /\ s.view[c].status # "RETRACTED"}

\* Mutant: a quote in evidence for anything counts as known.
KnownQuote(s, e) ==
    \E k \in evidence \cup s.evidence : k.from = e.from /\ k.quote = e.quote

\* existing_keys does not ask which agent wrote the row.
Known(s, e) ==
    \E k \in evidence \cup s.evidence : [k EXCEPT !.by = e.by] = e

\* What recording the conflict p adds; create_evidence compares each quote with
\* the session's text.
Sides(s, p) == {e \in {Opposing(p[1], p[2]), Opposing(p[2], p[1])} : ~Known(s, e)}

Sound(s, e) == s.copy[e.from] = e.quote

\* s after the conflicts P were recorded.
Recorded(s, P) ==
    LET both == UNION {{p[1], p[2]} : p \in P}
        dirty == {c \in both : s.view[c].status # "DISPUTED"}
    IN  [s EXCEPT !.view = Over(s.view, Dispute(s.view, both)),
                  !.rows = Over(s.rows, Dispute(s.view, dirty)),
                  !.evidence = @ \cup UNION {Sides(s, p) : p \in P}]

\* Mutant: only the documents the session already has.
AtConflictsAsIs(r) == session[r]

\* The documents of the claims are loaded, unless the session has them.
AtConflicts(r) ==
    Loaded(session[r], {c.doc : c \in session[r].list})

\* _record_deterministic_conflicts and the verifier's commit.
RecordConflicts(r) ==
    LET s == AtConflicts(r)
        all == Recorded(s, Conflicts(s))
    IN  /\ run[r].pc = "verify"
        /\ UNCHANGED <<text, maker, requeues, faults>>
        /\ \A p \in Conflicts(s) : \A e \in Sides(s, p) : Sound(s, e)
        /\ Commit(all)
        /\ Use(r, Committed(all))
        /\ GoTo(r, "critic")

\* A quote that is not in the text any more: the conflicts P before were recorded,
\* and of the conflict p perhaps its first side.
RefuseEvidence(r, P, p) ==
    LET s == AtConflicts(r)
        done == Recorded(s, P)
        first == Sides(done, p) \cap {Opposing(p[1], p[2])}
    IN  /\ run[r].pc = "verify"
        /\ UNCHANGED <<text, maker, claim, evidence, finding, requeues, faults>>
        /\ P \subseteq Conflicts(s) /\ p \in Conflicts(s) \ P
        /\ \A q \in P : \A e \in Sides(s, q) : Sound(s, e)
        /\ \E e \in Sides(done, p) : ~Sound(s, e)
        /\ Use(r, [done EXCEPT !.evidence = @ \cup {e \in first : Sound(s, e)}])
        /\ GoTo(r, "failed")

\* A severe critique sends the run back to DISCOVERING, once per execution.
Replan(r) ==
    /\ run[r].pc = "critic"
    /\ ~session[r].replanned
    /\ requeues < MaxRequeues /\ Room(session[r], 1)
    /\ requeues' = requeues + 1
    /\ Use(r, [session[r] EXCEPT !.replanned = TRUE])
    /\ GoTo(r, "retrieve")
    /\ UNCHANGED <<text, maker, claim, evidence, finding, faults>>

ActiveIn(s) == {c \in s.list : s.view[c].status = "ACTIVE"}

\* The findings of a synthesis: what the model wrote about an active claim; if none
\* of its findings has one, one per claim; without claims, insufficient evidence.
Findings(r, s) ==
    LET cited(C, ok) == [run |-> r, cites |-> C, grounded |-> ok]
    IN  {{cited({c}, TRUE)} : c \in ActiveIn(s)}
        \cup IF s.list = {} THEN {{cited({}, FALSE)}}
             ELSE {{cited({c}, TRUE) : c \in s.list}}

\* The report files are replaced before the rows that describe them are committed.
Synthesize(r, findings) ==
    LET n == run[r].file + 1
    IN  /\ run[r].pc = "critic"
        /\ findings \in Findings(r, session[r])
        /\ Step(r, [run[r] EXCEPT !.pc = "save", !.file = n])
        /\ Use(r, [session[r] EXCEPT !.finding = findings, !.report = n])
        /\ UNCHANGED <<text, maker, claim, evidence, finding, requeues, faults>>

SaveReport(r) ==
    /\ run[r].pc = "save"
    /\ Commit(session[r])
    /\ Use(r, Committed(session[r]))
    /\ Step(r, [run[r] EXCEPT !.pc = "decide", !.listed = session[r].report])
    /\ UNCHANGED <<text, maker, requeues, faults>>

\* A recorded decision is lost with the row's scope, so a disputed deep run is
\* always sent to review.
NeedsReview(r) ==
    r \in Deep /\ \E c \in session[r].list : session[r].view[c].status = "DISPUTED"

Decide(r) ==
    /\ run[r].pc = "decide"
    /\ Step(r, [run[r] EXCEPT
         !.pc = "idle",
         !.status = IF NeedsReview(r) THEN "REVIEW_REQUIRED" ELSE "COMPLETED"])
    /\ Use(r, Closed)
    /\ UNCHANGED <<text, maker, claim, evidence, finding, requeues, faults>>

\* execute_run's handlers: the settling commit writes what was left flushed, unless
\* the session has to be rolled back first.
Fail(r) ==
    LET s == session[r]
    IN  /\ run[r].pc # "idle"
        /\ IF run[r].pc = "failed" THEN UNCHANGED faults
           ELSE faults < MaxFaults /\ Room(s, 1) /\ faults' = faults + 1
        /\ \/ /\ Commit(s)
              /\ Step(r, [run[r] EXCEPT
                   !.pc = "idle", !.status = "ended",
                   !.listed = IF s.report # 0 THEN s.report ELSE @])
           \/ /\ Step(r, [run[r] EXCEPT !.pc = "idle", !.status = "ended"])
              /\ UNCHANGED <<claim, evidence, finding>>
        /\ Use(r, Closed)
        /\ UNCHANGED <<text, maker, requeues>>

\* The process dies; the row stays in the stage it had.
Crash(r) ==
    /\ run[r].pc # "idle"
    /\ faults < MaxFaults /\ Room(session[r], 1)
    /\ faults' = faults + 1
    /\ GoTo(r, "idle")
    /\ Use(r, Closed)
    /\ UNCHANGED <<text, maker, claim, evidence, finding, requeues>>

-----------------------------------------------------------------------------
(* Requests beside the executions *)

\* A review of a run, in any status from the web form, or a new submission's retry.
Requeue(r) ==
    /\ run[r].pc = "idle"
    /\ run[r].status \notin {"QUEUED", "gone"}
    /\ requeues < MaxRequeues /\ Room(session[r], 1)
    /\ requeues' = requeues + 1
    /\ Step(r, [run[r] EXCEPT !.status = "QUEUED"])
    /\ UNCHANGED <<text, maker, claim, evidence, finding, session, faults>>

CancelQueued(r) ==
    /\ run[r].status = "QUEUED"
    /\ Step(r, [run[r] EXCEPT !.status = "ended"])
    /\ UNCHANGED <<text, maker, claim, evidence, finding, session, requeues, faults>>

\* retract_claim: its UPDATE waits for a session that has flushed one.
Retract(c) ==
    /\ c \in DOMAIN claim
    /\ \A r \in Runs : c \notin DOMAIN session[r].rows
    /\ claim' = [claim EXCEPT ![c].status = "RETRACTED"]
    /\ UNCHANGED <<text, maker, evidence, finding, run, session, requeues, faults>>

Terminal(r) == run[r].status \in {"COMPLETED", "ended"}

\* Days pass for a run that is over; only then does its age count.
Age(r) ==
    /\ Terminal(r)
    /\ run[r].age < 2
    /\ Step(r, [run[r] EXCEPT !.age = @ + 1])
    /\ UNCHANGED <<text, maker, claim, evidence, finding, session, requeues, faults>>

Expired == {r \in Runs : Terminal(r) /\ run[r].age = 2}
Aged == {r \in Runs : Terminal(r) /\ run[r].age = 1}

\* Mutant: as if the keys were not enforced.
NeverRefused(E) == FALSE

\* events and tasks refer to an executed run, documents to its sources; the purge
\* deletes none of them, so the database refuses to delete what they refer to.
Refused(E) == \E r \in E : run[r].executed

\* purge_expired_retention: the report directory of the first run that cannot be
\* deleted is gone when the statement fails and the whole transaction with it.
PurgeRefused(r) ==
    /\ Refused(Expired)
    /\ r \in Expired
    /\ run[r].executed
    /\ Step(r, [run[r] EXCEPT !.file = 0])
    /\ UNCHANGED <<text, maker, claim, evidence, finding, session, requeues, faults>>

\* The expired runs are deleted with what they made, the texts of the aged ones
\* are replaced, in one transaction.
Purge ==
    LET gone == Expired
        made == {d \in Docs : maker[d] \in gone}
    IN  /\ ~Refused(gone)
        /\ gone \cup Aged # {}
        /\ finding' = {f \in finding : f.run \notin gone}
        /\ evidence' = {e \in evidence : e.on.run \notin gone}
        /\ claim' = [c \in {k \in DOMAIN claim : k.run \notin gone} |-> claim[c]]
        /\ text' = [d \in Docs |->
              CASE d \in made -> "absent"
                [] maker[d] \in Aged -> "purged"
                [] OTHER -> text[d]]
        /\ maker' = [d \in Docs |-> IF d \in made THEN None ELSE maker[d]]
        /\ run' = [r \in Runs |->
              IF r \in gone THEN [run[r] EXCEPT !.status = "gone", !.file = 0] ELSE run[r]]
        /\ UNCHANGED <<session, requeues, faults>>

-----------------------------------------------------------------------------
Next ==
    \/ \E r \in Runs :
         \/ Start(r)
         \/ \E ds \in SUBSET Offers[r] : Retrieve(r, ds) \/ Extract(r, ds)
         \/ \E c \in session[r].list, d \in Offers[r], verdict \in Verdicts :
                  VerifyTarget(r, c, d, verdict)
         \/ RecordConflicts(r)
         \/ \E P \in SUBSET Conflicts(AtConflicts(r)), p \in Conflicts(AtConflicts(r)) :
              RefuseEvidence(r, P, p)
         \/ Replan(r)
         \/ \E findings \in Findings(r, session[r]) : Synthesize(r, findings)
         \/ SaveReport(r)
         \/ Decide(r)
         \/ Fail(r)
         \/ Crash(r)
         \/ Requeue(r)
         \/ CancelQueued(r)
         \/ Age(r)
         \/ PurgeRefused(r)
    \/ \E c \in DOMAIN claim : Retract(c)
    \/ Purge

Spec == Init /\ [][Next]_vars

=============================================================================
