---------------------------- MODULE RunLifecycle ----------------------------
(***************************************************************************)
(* The life of a research run: its row in research_runs, the worker        *)
(* processes that claim and execute it (intelx/orchestration/worker.py and *)
(* engine.py) and the HTTP requests that cancel or review it               *)
(* (api/v1/endpoints.py, api/v1/friday.py, api/router.py, web/routes.py).  *)
(*                                                                         *)
(* Every actor reads the row into its own SQLAlchemy session and later     *)
(* commits the columns that differ from what it read (see Flush), so a     *)
(* read and the write based on it are separate steps.  What happens between *)
(* two commits of one actor is one step.                                   *)
(***************************************************************************)
EXTENDS Integers, FiniteSets

CONSTANTS
    Runs,          \* run ids, numbered in creation order (created_at)
    Workers,       \* processes that execute runs
    Clis,          \* those of them that are CLI processes (never claim)
    Requests,      \* HTTP requests that cancel or review a run
    Kinds,         \* the request handlers that may be called
    Limit,         \* MAX_CONCURRENT_RUNS
    Urgency,       \* [Runs -> Nat], 0 = urgent, 1 = high, 2 = normal
    Scope,         \* [Runs -> {"empty", "standard", "deep"}], scope_json
    MaxFaults,     \* bound on crashes, shutdowns and database errors
    None

RequestKinds ==
    {"apiCancel", "webCancel", "fridayCancel", "apiReview", "webReview"}

ASSUME RunsAssumption == Runs \subseteq Nat /\ IsFiniteSet(Runs)
ASSUME ProcessAssumption == Clis \subseteq Workers
ASSUME KindsAssumption == Kinds \subseteq RequestKinds
ASSUME LimitAssumption == Limit \in Nat /\ MaxFaults \in Nat
ASSUME RunDataAssumption ==
    /\ Urgency \in [Runs -> 0 .. 2]
    /\ Scope \in [Runs -> {"empty", "standard", "deep"}]

-----------------------------------------------------------------------------
(* Statuses, outcomes and the contents of a row *)

Stages == {"PLANNING", "DISCOVERING", "RETRIEVING", "EXTRACTING",
           "VERIFYING", "ANALYZING", "SYNTHESIZING"}
Terminal == {"COMPLETED", "FAILED", "CANCELLED"}
Statuses == {"absent", "QUEUED", "REVIEW_REQUIRED"} \cup Stages \cup Terminal

\* The statuses a claim counts against MAX_CONCURRENT_RUNS.
ActiveStatuses == Stages \cup {"REVIEW_REQUIRED"}

\* "other" stands for every outcome of a completed run except ANSWERED.
Outcomes == {"none", "answered", "other", "failed", "cancelled"}

\* error_json; "failure" is the {"error", "type"} dictionary of a handler.
Errors == {"none", "cancel_requested", "budget_exceeded", "failure"}

\* decided: scope_json holds a review_decision.
Row == [status : Statuses, outcome : Outcomes, error : Errors, decided : BOOLEAN]

NoRow == [status |-> "absent", outcome |-> "none", error |-> "none", decided |-> FALSE]

ASSUME NoneAssumption ==
    /\ None \notin Runs
    /\ None \notin Statuses \cup Outcomes \cup Errors
    /\ None \notin BOOLEAN

ValidTransitions ==
    [s \in Statuses |->
        CASE s = "QUEUED"          -> {"PLANNING"}
          [] s = "PLANNING"        -> {"DISCOVERING"}
          [] s = "DISCOVERING"     -> {"RETRIEVING"}
          [] s = "RETRIEVING"      -> {"EXTRACTING"}
          [] s = "EXTRACTING"      -> {"VERIFYING"}
          [] s = "VERIFYING"       -> {"ANALYZING"}
          [] s = "ANALYZING"       -> {"SYNTHESIZING", "DISCOVERING"}
          [] s = "SYNTHESIZING"    -> {"COMPLETED", "REVIEW_REQUIRED"}
          [] s = "REVIEW_REQUIRED" -> {"SYNTHESIZING", "COMPLETED"}
          [] OTHER                 -> {}]

\* The stage that follows the gate after a stage ("QUEUED": the first gate).
Following ==
    [QUEUED |-> "PLANNING", PLANNING |-> "DISCOVERING", DISCOVERING |-> "RETRIEVING",
     RETRIEVING |-> "EXTRACTING", EXTRACTING |-> "VERIFYING", VERIFYING |-> "ANALYZING"]

-----------------------------------------------------------------------------
VARIABLES
    row,        \* [Runs -> Row], the committed rows
    worker,     \* [Workers -> Execution]
    request,    \* [Requests -> Request]
    faults,     \* faults injected so far
    claims,     \* claims[r]: how often a worker's claim of r committed
    requeues,   \* requeues[r]: how often a review put r back to QUEUED
    late        \* late[r]: cancel_requested committed after an executor's last gate

vars == <<row, worker, request, faults, claims, requeues, late>>
history == <<claims, requeues, late>>

(***************************************************************************)
(* Where a worker is.                                                      *)
(*   idle      polling          claimed   claim executed, not committed    *)
(*   load      claim committed  gate      in, or at the gate of, stage     *)
(*   advance   about to transition to stage                                *)
(*   critic    after ANALYZING's gate       conclude  after the last gate   *)
(*   paused    REVIEW_REQUIRED committed    dispatch  COMPLETED committed   *)
(*   settle, settle2  first and second write of the terminal state         *)
(*   report    terminal state committed, follow-up event pending           *)
(*   abandoned both settle writes failed    rescue  the worker's own handler *)
(*   resume, resumeSynth, resumeOutcome     the REVIEW_REQUIRED branch      *)
(***************************************************************************)
Pcs == {"idle", "claimed", "load", "gate", "advance", "critic", "conclude", "paused",
        "dispatch", "settle", "settle2", "report", "abandoned", "rescue",
        "resume", "resumeSynth", "resumeOutcome"}

Execution == [pc : Pcs, run : Runs \cup {None}, stage : {"QUEUED"} \cup Stages,
              seen : Row, replans : 0 .. 1, decided : BOOLEAN,
              exc : {"none", "cancelled", "budget", "failure"}]

Idle == [pc |-> "idle", run |-> None, stage |-> "QUEUED", seen |-> NoRow,
         replans |-> 0, decided |-> FALSE, exc |-> "none"]

\* The columns an UPDATE sets; None leaves a column as it is.
Update == [status : Statuses \cup {None}, outcome : Outcomes \cup {None},
           error : Errors \cup {None}, decided : BOOLEAN \cup {None}]

NoUpdate == [status |-> None, outcome |-> None, error |-> None, decided |-> None]

\* A request has not arrived ("new"), has read the row and assigned to its object
\* ("read") or is over.
Request == [pc : {"new", "read", "done"}, run : Runs \cup {None}, update : Update]

NewRequest == [pc |-> "new", run |-> None, update |-> NoUpdate]

TypeOK ==
    /\ row \in [Runs -> Row]
    /\ worker \in [Workers -> Execution]
    /\ request \in [Requests -> Request]
    /\ \A w \in Workers : worker[w].pc # "idle" => worker[w].run \in Runs
    /\ \A q \in Requests : request[q].pc = "read" => request[q].run \in Runs
    /\ faults \in 0 .. MaxFaults
    /\ claims \in [Runs -> Nat]
    /\ requeues \in [Runs -> Nat]
    /\ late \in [Runs -> BOOLEAN]

Init ==
    /\ row = [r \in Runs |-> NoRow]
    /\ worker = [w \in Workers |-> Idle]
    /\ request = [q \in Requests |-> NewRequest]
    /\ faults = 0
    /\ claims = [r \in Runs |-> 0]
    /\ requeues = [r \in Runs |-> 0]
    /\ late = [r \in Runs |-> FALSE]

-----------------------------------------------------------------------------
(* Sessions and row locks *)

\* A session writes the columns whose attributes differ from what it loaded.
Changes(seen, want) ==
    [status  |-> IF want.status  # seen.status  THEN want.status  ELSE None,
     outcome |-> IF want.outcome # seen.outcome THEN want.outcome ELSE None,
     error   |-> IF want.error   # seen.error   THEN want.error   ELSE None,
     decided |-> IF want.decided # seen.decided THEN want.decided ELSE None]

\* The committed row after the UPDATE u.
Apply(u, x) ==
    [status  |-> IF u.status  = None THEN x.status  ELSE u.status,
     outcome |-> IF u.outcome = None THEN x.outcome ELSE u.outcome,
     error   |-> IF u.error   = None THEN x.error   ELSE u.error,
     decided |-> IF u.decided = None THEN x.decided ELSE u.decided]

Flush(r, seen, want) == [row EXCEPT ![r] = Apply(Changes(seen, want), row[r])]

\* Mutant: claims take no row lock.
NeverLocked(r) == FALSE

\* An uncommitted claim holds the row lock; any other UPDATE of the row waits.
Locked(r) == \E w \in Workers : worker[w].pc = "claimed" /\ worker[w].run = r

Become(w, e) == worker' = [worker EXCEPT ![w] = e]

\* The execution after its session has read the row again.
Fresh(w) == [worker[w] EXCEPT !.seen = row[worker[w].run]]

\* What the session of w holds once it has set the status.
Saw(w, t) == [worker[w].seen EXCEPT !.status = t]

\* An exception reaches the handlers at the end of execute_run.
Throw(w, e, exc) == Become(w, [e EXCEPT !.exc = exc, !.pc = "settle"])

\* An executor of r that will read the row no more before it completes r.
PastLastGate(w, r) ==
    /\ worker[w].run = r
    /\ worker[w].pc \in {"conclude", "resume", "resumeSynth"}

-----------------------------------------------------------------------------
(* Submission and claim *)

\* RunRepo.create_run and its commit; ids follow created_at.
Create(r) ==
    /\ row[r].status = "absent"
    /\ \A s \in Runs : s < r => row[s].status # "absent"
    /\ row' = [row EXCEPT ![r].status = "QUEUED"]

Submit(r) ==
    /\ Create(r)
    /\ UNCHANGED <<worker, request, faults, history>>

\* The CLI commits a new standard run and executes it in its own process, unclaimed.
CliStart(w, r) ==
    /\ w \in Clis
    /\ Scope[r] = "standard"
    /\ worker[w].pc = "idle"
    /\ Create(r)
    /\ Become(w, [Idle EXCEPT !.pc = "load", !.run = r])
    /\ UNCHANGED <<request, faults, history>>

Active == {r \in Runs : row[r].status \in ActiveStatuses}

SlotFreeReserve == Cardinality(Active) < Limit - 1

\* The count of active runs sees committed rows only.
SlotFree == Cardinality(Active) < Limit

Before(r, s) ==
    \/ Urgency[r] < Urgency[s]
    \/ Urgency[r] = Urgency[s] /\ r < s

\* SKIP LOCKED: rows another claim holds are not candidates.
Candidates == {r \in Runs : row[r].status = "QUEUED" /\ ~Locked(r)}

\* get_or_claim_next_queued_job, not yet committed.
Claim(w, r) ==
    /\ w \notin Clis
    /\ worker[w].pc = "idle"
    /\ SlotFree
    /\ r \in Candidates
    /\ \A s \in Candidates \ {r} : Before(r, s)
    /\ Become(w, [Idle EXCEPT !.pc = "claimed", !.run = r])
    /\ UNCHANGED <<row, request, faults, history>>

\* run_once: the claim's own transaction commits.
ClaimCommit(w) ==
    LET r == worker[w].run IN
    /\ worker[w].pc = "claimed"
    /\ row' = [row EXCEPT ![r].status = "PLANNING"]
    /\ claims' = [claims EXCEPT ![r] = @ + 1]
    /\ Become(w, [worker[w] EXCEPT !.pc = "load"])
    /\ UNCHANGED <<request, faults, requeues, late>>

-----------------------------------------------------------------------------
(* execute_run *)

\* A second session loads the row and keeps its scope_json for the whole run.
Load(w) ==
    LET r == worker[w].run IN
    /\ worker[w].pc = "load"
    /\ Become(w, [Fresh(w) EXCEPT !.decided = row[r].decided,
                                 !.pc = IF row[r].status = "REVIEW_REQUIRED"
                                        THEN "resume" ELSE "gate"])
    /\ UNCHANGED <<row, request, faults, history>>

\* Mutant: the gate looks at the status only.
MustCancelByStatus(x) == x.status = "CANCELLED"

\* What _check_gates takes for a cancelled run.
MustCancel(x) == x.status = "CANCELLED" \/ x.error = "cancel_requested"

\* _check_gates: the run is cancelled.  The CANCELLED it flushes is committed by
\* the same transaction as, and so is part of, the settle step; that the flush makes
\* other updates of the row wait until then is abstracted from.
GateCancelled(w) ==
    LET r == worker[w].run IN
    /\ worker[w].pc = "gate"
    /\ MustCancel(row[r])
    /\ Throw(w, Fresh(w), "cancelled")
    /\ UNCHANGED <<row, request, faults, history>>

\* _check_gates: the cost reached the ceiling; FAILED is committed here.
GateBudget(w) ==
    LET r == worker[w].run
        failed == [row[r] EXCEPT !.status = "FAILED", !.outcome = "failed",
                                 !.error = "budget_exceeded"]
    IN
    /\ worker[w].pc = "gate"
    /\ ~MustCancel(row[r])
    /\ ~Locked(r)
    /\ row' = Flush(r, row[r], failed)
    /\ Throw(w, [worker[w] EXCEPT !.seen = failed], "budget")
    /\ UNCHANGED <<request, faults, history>>

\* _check_gates: the deadline passed.  As with a cancel, nothing is committed yet.
GateTimeout(w) ==
    LET r == worker[w].run IN
    /\ worker[w].pc = "gate"
    /\ ~MustCancel(row[r])
    /\ Throw(w, Fresh(w), "failure")
    /\ UNCHANGED <<row, request, faults, history>>

\* _check_gates returns the refreshed run and the DAG moves on.
GatePass(w) ==
    LET r == worker[w].run
        s == worker[w].stage
    IN
    /\ worker[w].pc = "gate"
    /\ ~MustCancel(row[r])
    /\ \/ /\ s = "ANALYZING"
          /\ Become(w, [Fresh(w) EXCEPT !.pc = "critic"])
       \/ /\ s = "SYNTHESIZING"
          /\ Become(w, [Fresh(w) EXCEPT !.pc = "conclude"])
       \/ /\ s \in DOMAIN Following
          /\ Become(w, [Fresh(w) EXCEPT !.pc = "advance", !.stage = Following[s]])
    /\ UNCHANGED <<row, request, faults, history>>

\* transition_state(w's run, t), by the status w last saw, when it is permitted.
Transition(w, t) ==
    LET r == worker[w].run
        seen == worker[w].seen
    IN
    /\ t = seen.status \/ t \in ValidTransitions[seen.status]
    /\ t # seen.status => ~Locked(r)
    /\ row' = Flush(r, seen, Saw(w, t))

Forbidden(w, t) ==
    LET s == worker[w].seen.status IN t # s /\ t \notin ValidTransitions[s]

Advance(w) ==
    LET t == worker[w].stage IN
    /\ worker[w].pc = "advance"
    /\ Transition(w, t)
    /\ Become(w, [worker[w] EXCEPT !.seen = Saw(w, t), !.pc = "gate"])
    /\ UNCHANGED <<request, faults, history>>

\* transition_state raises ValidationError.
AdvanceForbidden(w) ==
    /\ worker[w].pc = "advance"
    /\ Forbidden(w, worker[w].stage)
    /\ Throw(w, worker[w], "failure")
    /\ UNCHANGED <<row, request, faults, history>>

\* Mutant: the critic is asked again without limit.
ReplanUnbounded(w) ==
    /\ worker[w].pc = "critic"
    /\ Become(w, [worker[w] EXCEPT !.replans = @ + 1, !.stage = "DISCOVERING", !.pc = "advance"])
    /\ UNCHANGED <<row, request, faults, history>>

\* The critic asks for one more discovery pass, at most once per execution.
Replan(w) ==
    /\ worker[w].pc = "critic"
    /\ worker[w].replans < 1
    /\ Become(w, [worker[w] EXCEPT !.replans = @ + 1, !.stage = "DISCOVERING", !.pc = "advance"])
    /\ UNCHANGED <<row, request, faults, history>>

Accept(w) ==
    /\ worker[w].pc = "critic"
    /\ Become(w, [worker[w] EXCEPT !.stage = "SYNTHESIZING", !.pc = "advance"])
    /\ UNCHANGED <<row, request, faults, history>>

\* Disputed claims in a deep run without a decision in the scope loaded at the start.
Pause(w) ==
    /\ worker[w].pc = "conclude"
    /\ Scope[worker[w].run] = "deep"
    /\ ~worker[w].decided
    /\ Transition(w, "REVIEW_REQUIRED")
    /\ Become(w, [worker[w] EXCEPT !.seen = Saw(w, "REVIEW_REQUIRED"), !.pc = "paused"])
    /\ UNCHANGED <<request, faults, history>>

PauseForbidden(w) ==
    /\ worker[w].pc = "conclude"
    /\ Scope[worker[w].run] = "deep"
    /\ ~worker[w].decided
    /\ Forbidden(w, "REVIEW_REQUIRED")
    /\ Throw(w, worker[w], "failure")
    /\ UNCHANGED <<row, request, faults, history>>

\* emit_review_required and the worker's commit.
PauseDone(w) ==
    /\ worker[w].pc = "paused"
    /\ Become(w, Idle)
    /\ UNCHANGED <<row, request, faults, history>>

\* set_status(COMPLETED), unconditionally; answered runs are dispatched next.
Complete(w, o) ==
    LET r == worker[w].run
        seen == worker[w].seen
        done == [seen EXCEPT !.status = "COMPLETED", !.outcome = o]
    IN
    /\ worker[w].pc = "conclude"
    /\ ~Locked(r)
    /\ row' = Flush(r, seen, done)
    /\ Become(w, IF o = "answered"
                   THEN [worker[w] EXCEPT !.seen = done, !.pc = "dispatch"]
                   ELSE Idle)
    /\ UNCHANGED <<request, faults, history>>

DispatchDone(w) ==
    /\ worker[w].pc = "dispatch"
    /\ Become(w, Idle)
    /\ UNCHANGED <<row, request, faults, history>>

-----------------------------------------------------------------------------
(* The branch that resumes a run loaded as REVIEW_REQUIRED: no gates, and its
   exceptions reach the worker's own handler *)

ResumeStart(w) ==
    /\ worker[w].pc = "resume"
    /\ Transition(w, "SYNTHESIZING")
    /\ Become(w, [worker[w] EXCEPT !.seen = Saw(w, "SYNTHESIZING"), !.pc = "resumeSynth"])
    /\ UNCHANGED <<request, faults, history>>

ResumeComplete(w) ==
    /\ worker[w].pc = "resumeSynth"
    /\ Transition(w, "COMPLETED")
    /\ Become(w, [worker[w] EXCEPT !.seen = Saw(w, "COMPLETED"), !.pc = "resumeOutcome"])
    /\ UNCHANGED <<request, faults, history>>

\* The outcome is a second transaction, and nothing that follows it writes the row.
ResumeOutcome(w, o) ==
    LET r == worker[w].run
        seen == worker[w].seen
    IN
    /\ worker[w].pc = "resumeOutcome"
    /\ ~Locked(r)
    /\ row' = Flush(r, seen, [seen EXCEPT !.outcome = o])
    /\ Become(w, Idle)
    /\ UNCHANGED <<request, faults, history>>

-----------------------------------------------------------------------------
(* Failure handling *)

\* An exception in the try block of execute_run (a stage, an event, a commit).
Raise(w) ==
    /\ worker[w].pc \in {"gate", "advance", "critic", "conclude", "paused"}
    /\ Throw(w, worker[w], "failure")
    /\ UNCHANGED <<row, request, faults, history>>

\* Mutant: the handlers forget the outcome.
VerdictWithoutOutcome(w) ==
    IF worker[w].exc = "cancelled"
    THEN [worker[w].seen EXCEPT !.status = "CANCELLED"]
    ELSE [worker[w].seen EXCEPT !.status = "FAILED", !.error = "failure"]

\* What the handler of each exception asks _settle_terminal_state to write.
Verdict(w) ==
    IF worker[w].exc = "cancelled"
    THEN [worker[w].seen EXCEPT !.status = "CANCELLED", !.outcome = "cancelled"]
    ELSE [worker[w].seen EXCEPT !.status = "FAILED", !.outcome = "failed", !.error = "failure"]

\* Mutant: the verdict is flushed but never committed.
PersistUncommitted(w) == UNCHANGED row

\* A failure dictionary is written unless it equals the one loaded, text included.
Unlike(x) == [x EXCEPT !.error = "none"]

\* The set_status and commit of a verdict.
Persist(w) ==
    LET r == worker[w].run
        seen == worker[w].seen
    IN
    /\ ~Locked(r)
    /\ \/ row' = Flush(r, seen, Verdict(w))
       \/ /\ worker[w].exc # "cancelled"
          /\ row' = Flush(r, Unlike(seen), Verdict(w))

\* A budget failure returns at once, the other handlers emit an event first.
Settle(w) ==
    /\ worker[w].pc \in {"settle", "settle2"}
    /\ Persist(w)
    /\ Become(w, IF worker[w].exc = "budget" THEN Idle
                 ELSE [worker[w] EXCEPT !.seen = Verdict(w), !.pc = "report"])
    /\ UNCHANGED <<request, faults, history>>

\* The first write fails: rollback, and the object is loaded again.
SettleRetry(w) ==
    /\ worker[w].pc = "settle"
    /\ faults < MaxFaults
    /\ faults' = faults + 1
    /\ Become(w, [Fresh(w) EXCEPT !.pc = "settle2"])
    /\ UNCHANGED <<row, request, history>>

\* The second write fails too: the run stays as it is.
SettleGiveUp(w) ==
    /\ worker[w].pc = "settle2"
    /\ faults < MaxFaults
    /\ faults' = faults + 1
    /\ Become(w, [worker[w] EXCEPT !.pc = "abandoned"])
    /\ UNCHANGED <<row, request, history>>

\* execute_run returns and the worker's last commit succeeds.
Return(w) ==
    /\ worker[w].pc \in {"report", "abandoned"}
    /\ Become(w, Idle)
    /\ UNCHANGED <<row, request, faults, history>>

\* An exception leaves execute_run; run_once rolls back and loads the row again.
\* A CLI has no such handler.
Escape(w) ==
    LET r == worker[w].run IN
    /\ worker[w].pc \in {"load", "report", "abandoned", "resume", "resumeSynth", "resumeOutcome"}
    /\ faults < MaxFaults
    /\ faults' = faults + 1
    /\ Become(w, IF w \in Clis THEN Idle
                 ELSE [Fresh(w) EXCEPT !.exc = "failure", !.pc = "rescue"])
    /\ UNCHANGED <<row, request, history>>

\* run_once marks the run FAILED itself.
Rescue(w) ==
    /\ worker[w].pc = "rescue"
    /\ Persist(w)
    /\ Become(w, Idle)
    /\ UNCHANGED <<request, faults, history>>

\* The process dies, or the write of Rescue fails and the loop goes on: what
\* was not committed is gone, and nothing remembers the run.
Crash(w) ==
    /\ worker[w].pc # "idle"
    /\ faults < MaxFaults
    /\ faults' = faults + 1
    /\ Become(w, Idle)
    /\ UNCHANGED <<row, request, history>>

\* The application shuts down: the task is cancelled at an await inside the try
\* block.  (Anywhere else the CancelledError has the effect of Crash.)
Shutdown(w) ==
    /\ w \notin Clis
    /\ worker[w].pc \in {"gate", "advance", "critic", "conclude", "paused", "dispatch"}
    /\ faults < MaxFaults
    /\ faults' = faults + 1
    /\ Throw(w, worker[w], "cancelled")
    /\ UNCHANGED <<row, request, history>>

-----------------------------------------------------------------------------
(* Cancel and review requests *)

\* What each handler checks on the row it read.
Accepts(kind, x) ==
    CASE kind \in {"apiCancel", "webCancel", "fridayCancel"} -> x.status \notin Terminal
      [] kind = "apiReview" -> x.status = "REVIEW_REQUIRED"
      [] kind = "webReview" -> TRUE

\* A review assigns the decision into scope_json in place, which the session
\* notices only when `scope_json or {}` made a new dictionary.
Requeued(r, x) ==
    [x EXCEPT !.status = "QUEUED", !.decided = @ \/ Scope[r] = "empty"]

\* The attributes the handler's object has once it has assigned to it.
Wanted(kind, r, x) ==
    CASE kind = "apiCancel"    -> [x EXCEPT !.status = "CANCELLED", !.error = "cancel_requested"]
      [] kind = "webCancel"    -> [x EXCEPT !.status = "CANCELLED"]
      [] kind = "fridayCancel" -> [x EXCEPT !.status = "CANCELLED", !.outcome = "cancelled"]
      [] kind = "apiReview"    -> Requeued(r, x)
      [] kind = "webReview"    -> Requeued(r, x)

Receive(q, kind, r) ==
    /\ request[q].pc = "new"
    /\ row[r].status # "absent"
    /\ Accepts(kind, row[r])
    /\ request' = [request EXCEPT ![q] =
                     [pc |-> "read", run |-> r,
                      update |-> Changes(row[r], Wanted(kind, r, row[r]))]]
    /\ UNCHANGED <<row, worker, faults, history>>

Commit(q) ==
    LET r == request[q].run
        u == request[q].update
    IN
    /\ request[q].pc = "read"
    /\ ~Locked(r)
    /\ row' = [row EXCEPT ![r] = Apply(u, @)]
    /\ request' = [request EXCEPT ![q] = [NewRequest EXCEPT !.pc = "done"]]
    /\ requeues' = [requeues EXCEPT ![r] = IF u.status = "QUEUED" THEN @ + 1 ELSE @]
    /\ late' = [late EXCEPT ![r] =
                   @ \/ (u.error # None /\ \E w \in Workers : PastLastGate(w, r))]
    /\ UNCHANGED <<worker, faults, claims>>

-----------------------------------------------------------------------------
\* One step of a worker that needs no fault.
Step(w) ==
    \/ ClaimCommit(w) \/ Load(w)
    \/ GateCancelled(w) \/ GateBudget(w) \/ GateTimeout(w) \/ GatePass(w)
    \/ Advance(w) \/ AdvanceForbidden(w) \/ Replan(w) \/ Accept(w)
    \/ Pause(w) \/ PauseForbidden(w) \/ PauseDone(w)
    \/ \E o \in {"answered", "other"} : Complete(w, o) \/ ResumeOutcome(w, o)
    \/ DispatchDone(w) \/ ResumeStart(w) \/ ResumeComplete(w)
    \/ Raise(w) \/ Settle(w) \/ Return(w) \/ Rescue(w)

Fault(w) ==
    SettleRetry(w) \/ SettleGiveUp(w) \/ Escape(w) \/ Crash(w) \/ Shutdown(w)

Next ==
    \/ \E r \in Runs : Submit(r)
    \/ \E w \in Workers, r \in Runs : CliStart(w, r) \/ Claim(w, r)
    \/ \E w \in Workers : Step(w) \/ Fault(w)
    \/ \E q \in Requests, kind \in Kinds, r \in Runs : Receive(q, kind, r)
    \/ \E q \in Requests : Commit(q)

Spec == Init /\ [][Next]_vars
=============================================================================
