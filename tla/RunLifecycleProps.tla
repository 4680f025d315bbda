------------------------- MODULE RunLifecycleProps -------------------------
(***************************************************************************)
(* What the life of a research run promises, and what it does not.         *)
(***************************************************************************)
EXTENDS RunLifecycle

Executors(r) == {w \in Workers : worker[w].run = r}

(***************************************************************************)
(* Safety                                                                  *)
(***************************************************************************)

\* A run is claimed at most once, and once more for each time a review put it
\* back into the queue: two pollers never both commit a claim of one queueing
\* (RunRepo.get_or_claim_next_queued_job).
ClaimedOncePerQueueing ==
    \A r \in Runs : claims[r] <= 1 + requeues[r]

\* Two workers are inside the same run only if a review requeued it while one of
\* them was still there (worker.run_once against the review handlers).
SharedOnlyAfterRequeue ==
    \A r \in Runs : \A v, w \in Executors(r) \ Clis : v # w => requeues[r] > 0

\* A cancellation that left cancel_requested in error_json is final: the run is
\* completed or parked for review regardless only if the request committed after
\* an executor's last _check_gates.
CancelFlagHonoured ==
    \A r \in Runs :
        /\ row[r].error = "cancel_requested"
        /\ row[r].status \in {"COMPLETED", "REVIEW_REQUIRED"}
        => late[r]

\* Status and outcome are separate columns written by several sessions, yet for a
\* run that no CLI executes and that was never requeued COMPLETED always carries an
\* outcome of the synthesis, and FAILED never does and always has error_json set.
OutcomeAgrees ==
    \A r \in Runs : requeues[r] = 0 =>
        /\ row[r].status = "COMPLETED" => row[r].outcome \in {"answered", "other"}
        /\ row[r].status = "FAILED" =>
              row[r].outcome \in {"failed", "cancelled"} /\ row[r].error # "none"

\* A finished run that no CLI executes starts over only through a review: without
\* one, COMPLETED and FAILED rows can only be relabelled FAILED or CANCELLED.
FinishedNeverRestarts ==
    [][\A r \in Runs :
          row[r].status \in {"COMPLETED", "FAILED"} /\ requeues'[r] = 0
          => row'[r].status \in Terminal]_vars

(***************************************************************************)
(* Why the claim and cancel invariants hold: inductive strengthenings,     *)
(* proved in RunLifecycleProofs                                            *)
(***************************************************************************)

\* A worker that got past its claim.
Executing(w) == w \notin Clis /\ worker[w].pc \notin {"idle", "claimed"}

\* A row in the queue is not paid for by a claim yet, an uncommitted claim is of a
\* row in the queue and is the only one, an executing worker has committed one.
ClaimInv ==
    /\ ClaimedOncePerQueueing
    /\ SharedOnlyAfterRequeue
    /\ \A r \in Runs : row[r].status = "QUEUED" => claims[r] <= requeues[r]
    /\ \A r \in Runs : row[r].status = "absent" => claims[r] = 0
    /\ \A w \in Workers :
         /\ worker[w].pc = "claimed" =>
              row[worker[w].run].status = "QUEUED" /\ w \notin Clis
         /\ worker[w].pc = "idle" => worker[w].run = None
         /\ worker[w].pc = "advance" => worker[w].stage # "QUEUED"
         /\ Executing(w) => claims[worker[w].run] >= 1
    /\ \A v, w \in Workers :
         /\ worker[v].pc = "claimed"
         /\ worker[w].pc = "claimed"
         /\ v # w
         => worker[v].run # worker[w].run
    /\ \A q \in Requests : request[q].update.status \in {None, "CANCELLED", "QUEUED"}

\* Whoever is past the last gate of a flagged run got there before the flag, and
\* only a request that also cancels the row sets the flag.
CancelInv ==
    /\ CancelFlagHonoured
    /\ \A r \in Runs, w \in Workers :
         row[r].error = "cancel_requested" /\ PastLastGate(w, r) => late[r]
    /\ \A q \in Requests :
         /\ request[q].update.status \in {None, "CANCELLED", "QUEUED"}
         /\ request[q].update.error \in {None, "cancel_requested"}
         /\ request[q].update.error # None => request[q].update.status = "CANCELLED"

(***************************************************************************)
(* Liveness: workers keep stepping, requests and submissions need not come *)
(***************************************************************************)

Fairness ==
    \A w \in Workers :
        /\ WF_vars(Step(w))
        /\ WF_vars(\E r \in Runs : Claim(w, r))

FairSpec == Spec /\ Fairness

\* Without a crash or a failing database no run stays inside the pipeline: it is
\* completed, failed, cancelled, parked for review or back in the queue.
NoRunStuck ==
    \A r \in Runs : row[r].status \in Stages ~> row[r].status \notin Stages

\* A queued run leaves the queue unless runs that wait for a human review fill
\* every slot.
QueueProgress ==
    \A r \in Runs :
        row[r].status = "QUEUED" ~>
            \/ row[r].status # "QUEUED"
            \/ Cardinality({s \in Runs : row[s].status = "REVIEW_REQUIRED"}) >= Limit

(***************************************************************************)
(* What the documentation says and the code does not do                    *)
(***************************************************************************)

\* "Post human review decision and resume paused run": once a decision for a run
\* awaiting review is recorded the run does not come back to await one.
ReviewedOnce ==
    \A r \in Runs : requeues[r] > 0 => row[r].status # "REVIEW_REQUIRED"
=============================================================================
