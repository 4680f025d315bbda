------------------------- MODULE RunLifecycleProofs -------------------------
(***************************************************************************)
(* Proofs, for every number of runs, workers, requests and faults, that    *)
(* RunLifecycle is type correct, that a run is claimed once per queueing,  *)
(* that a flagged cancellation is honoured, and, as long as no review      *)
(* requeued it and no CLI executes runs, that the status and the outcome   *)
(* of a run agree and that a finished run does not start over.             *)
(***************************************************************************)
EXTENDS RunLifecycleProps, TLAPS

USE NoneAssumption

\* A flush writes a row of the right type and leaves the other rows alone.
LEMMA FlushType ==
    ASSUME row \in [Runs -> Row], NEW r \in Runs, NEW seen \in Row, NEW want \in Row
    PROVE  Flush(r, seen, want) \in [Runs -> Row]
  <1>1. Apply(Changes(seen, want), row[r]) \in Row
    BY DEF Apply, Changes, Row
  <1>2. QED
    BY <1>1 DEF Flush

LEMMA ApplyType ==
    ASSUME NEW u \in Update, NEW x \in Row
    PROVE  Apply(u, x) \in Row
  BY DEF Apply, Update, Row

LEMMA ChangesType ==
    ASSUME NEW x \in Row, NEW y \in Row
    PROVE  Changes(x, y) \in Update
  BY DEF Changes, Update, Row

-----------------------------------------------------------------------------
(* Type correctness *)

\* The state a worker may move to.
Good(e) == e \in Execution /\ (e.pc # "idle" => e.run \in Runs)

LEMMA BecomeType ==
    ASSUME TypeOK, NEW w \in Workers, NEW e, Good(e), Become(w, e)
    PROVE  /\ worker' \in [Workers -> Execution]
           /\ \A v \in Workers : worker'[v].pc # "idle" => worker'[v].run \in Runs
  BY DEF TypeOK, Good, Become

LEMMA IdleGood == Good(Idle)
  BY DEF Good, Idle, Execution, Pcs, Row, NoRow, Statuses, Stages, Outcomes, Errors

\* Updating a row or an execution field by field keeps its type.
LEMMA RowUpdate ==
    ASSUME NEW x \in Row, NEW t \in Statuses, NEW o \in Outcomes, NEW e \in Errors
    PROVE  /\ [x EXCEPT !.status = t] \in Row
           /\ [x EXCEPT !.outcome = o] \in Row
           /\ [x EXCEPT !.error = e] \in Row
           /\ [x EXCEPT !.status = t, !.outcome = o] \in Row
           /\ [x EXCEPT !.status = t, !.error = e] \in Row
           /\ [x EXCEPT !.status = t, !.outcome = o, !.error = e] \in Row
  BY DEF Row

LEMMA ExecutionUpdate ==
    ASSUME NEW e \in Execution, NEW x \in Row, NEW pc \in Pcs
    PROVE  /\ [e EXCEPT !.seen = x] \in Execution
           /\ [e EXCEPT !.seen = x, !.pc = pc] \in Execution
           /\ [e EXCEPT !.pc = pc] \in Execution
           /\ [e EXCEPT !.seen = x].run = e.run
           /\ [e EXCEPT !.seen = x, !.pc = pc].run = e.run
           /\ [e EXCEPT !.pc = pc].run = e.run
  BY DEF Execution

LEMMA StatusTypes ==
    /\ {"QUEUED", "PLANNING", "FAILED", "CANCELLED", "COMPLETED", "REVIEW_REQUIRED",
        "SYNTHESIZING"} \subseteq Statuses
    /\ Stages \subseteq Statuses
    /\ {"failed", "cancelled", "answered", "other"} \subseteq Outcomes
    /\ {"none", "failure", "budget_exceeded", "cancel_requested"} \subseteq Errors
  BY DEF Statuses, Stages, Terminal, Outcomes, Errors

\* What is known of a worker that executes a run.
LEMMA Busy ==
    ASSUME TypeOK, NEW w \in Workers, worker[w].pc # "idle"
    PROVE  /\ worker[w] \in Execution
           /\ worker[w].seen \in Row
           /\ worker[w].run \in Runs
           /\ row[worker[w].run] \in Row
           /\ \A t \in Statuses : Saw(w, t) \in Row
           /\ Verdict(w) \in Row
           /\ Fresh(w) \in Execution
           /\ Fresh(w).run = worker[w].run
  <1>1. /\ worker[w] \in Execution
        /\ worker[w].run \in Runs
        /\ row[worker[w].run] \in Row
    BY DEF TypeOK
  <1>2. worker[w].seen \in Row
    BY <1>1 DEF Execution
  <1>3. \A t \in Statuses : Saw(w, t) \in Row
    BY <1>2, RowUpdate, StatusTypes DEF Saw
  <1>4. Verdict(w) \in Row
    BY <1>2, RowUpdate, StatusTypes DEF Verdict
  <1>5. Fresh(w) \in Execution /\ Fresh(w).run = worker[w].run
    BY <1>1, ExecutionUpdate DEF Fresh, Pcs
  <1>6. QED
    BY <1>1, <1>2, <1>3, <1>4, <1>5

LEMMA ThrowType ==
    ASSUME TypeOK, NEW w \in Workers, NEW e \in Execution, e.run \in Runs,
           NEW exc \in {"cancelled", "budget", "failure"}, Throw(w, e, exc)
    PROVE  /\ worker' \in [Workers -> Execution]
           /\ \A v \in Workers : worker'[v].pc # "idle" => worker'[v].run \in Runs
  <1>1. Good([e EXCEPT !.exc = exc, !.pc = "settle"])
    BY DEF Good, Execution, Pcs
  <1>2. QED
    BY <1>1, BecomeType DEF Throw

LEMMA TransitionType ==
    ASSUME TypeOK, NEW w \in Workers, worker[w].pc # "idle", NEW t \in Statuses,
           Transition(w, t)
    PROVE  row' \in [Runs -> Row]
  BY Busy, FlushType DEF Transition, TypeOK

LEMMA PersistType ==
    ASSUME TypeOK, NEW w \in Workers, worker[w].pc # "idle", Persist(w)
    PROVE  row' \in [Runs -> Row]
  <1>1. Unlike(worker[w].seen) \in Row
    <2>1. \A x \in Row : Unlike(x) \in Row
      BY RowUpdate, StatusTypes DEF Unlike
    <2>2. QED
      BY <2>1, Busy
  <1>2. QED
    BY <1>1, Busy, FlushType DEF Persist, TypeOK

\* What is left of TypeOK once row, worker and request are known to be typed.
RowsTyped == row \in [Runs -> Row]
WorkersTyped ==
    /\ worker \in [Workers -> Execution]
    /\ \A w \in Workers : worker[w].pc # "idle" => worker[w].run \in Runs
RequestsTyped ==
    /\ request \in [Requests -> Request]
    /\ \A q \in Requests : request[q].pc = "read" => request[q].run \in Runs

\* A step of a worker that only moves the worker.
LEMMA MoveType ==
    ASSUME TypeOK, NEW w \in Workers, NEW e, Good(e), Become(w, e), UNCHANGED row
    PROVE  RowsTyped' /\ WorkersTyped'
  BY BecomeType DEF RowsTyped, WorkersTyped, TypeOK

\* Every step of a worker keeps rows and workers typed; the rest is by inspection.
LEMMA StepType ==
    ASSUME TypeOK, NEW w \in Workers, Step(w)
    PROVE  RowsTyped' /\ WorkersTyped'
  <1> DEFINE r == worker[w].run
  <1>a. worker[w].pc # "idle"
    BY DEF Step, ClaimCommit, Load, GateCancelled, GateBudget, GateTimeout, GatePass,
           Advance, AdvanceForbidden, Replan, Accept, Pause, PauseForbidden, PauseDone,
           Complete, ResumeOutcome, DispatchDone, ResumeStart, ResumeComplete, Raise,
           Settle, Return, Rescue
  <1>b. /\ worker[w] \in Execution /\ worker[w].seen \in Row /\ r \in Runs
        /\ row \in [Runs -> Row] /\ row[r] \in Row
        /\ Fresh(w) \in Execution /\ Fresh(w).run = r
        /\ Verdict(w) \in Row
        /\ \A t \in Statuses : Saw(w, t) \in Row
    BY <1>a, Busy DEF TypeOK
  <1>c. ASSUME NEW x \in Row, NEW pc \in Pcs
        PROVE  Good([worker[w] EXCEPT !.seen = x, !.pc = pc]) /\ Good([worker[w] EXCEPT !.pc = pc])
    BY <1>b DEF Good, Execution
  <1>d. Good(Idle)
    BY IdleGood
  <1>1. CASE ClaimCommit(w)
    <2>1. row' \in [Runs -> Row]
      <3>1. [row[r] EXCEPT !.status = "PLANNING"] \in Row
        BY <1>b, RowUpdate, StatusTypes
      <3>2. QED
        BY <3>1, <1>1, <1>b DEF ClaimCommit
    <2>2. Good([worker[w] EXCEPT !.pc = "load"])
      BY <1>b, <1>c DEF Pcs
    <2>3. QED
      BY <2>1, <2>2, <1>1, BecomeType DEF ClaimCommit, RowsTyped, WorkersTyped
  <1>2. CASE Load(w)
    <2>1. row[r].decided \in BOOLEAN
      BY <1>b DEF Row
    <2>2. \A d \in BOOLEAN, pc \in Pcs : Good([Fresh(w) EXCEPT !.decided = d, !.pc = pc])
      BY <1>b DEF Good, Execution
    <2>3. Good([Fresh(w) EXCEPT !.decided = row[r].decided,
                               !.pc = IF row[r].status = "REVIEW_REQUIRED"
                                      THEN "resume" ELSE "gate"])
      BY <2>1, <2>2 DEF Pcs
    <2>4. QED
      BY <2>3, <1>2, MoveType DEF Load
  <1>3. CASE GateCancelled(w)
    BY <1>3, <1>b, ThrowType DEF GateCancelled, RowsTyped, WorkersTyped
  <1>4. CASE GateBudget(w)
    <2> DEFINE failed == [row[r] EXCEPT !.status = "FAILED", !.outcome = "failed",
                                       !.error = "budget_exceeded"]
    <2>1. failed \in Row
      BY <1>b, RowUpdate, StatusTypes
    <2>2. row' = Flush(r, row[r], failed) /\ Throw(w, [worker[w] EXCEPT !.seen = failed], "budget")
      BY <1>4 DEF GateBudget
    <2>3. /\ [worker[w] EXCEPT !.seen = failed] \in Execution
          /\ [worker[w] EXCEPT !.seen = failed].run \in Runs
      <3> HIDE DEF failed
      <3>1. QED
        BY <2>1, <1>b DEF Execution
    <2> HIDE DEF failed
    <2>4. QED
      BY <2>1, <2>2, <2>3, <1>b, FlushType, ThrowType DEF RowsTyped, WorkersTyped
  <1>5. CASE GateTimeout(w)
    BY <1>5, <1>b, ThrowType DEF GateTimeout, RowsTyped, WorkersTyped
  <1>6. CASE GatePass(w)
    <2>1. \A pc \in Pcs : Good([Fresh(w) EXCEPT !.pc = pc])
      BY <1>b, ExecutionUpdate DEF Good
    <2>2. \A s \in DOMAIN Following : Good([Fresh(w) EXCEPT !.pc = "advance", !.stage = Following[s]])
      <3>1. \A s \in DOMAIN Following : Following[s] \in Stages
        BY DEF Following, Stages
      <3>2. \A t \in Stages : Good([Fresh(w) EXCEPT !.pc = "advance", !.stage = t])
        BY <1>b DEF Good, Execution, Pcs
      <3>3. QED
        BY <3>1, <3>2
    <2>3. QED
      BY <2>1, <2>2, <1>6, MoveType DEF GatePass, Pcs
  <1>7. CASE Advance(w)
    <2>1. worker[w].stage \in Statuses
      BY <1>b, StatusTypes DEF Execution
    <2>2. Good([worker[w] EXCEPT !.seen = Saw(w, worker[w].stage), !.pc = "gate"])
      BY <2>1, <1>b, <1>c DEF Pcs
    <2>3. QED
      BY <2>1, <2>2, <1>7, <1>a, TransitionType, BecomeType DEF Advance, RowsTyped, WorkersTyped
  <1>8. CASE AdvanceForbidden(w)
    BY <1>8, <1>b, ThrowType DEF AdvanceForbidden, RowsTyped, WorkersTyped
  <1>9. CASE Replan(w)
    <2>1. Good([worker[w] EXCEPT !.replans = @ + 1, !.stage = "DISCOVERING", !.pc = "advance"])
      <3>1. worker[w].replans + 1 \in 0 .. 1
        BY <1>9, <1>b DEF Replan, Execution
      <3>2. \A n \in 0 .. 1 :
              Good([worker[w] EXCEPT !.replans = n, !.stage = "DISCOVERING", !.pc = "advance"])
        BY <1>b DEF Good, Execution, Pcs, Stages
      <3>3. QED
        BY <3>1, <3>2
    <2>2. QED
      BY <2>1, <1>9, MoveType DEF Replan
  <1>10. CASE Accept(w)
    <2>1. Good([worker[w] EXCEPT !.stage = "SYNTHESIZING", !.pc = "advance"])
      BY <1>b DEF Good, Execution, Pcs, Stages
    <2>2. QED
      BY <2>1, <1>10, MoveType DEF Accept
  <1>11. CASE Pause(w)
    <2>1. Good([worker[w] EXCEPT !.seen = Saw(w, "REVIEW_REQUIRED"), !.pc = "paused"])
      BY <1>b, <1>c, StatusTypes DEF Pcs
    <2>2. QED
      BY <2>1, <1>11, <1>a, TransitionType, BecomeType, StatusTypes
      DEF Pause, RowsTyped, WorkersTyped
  <1>12. CASE PauseForbidden(w)
    BY <1>12, <1>b, ThrowType DEF PauseForbidden, RowsTyped, WorkersTyped
  <1>13. CASE PauseDone(w) \/ DispatchDone(w) \/ Return(w)
    BY <1>13, <1>d, MoveType DEF PauseDone, DispatchDone, Return
  <1>14. ASSUME NEW o \in {"answered", "other"}, Complete(w, o)
         PROVE  RowsTyped' /\ WorkersTyped'
    <2> DEFINE done == [worker[w].seen EXCEPT !.status = "COMPLETED", !.outcome = o]
    <2>1. done \in Row
      BY <1>b, RowUpdate, StatusTypes
    <2>2. Good([worker[w] EXCEPT !.seen = done, !.pc = "dispatch"])
      BY <2>1, <1>c DEF Pcs
    <2>3. /\ row' = Flush(r, worker[w].seen, done)
          /\ \/ Become(w, [worker[w] EXCEPT !.seen = done, !.pc = "dispatch"])
             \/ Become(w, Idle)
      BY <1>14 DEF Complete
    <2> HIDE DEF done
    <2>4. QED
      BY <2>1, <2>2, <2>3, <1>b, <1>d, FlushType, BecomeType DEF RowsTyped, WorkersTyped
  <1>15. ASSUME NEW o \in {"answered", "other"}, ResumeOutcome(w, o)
         PROVE  RowsTyped' /\ WorkersTyped'
    <2> DEFINE done == [worker[w].seen EXCEPT !.outcome = o]
    <2>1. done \in Row
      BY <1>b, RowUpdate, StatusTypes
    <2>2. row' = Flush(r, worker[w].seen, done) /\ Become(w, Idle)
      BY <1>15 DEF ResumeOutcome
    <2> HIDE DEF done
    <2>3. QED
      BY <2>1, <2>2, <1>b, <1>d, FlushType, BecomeType DEF RowsTyped, WorkersTyped
  <1>16. CASE ResumeStart(w)
    <2>1. Good([worker[w] EXCEPT !.seen = Saw(w, "SYNTHESIZING"), !.pc = "resumeSynth"])
      BY <1>b, <1>c, StatusTypes DEF Pcs
    <2>2. QED
      BY <2>1, <1>16, <1>a, TransitionType, BecomeType, StatusTypes
      DEF ResumeStart, RowsTyped, WorkersTyped
  <1>17. CASE ResumeComplete(w)
    <2>1. Good([worker[w] EXCEPT !.seen = Saw(w, "COMPLETED"), !.pc = "resumeOutcome"])
      BY <1>b, <1>c, StatusTypes DEF Pcs
    <2>2. QED
      BY <2>1, <1>17, <1>a, TransitionType, BecomeType, StatusTypes
      DEF ResumeComplete, RowsTyped, WorkersTyped
  <1>18. CASE Raise(w)
    BY <1>18, <1>b, ThrowType DEF Raise, RowsTyped, WorkersTyped
  <1>19. CASE Settle(w)
    <2>1. Good([worker[w] EXCEPT !.seen = Verdict(w), !.pc = "report"])
      BY <1>b, <1>c DEF Pcs
    <2>2. QED
      BY <2>1, <1>19, <1>a, <1>d, PersistType, BecomeType DEF Settle, RowsTyped, WorkersTyped
  <1>20. CASE Rescue(w)
    BY <1>20, <1>a, <1>d, PersistType, BecomeType DEF Rescue, RowsTyped, WorkersTyped
  <1>21. QED
    BY <1>1, <1>2, <1>3, <1>4, <1>5, <1>6, <1>7, <1>8, <1>9, <1>10, <1>11, <1>12, <1>13,
       <1>14, <1>15, <1>16, <1>17, <1>18, <1>19, <1>20 DEF Step

\* Faults move a worker and write no row.
LEMMA FaultType ==
    ASSUME TypeOK, NEW w \in Workers, Fault(w)
    PROVE  RowsTyped' /\ WorkersTyped' /\ faults' \in 0 .. MaxFaults
  <1>a. worker[w].pc # "idle"
    BY DEF Fault, SettleRetry, SettleGiveUp, Escape, Crash, Shutdown
  <1>b. /\ worker[w] \in Execution /\ worker[w].run \in Runs
        /\ Fresh(w) \in Execution /\ Fresh(w).run = worker[w].run
    BY <1>a, Busy
  <1>c. faults' \in 0 .. MaxFaults /\ UNCHANGED row
    BY LimitAssumption DEF TypeOK, Fault, SettleRetry, SettleGiveUp, Escape, Crash, Shutdown
  <1>1. CASE SettleRetry(w)
    <2>1. Good([Fresh(w) EXCEPT !.pc = "settle2"])
      BY <1>b DEF Good, Execution, Pcs
    <2>2. QED
      BY <2>1, <1>1, <1>c, MoveType DEF SettleRetry
  <1>2. CASE SettleGiveUp(w)
    <2>1. Good([worker[w] EXCEPT !.pc = "abandoned"])
      BY <1>b DEF Good, Execution, Pcs
    <2>2. QED
      BY <2>1, <1>2, <1>c, MoveType DEF SettleGiveUp
  <1>3. CASE Escape(w)
    <2>1. Good([Fresh(w) EXCEPT !.exc = "failure", !.pc = "rescue"])
      BY <1>b DEF Good, Execution, Pcs
    <2>2. QED
      BY <2>1, <1>3, <1>c, IdleGood, MoveType DEF Escape
  <1>4. CASE Crash(w)
    BY <1>4, <1>c, IdleGood, MoveType DEF Crash
  <1>5. CASE Shutdown(w)
    BY <1>5, <1>b, <1>c, ThrowType DEF Shutdown, RowsTyped, WorkersTyped, TypeOK
  <1>6. QED
    BY <1>1, <1>2, <1>3, <1>4, <1>5, <1>c DEF Fault

LEMMA CreateType ==
    ASSUME TypeOK, NEW r \in Runs, Create(r)
    PROVE  RowsTyped'
  <1>1. [row[r] EXCEPT !.status = "QUEUED"] \in Row
    BY RowUpdate, StatusTypes DEF TypeOK
  <1>2. QED
    BY <1>1 DEF Create, TypeOK, RowsTyped

LEMMA CliStartType ==
    ASSUME TypeOK, NEW w \in Workers, NEW r \in Runs, CliStart(w, r)
    PROVE  RowsTyped' /\ WorkersTyped'
  <1>1. Good([Idle EXCEPT !.pc = "load", !.run = r])
    BY IdleGood DEF Good, Execution, Pcs
  <1>2. QED
    BY <1>1, CreateType, BecomeType DEF CliStart, WorkersTyped

LEMMA ClaimType ==
    ASSUME TypeOK, NEW w \in Workers, NEW r \in Runs, Claim(w, r)
    PROVE  RowsTyped' /\ WorkersTyped'
  <1>1. Good([Idle EXCEPT !.pc = "claimed", !.run = r])
    BY IdleGood DEF Good, Execution, Pcs
  <1>2. QED
    BY <1>1, MoveType DEF Claim

\* What a request wants is a row.
LEMMA WantedType ==
    ASSUME NEW kind \in RequestKinds, NEW r \in Runs, NEW x \in Row
    PROVE  Wanted(kind, r, x) \in Row
  BY DEF Wanted, Requeued, RequestKinds, Row, Statuses, Terminal, Outcomes, Errors

LEMMA RequestType ==
    ASSUME TypeOK, NEW q \in Requests,
           (\E kind \in Kinds, r \in Runs : Receive(q, kind, r)) \/ Commit(q)
    PROVE  RowsTyped' /\ RequestsTyped'
  <1>1. ASSUME NEW kind \in Kinds, NEW r \in Runs, Receive(q, kind, r)
        PROVE  RowsTyped' /\ RequestsTyped'
    <2> DEFINE u == Changes(row[r], Wanted(kind, r, row[r]))
    <2>1. u \in Update
      BY WantedType, ChangesType, KindsAssumption DEF TypeOK
    <2>2. request' = [request EXCEPT ![q] = [pc |-> "read", run |-> r, update |-> u]] /\ row' = row
      BY <1>1 DEF Receive
    <2> HIDE DEF u
    <2>3. QED
      BY <2>1, <2>2 DEF TypeOK, RowsTyped, RequestsTyped, Request
  <1>2. CASE Commit(q)
    <2> DEFINE r == request[q].run
    <2>1. request[q].update \in Update /\ r \in Runs
      BY <1>2 DEF TypeOK, Commit, Request
    <2>2. row' \in [Runs -> Row]
      BY <2>1, <1>2, ApplyType DEF Commit, TypeOK
    <2>3. [NewRequest EXCEPT !.pc = "done"] \in Request
      BY DEF NewRequest, NoUpdate, Request, Update
    <2>4. request' = [request EXCEPT ![q] = [NewRequest EXCEPT !.pc = "done"]]
      BY <1>2 DEF Commit
    <2>5. [NewRequest EXCEPT !.pc = "done"].pc # "read"
      BY DEF NewRequest
    <2>6. QED
      BY <2>2, <2>3, <2>4, <2>5 DEF TypeOK, RowsTyped, RequestsTyped
  <1>3. QED
    BY <1>1, <1>2

\* The history variables stay counters and flags.
LEMMA HistoryType ==
    ASSUME TypeOK, Next
    PROVE  claims' \in [Runs -> Nat] /\ requeues' \in [Runs -> Nat] /\ late' \in [Runs -> BOOLEAN]
  <1>1. ASSUME NEW w \in Workers, Step(w)
        PROVE  /\ claims' = claims \/ \E r \in Runs : claims' = [claims EXCEPT ![r] = @ + 1]
               /\ UNCHANGED <<requeues, late>>
    <2>1. CASE ClaimCommit(w)
      BY <2>1 DEF ClaimCommit, TypeOK
    <2>2. CASE ~ClaimCommit(w)
      BY <2>2, <1>1
      DEF Step, Load, GateCancelled, GateBudget, GateTimeout, GatePass,
          Advance, AdvanceForbidden, Replan, Accept, Pause, PauseForbidden, PauseDone,
          Complete, ResumeOutcome, DispatchDone, ResumeStart, ResumeComplete, Raise,
          Settle, Return, Rescue, history
    <2>3. QED
      BY <2>1, <2>2
  <1>2. ASSUME NEW q \in Requests, Commit(q)
        PROVE  UNCHANGED claims /\ requeues' \in [Runs -> Nat] /\ late' \in [Runs -> BOOLEAN]
    BY <1>2 DEF Commit, TypeOK
  <1>3. CASE UNCHANGED history
    BY <1>3 DEF history, TypeOK
  <1>4. ASSUME NEW w \in Workers, Fault(w)
        PROVE  UNCHANGED history
    BY <1>4 DEF Fault, SettleRetry, SettleGiveUp, Escape, Crash, Shutdown
  <1>5. ASSUME NEW f \in [Runs -> Nat], NEW r \in Runs
        PROVE  [f EXCEPT ![r] = @ + 1] \in [Runs -> Nat]
    OBVIOUS
  <1>6. ASSUME NEW w \in Workers, Step(w)
        PROVE  claims' \in [Runs -> Nat] /\ requeues' \in [Runs -> Nat] /\ late' \in [Runs -> BOOLEAN]
    BY <1>1, <1>5, <1>6 DEF TypeOK
  <1>7. QED
    BY <1>2, <1>3, <1>4, <1>6 DEF Next, Submit, CliStart, Claim, Receive, TypeOK

LEMMA InitType == Init => TypeOK
  <1>1. NoRow \in Row /\ Idle \in Execution /\ NewRequest \in Request
    BY IdleGood DEF NoRow, Row, Statuses, Outcomes, Errors, Good, NewRequest, NoUpdate,
                    Request, Update
  <1>2. Idle.pc = "idle" /\ NewRequest.pc = "new"
    BY DEF Idle, NewRequest
  <1>3. QED
    BY <1>1, <1>2, LimitAssumption DEF Init, TypeOK

LEMMA NextType == TypeOK /\ [Next]_vars => TypeOK'
  <1> SUFFICES ASSUME TypeOK, [Next]_vars PROVE TypeOK'
    OBVIOUS
  <1>1. CASE UNCHANGED vars
    BY <1>1 DEF vars, TypeOK
  <1>2. CASE Next
    <2>1. RowsTyped' /\ WorkersTyped' /\ RequestsTyped' /\ faults' \in 0 .. MaxFaults
      <3>a. RowsTyped /\ WorkersTyped /\ RequestsTyped /\ faults \in 0 .. MaxFaults
        BY DEF TypeOK, RowsTyped, WorkersTyped, RequestsTyped
      <3>b. UNCHANGED worker => WorkersTyped'
        BY <3>a DEF WorkersTyped
      <3>c. UNCHANGED request => RequestsTyped'
        BY <3>a DEF RequestsTyped
      <3>1. ASSUME NEW r \in Runs, Submit(r)
            PROVE  RowsTyped' /\ WorkersTyped' /\ RequestsTyped' /\ UNCHANGED faults
        BY <3>1, <3>b, <3>c, CreateType DEF Submit
      <3>2. ASSUME NEW w \in Workers, NEW r \in Runs, CliStart(w, r) \/ Claim(w, r)
            PROVE  RowsTyped' /\ WorkersTyped' /\ RequestsTyped' /\ UNCHANGED faults
        <4>1. UNCHANGED <<request, faults>>
          BY <3>2 DEF CliStart, Claim
        <4>2. QED
          BY <4>1, <3>2, <3>c, CliStartType, ClaimType
      <3>3. ASSUME NEW w \in Workers, Step(w)
            PROVE  RowsTyped' /\ WorkersTyped' /\ RequestsTyped' /\ UNCHANGED faults
        <4>1. UNCHANGED <<request, faults>>
          BY <3>3
          DEF Step, ClaimCommit, Load, GateCancelled, GateBudget, GateTimeout, GatePass,
              Advance, AdvanceForbidden, Replan, Accept, Pause, PauseForbidden, PauseDone,
              Complete, ResumeOutcome, DispatchDone, ResumeStart, ResumeComplete, Raise,
              Settle, Return, Rescue
        <4>2. QED
          BY <4>1, <3>3, <3>c, StepType
      <3>4. ASSUME NEW w \in Workers, Fault(w)
            PROVE  RowsTyped' /\ WorkersTyped' /\ RequestsTyped' /\ faults' \in 0 .. MaxFaults
        <4>1. UNCHANGED request
          BY <3>4 DEF Fault, SettleRetry, SettleGiveUp, Escape, Crash, Shutdown
        <4>2. QED
          BY <4>1, <3>4, <3>c, FaultType
      <3>5. ASSUME NEW q \in Requests,
                   (\E kind \in Kinds, r \in Runs : Receive(q, kind, r)) \/ Commit(q)
            PROVE  RowsTyped' /\ WorkersTyped' /\ RequestsTyped' /\ UNCHANGED faults
        <4>1. UNCHANGED <<worker, faults>>
          BY <3>5 DEF Receive, Commit
        <4>2. QED
          BY <4>1, <3>5, <3>b, RequestType
      <3>6. QED
        BY <3>a, <3>1, <3>2, <3>3, <3>4, <3>5, <1>2 DEF Next
    <2>2. QED
      BY <2>1, <1>2, HistoryType DEF TypeOK, RowsTyped, WorkersTyped, RequestsTyped
  <1>3. QED
    BY <1>1, <1>2

\* Type correctness: rows, executions and requests keep their shape, and a worker
\* that is not idle, or a request that has read, is about a run that exists.
THEOREM TypeCorrect == Spec => []TypeOK
  BY InitType, NextType, PTL DEF Spec

-----------------------------------------------------------------------------
(* What a step of a worker does to the workers *)

Moves(w) ==
    /\ \A v \in Workers \ {w} : worker'[v] = worker[v]
    /\ \/ worker'[w] = Idle
       \/ worker'[w].run = worker[w].run /\ worker'[w].pc \notin {"idle", "claimed"}
    /\ worker'[w].pc = "advance" =>
          worker'[w].stage # "QUEUED" \/ worker'[w] = worker[w]

\* A worker that becomes past the last gate has just passed it with an unflagged
\* row, or has just loaded a row that awaits review.
PassesLastGate(w) ==
    \A r \in Runs : PastLastGate(w, r)' =>
        \/ PastLastGate(w, r)
        \/ UNCHANGED row /\ (~MustCancel(row[r]) \/ row[r].status = "REVIEW_REQUIRED")

LEMMA IdleFacts == Idle.pc = "idle" /\ Idle.run = None
  BY DEF Idle

LEMMA ThrowMoves ==
    ASSUME TypeOK, NEW w \in Workers, NEW e \in Execution, e.run = worker[w].run,
           NEW exc, Throw(w, e, exc)
    PROVE  Moves(w) /\ PassesLastGate(w)
  <1>1. worker'[w] = [e EXCEPT !.exc = exc, !.pc = "settle"]
    BY DEF Throw, Become, TypeOK
  <1>2. worker'[w].run = worker[w].run /\ worker'[w].pc = "settle"
    BY <1>1 DEF Execution
  <1>3. \A v \in Workers \ {w} : worker'[v] = worker[v]
    BY DEF Throw, Become, TypeOK
  <1>4. QED
    BY <1>2, <1>3 DEF Moves, PassesLastGate, PastLastGate

\* A worker that moves within its run, to a place that needs no argument.
LEMMA SimpleMoves ==
    ASSUME TypeOK, NEW w \in Workers, NEW e \in Execution, Become(w, e),
           \/ e = Idle
           \/ /\ e.run = worker[w].run
              /\ e.pc \notin {"idle", "claimed", "advance", "conclude", "resume"}
              /\ e.pc = "resumeSynth" => worker[w].pc = "resume"
    PROVE  Moves(w) /\ PassesLastGate(w)
  <1>1. worker'[w] = e /\ \A v \in Workers \ {w} : worker'[v] = worker[v]
    BY DEF Become, TypeOK
  <1>2. QED
    BY <1>1, IdleFacts DEF Moves, PassesLastGate, PastLastGate

LEMMA StepMoves ==
    ASSUME TypeOK, NEW w \in Workers, Step(w)
    PROVE  Moves(w) /\ PassesLastGate(w)
  <1> DEFINE r == worker[w].run
  <1>a. worker[w].pc # "idle"
    BY DEF Step, ClaimCommit, Load, GateCancelled, GateBudget, GateTimeout, GatePass,
           Advance, AdvanceForbidden, Replan, Accept, Pause, PauseForbidden, PauseDone,
           Complete, ResumeOutcome, DispatchDone, ResumeStart, ResumeComplete, Raise,
           Settle, Return, Rescue
  <1>b. /\ worker[w] \in Execution /\ r \in Runs /\ worker \in [Workers -> Execution]
        /\ row[r] \in Row
        /\ Fresh(w) \in Execution /\ Fresh(w).run = r
        /\ Verdict(w) \in Row
        /\ \A t \in Statuses : Saw(w, t) \in Row
    BY <1>a, Busy DEF TypeOK
  <1>c. ASSUME NEW x \in Row,
               NEW pc \in {"gate", "load", "paused", "dispatch", "resumeOutcome", "report"},
               \/ Become(w, [worker[w] EXCEPT !.seen = x, !.pc = pc])
               \/ Become(w, [worker[w] EXCEPT !.pc = pc])
        PROVE  Moves(w) /\ PassesLastGate(w)
    <2>1. /\ [worker[w] EXCEPT !.seen = x, !.pc = pc] \in Execution
          /\ [worker[w] EXCEPT !.seen = x, !.pc = pc].run = r
          /\ [worker[w] EXCEPT !.seen = x, !.pc = pc].pc = pc
          /\ [worker[w] EXCEPT !.pc = pc] \in Execution
          /\ [worker[w] EXCEPT !.pc = pc].run = r
          /\ [worker[w] EXCEPT !.pc = pc].pc = pc
      BY <1>b DEF Execution, Pcs
    <2>2. CASE Become(w, [worker[w] EXCEPT !.seen = x, !.pc = pc])
      <3> DEFINE e == [worker[w] EXCEPT !.seen = x, !.pc = pc]
      <3>1. e \in Execution /\ e.run = r /\ e.pc = pc /\ Become(w, e)
        BY <2>1, <2>2
      <3> HIDE DEF e
      <3>2. QED
        BY <3>1, SimpleMoves
    <2>3. CASE Become(w, [worker[w] EXCEPT !.pc = pc])
      <3> DEFINE e == [worker[w] EXCEPT !.pc = pc]
      <3>1. e \in Execution /\ e.run = r /\ e.pc = pc /\ Become(w, e)
        BY <2>1, <2>3
      <3> HIDE DEF e
      <3>2. QED
        BY <3>1, SimpleMoves
    <2>4. QED
      BY <2>2, <2>3, <1>c
  <1>d. Become(w, Idle) => Moves(w) /\ PassesLastGate(w)
    BY SimpleMoves, IdleGood DEF Good
  <1>1. CASE ClaimCommit(w)
    BY <1>1, <1>b, <1>c DEF ClaimCommit
  <1>2. CASE Load(w)
    <2> DEFINE e == [Fresh(w) EXCEPT !.decided = row[r].decided,
                                    !.pc = IF row[r].status = "REVIEW_REQUIRED"
                                           THEN "resume" ELSE "gate"]
    <2>1. e.run = r /\ e.pc = IF row[r].status = "REVIEW_REQUIRED" THEN "resume" ELSE "gate"
      BY <1>b DEF Execution
    <2>2. Become(w, e) /\ UNCHANGED row
      BY <1>2 DEF Load
    <2> HIDE DEF e
    <2>3. worker'[w] = e /\ \A v \in Workers \ {w} : worker'[v] = worker[v]
      BY <2>2, <1>b DEF Become
    <2>4. QED
      BY <2>1, <2>2, <2>3 DEF Moves, PassesLastGate, PastLastGate
  <1>3. CASE GateCancelled(w) \/ GateTimeout(w)
    BY <1>3, <1>b, ThrowMoves DEF GateCancelled, GateTimeout
  <1>4. CASE GateBudget(w)
    <2> DEFINE failed == [row[r] EXCEPT !.status = "FAILED", !.outcome = "failed",
                                       !.error = "budget_exceeded"]
               e == [worker[w] EXCEPT !.seen = failed]
    <2>1. failed \in Row
      BY <1>b, RowUpdate, StatusTypes
    <2>2. Throw(w, e, "budget")
      BY <1>4 DEF GateBudget
    <2> HIDE DEF failed
    <2>3. e \in Execution /\ e.run = r
      BY <2>1, <1>b DEF Execution
    <2> HIDE DEF e
    <2>4. QED
      BY <2>2, <2>3, ThrowMoves
  <1>5. CASE GatePass(w)
    <2>1. UNCHANGED row /\ ~MustCancel(row[r])
      BY <1>5 DEF GatePass
    <2>2. \/ Become(w, [Fresh(w) EXCEPT !.pc = "critic"])
          \/ Become(w, [Fresh(w) EXCEPT !.pc = "conclude"])
          \/ \E s \in DOMAIN Following :
                Become(w, [Fresh(w) EXCEPT !.pc = "advance", !.stage = Following[s]])
      BY <1>5 DEF GatePass
    <2>3. \A s \in DOMAIN Following : Following[s] \in Stages /\ Following[s] # "QUEUED"
      BY DEF Following, Stages
    <2>4. /\ worker'[w].run = r /\ worker'[w].pc \notin {"idle", "claimed"}
          /\ worker'[w].pc = "advance" => worker'[w].stage # "QUEUED"
          /\ \A v \in Workers \ {w} : worker'[v] = worker[v]
      <3>1. \A pc \in Pcs : [Fresh(w) EXCEPT !.pc = pc].run = r /\ [Fresh(w) EXCEPT !.pc = pc].pc = pc
        BY <1>b DEF Execution
      <3>2. \A t \in Stages :
              /\ [Fresh(w) EXCEPT !.pc = "advance", !.stage = t].run = r
              /\ [Fresh(w) EXCEPT !.pc = "advance", !.stage = t].pc = "advance"
              /\ [Fresh(w) EXCEPT !.pc = "advance", !.stage = t].stage = t
        BY <1>b DEF Execution
      <3>3. /\ \/ worker'[w] = [Fresh(w) EXCEPT !.pc = "critic"]
               \/ worker'[w] = [Fresh(w) EXCEPT !.pc = "conclude"]
               \/ \E t \in Stages \ {"QUEUED"} :
                     worker'[w] = [Fresh(w) EXCEPT !.pc = "advance", !.stage = t]
            /\ \A v \in Workers \ {w} : worker'[v] = worker[v]
        BY <2>2, <2>3, <1>b DEF Become
      <3>4. \/ worker'[w].run = r /\ worker'[w].pc \in {"critic", "conclude"}
            \/ /\ worker'[w].run = r /\ worker'[w].pc = "advance"
               /\ worker'[w].stage # "QUEUED"
        <4>1. CASE worker'[w] = [Fresh(w) EXCEPT !.pc = "critic"]
          BY <4>1, <3>1 DEF Pcs
        <4>2. CASE worker'[w] = [Fresh(w) EXCEPT !.pc = "conclude"]
          BY <4>2, <3>1 DEF Pcs
        <4>3. ASSUME NEW t \in Stages, t # "QUEUED",
                     worker'[w] = [Fresh(w) EXCEPT !.pc = "advance", !.stage = t]
              PROVE  /\ worker'[w].run = r /\ worker'[w].pc = "advance"
                     /\ worker'[w].stage # "QUEUED"
          <5>1. /\ [Fresh(w) EXCEPT !.pc = "advance", !.stage = t].run = r
                /\ [Fresh(w) EXCEPT !.pc = "advance", !.stage = t].pc = "advance"
                /\ [Fresh(w) EXCEPT !.pc = "advance", !.stage = t].stage = t
            BY <3>2
          <5>2. QED
            BY <5>1, <4>3
        <4>4. QED
          BY <4>1, <4>2, <4>3, <3>3
      <3>5. QED
        BY <3>3, <3>4
    <2>5. QED
      BY <2>1, <2>4 DEF Moves, PassesLastGate, PastLastGate
  <1>6. CASE Advance(w)
    <2>1. worker[w].stage \in Statuses
      BY <1>b, StatusTypes DEF Execution
    <2>2. QED
      BY <2>1, <1>6, <1>b, <1>c DEF Advance
  <1>7. CASE AdvanceForbidden(w) \/ PauseForbidden(w) \/ Raise(w)
    BY <1>7, <1>b, ThrowMoves DEF AdvanceForbidden, PauseForbidden, Raise
  <1>8. CASE Replan(w) \/ Accept(w)
    <2>1. /\ worker'[w].run = r /\ worker'[w].pc = "advance" /\ worker'[w].stage # "QUEUED"
          /\ \A v \in Workers \ {w} : worker'[v] = worker[v]
      <3>1. CASE Replan(w)
        <4>1. worker[w].replans + 1 \in 0 .. 1
          BY <3>1, <1>b DEF Replan, Execution
        <4>2. \A n \in 0 .. 1 :
                LET e == [worker[w] EXCEPT !.replans = n, !.stage = "DISCOVERING", !.pc = "advance"]
                IN  e.run = r /\ e.pc = "advance" /\ e.stage # "QUEUED"
          BY <1>b DEF Execution
        <4>3. QED
          BY <4>1, <4>2, <3>1, <1>b DEF Replan, Become
      <3>2. CASE Accept(w)
        BY <3>2, <1>b DEF Accept, Become, Execution
      <3>3. QED
        BY <3>1, <3>2, <1>8
    <2>2. QED
      BY <2>1 DEF Moves, PassesLastGate, PastLastGate
  <1>9. CASE Pause(w)
    BY <1>9, <1>b, <1>c, StatusTypes DEF Pause
  <1>10. CASE PauseDone(w) \/ DispatchDone(w) \/ Return(w) \/ Rescue(w)
    BY <1>10, <1>d DEF PauseDone, DispatchDone, Return, Rescue
  <1>11. ASSUME NEW o \in {"answered", "other"}, Complete(w, o)
         PROVE  Moves(w) /\ PassesLastGate(w)
    <2> DEFINE done == [worker[w].seen EXCEPT !.status = "COMPLETED", !.outcome = o]
    <2>1. done \in Row
      BY <1>a, Busy, RowUpdate, StatusTypes
    <2>2. Become(w, [worker[w] EXCEPT !.seen = done, !.pc = "dispatch"]) \/ Become(w, Idle)
      BY <1>11 DEF Complete
    <2> HIDE DEF done
    <2>3. QED
      BY <2>1, <2>2, <1>c, <1>d
  <1>12. ASSUME NEW o \in {"answered", "other"}, ResumeOutcome(w, o)
         PROVE  Moves(w) /\ PassesLastGate(w)
    BY <1>12, <1>d DEF ResumeOutcome
  <1>13. CASE ResumeStart(w)
    <2> DEFINE e == [worker[w] EXCEPT !.seen = Saw(w, "SYNTHESIZING"), !.pc = "resumeSynth"]
    <2>1. e \in Execution /\ e.run = r /\ e.pc = "resumeSynth"
      BY <1>b, StatusTypes DEF Execution, Pcs
    <2>2. Become(w, e) /\ worker[w].pc = "resume"
      BY <1>13 DEF ResumeStart
    <2> HIDE DEF e
    <2>3. QED
      BY <2>1, <2>2, SimpleMoves
  <1>14. CASE ResumeComplete(w)
    BY <1>14, <1>b, <1>c, StatusTypes DEF ResumeComplete
  <1>15. CASE Settle(w)
    BY <1>15, <1>b, <1>c, <1>d DEF Settle
  <1>16. QED
    BY <1>1, <1>2, <1>3, <1>4, <1>5, <1>6, <1>7, <1>8, <1>9, <1>10, <1>11, <1>12, <1>13,
       <1>14, <1>15 DEF Step

LEMMA FaultMoves ==
    ASSUME TypeOK, NEW w \in Workers, Fault(w)
    PROVE  Moves(w) /\ PassesLastGate(w) /\ UNCHANGED <<row, request, claims, requeues, late>>
  <1>a. worker[w].pc # "idle"
    BY DEF Fault, SettleRetry, SettleGiveUp, Escape, Crash, Shutdown
  <1>b. /\ worker[w] \in Execution /\ Fresh(w) \in Execution /\ Fresh(w).run = worker[w].run
        /\ worker \in [Workers -> Execution]
    BY <1>a, Busy DEF TypeOK
  <1>c. UNCHANGED <<row, request, claims, requeues, late>>
    BY DEF Fault, SettleRetry, SettleGiveUp, Escape, Crash, Shutdown, history
  <1>1. CASE SettleRetry(w) \/ SettleGiveUp(w) \/ Escape(w) \/ Crash(w)
    <2>1. /\ \/ worker'[w] = Idle
             \/ /\ worker'[w].run = worker[w].run
                /\ worker'[w].pc \in {"settle2", "abandoned", "rescue"}
          /\ \A v \in Workers \ {w} : worker'[v] = worker[v]
      <3>1. CASE SettleRetry(w)
        BY <3>1, <1>b DEF SettleRetry, Become, Execution
      <3>2. CASE SettleGiveUp(w)
        BY <3>2, <1>b DEF SettleGiveUp, Become, Execution
      <3>3. CASE Escape(w)
        <4>1. LET e == [Fresh(w) EXCEPT !.exc = "failure", !.pc = "rescue"]
              IN  e.run = worker[w].run /\ e.pc = "rescue"
          BY <1>b DEF Execution
        <4>2. QED
          BY <4>1, <3>3, <1>b DEF Escape, Become
      <3>4. CASE Crash(w)
        BY <3>4, <1>b DEF Crash, Become
      <3>5. QED
        BY <3>1, <3>2, <3>3, <3>4, <1>1
    <2>2. QED
      BY <2>1, <1>c, IdleFacts DEF Moves, PassesLastGate, PastLastGate
  <1>2. CASE Shutdown(w)
    BY <1>2, <1>b, <1>c, ThrowMoves DEF Shutdown
  <1>3. QED
    BY <1>1, <1>2 DEF Fault

-----------------------------------------------------------------------------
(* What a step of a worker does to the rows *)

\* A worker writes the row of its run only.  It leaves the status, or replaces it
\* while no claim is pending; it queues and flags nothing, and completes or parks
\* a run only from behind the last gate.
Writes(w) ==
    LET r == worker[w].run
        t == row'[r].status
    IN
    /\ \A s \in Runs \ {r} : row'[s] = row[s]
    /\ t # row[r].status =>
         /\ t \notin {"QUEUED", "absent"}
         /\ Locked(r) => worker[w].pc = "claimed"
         /\ t \in {"COMPLETED", "REVIEW_REQUIRED"} => PastLastGate(w, r)
    /\ row'[r].error = "cancel_requested" => row[r].error = "cancel_requested"

LEMMA FlushWrites ==
    ASSUME row \in [Runs -> Row], NEW r \in Runs, NEW seen \in Row, NEW want \in Row,
           row' = Flush(r, seen, want)
    PROVE  /\ \A s \in Runs \ {r} : row'[s] = row[s]
           /\ row'[r].status = IF want.status # seen.status THEN want.status ELSE row[r].status
           /\ row'[r].error = IF want.error # seen.error THEN want.error ELSE row[r].error
  <1>1. row'[r] = Apply(Changes(seen, want), row[r]) /\ \A s \in Runs \ {r} : row'[s] = row[s]
    BY DEF Flush
  <1>2. want.status # None /\ want.error # None
    BY NoneAssumption DEF Row
  <1>3. QED
    BY <1>1, <1>2 DEF Apply, Changes

LEMMA TransitionWrites ==
    ASSUME TypeOK, NEW w \in Workers, worker[w].pc \notin {"idle", "claimed"},
           NEW t \in Statuses \ {"QUEUED", "absent"}, Transition(w, t),
           t \in {"COMPLETED", "REVIEW_REQUIRED"} => PastLastGate(w, worker[w].run)
    PROVE  Writes(w)
  <1> DEFINE r == worker[w].run
  <1>1. /\ row \in [Runs -> Row] /\ r \in Runs /\ worker[w].seen \in Row
        /\ Saw(w, t) \in Row
    BY Busy DEF TypeOK
  <1>2. Saw(w, t).status = t /\ Saw(w, t).error = worker[w].seen.error
    BY <1>1 DEF Saw, Row
  <1>3. /\ row' = Flush(r, worker[w].seen, Saw(w, t))
        /\ t # worker[w].seen.status => ~Locked(r)
    BY DEF Transition
  <1>4. QED
    BY <1>1, <1>2, <1>3, FlushWrites DEF Writes

LEMMA PersistWrites ==
    ASSUME TypeOK, NEW w \in Workers, worker[w].pc \notin {"idle", "claimed"}, Persist(w)
    PROVE  Writes(w)
  <1> DEFINE r == worker[w].run
             seen == worker[w].seen
  <1>1. row \in [Runs -> Row] /\ r \in Runs /\ seen \in Row /\ Verdict(w) \in Row
    BY Busy DEF TypeOK
  <1>2. /\ Verdict(w).status \in {"CANCELLED", "FAILED"}
        /\ Verdict(w).error \in {seen.error, "failure"}
        /\ worker[w].exc # "cancelled" => Verdict(w).error = "failure"
    BY <1>1 DEF Verdict, Row
  <1>3. Unlike(seen) \in Row /\ Unlike(seen).status = seen.status
    <2>1. \A x \in Row : Unlike(x) \in Row /\ Unlike(x).status = x.status
      BY StatusTypes, RowUpdate DEF Unlike, Row
    <2>2. QED
      BY <2>1, <1>1
  <1>4. CASE row' = Flush(r, seen, Verdict(w))
    BY <1>1, <1>2, <1>4, FlushWrites DEF Writes, Persist
  <1>5. CASE worker[w].exc # "cancelled" /\ row' = Flush(r, Unlike(seen), Verdict(w))
    <2>1. /\ \A s \in Runs \ {r} : row'[s] = row[s]
          /\ row'[r].status \in {row[r].status, Verdict(w).status}
          /\ row'[r].error \in {row[r].error, Verdict(w).error}
      BY <1>1, <1>3, <1>5, FlushWrites
    <2>2. QED
      BY <2>1, <1>2, <1>5 DEF Writes, Persist
  <1>6. QED
    BY <1>4, <1>5 DEF Persist

LEMMA NoWrite ==
    ASSUME NEW w \in Workers, UNCHANGED row
    PROVE  Writes(w)
  BY DEF Writes

\* The hypothesis on stage is part of ClaimInv.
LEMMA StepWrites ==
    ASSUME TypeOK, NEW w \in Workers, Step(w),
           worker[w].pc = "advance" => worker[w].stage # "QUEUED"
    PROVE  Writes(w)
  <1> DEFINE r == worker[w].run
             seen == worker[w].seen
  <1>a. worker[w].pc # "idle"
    BY DEF Step, ClaimCommit, Load, GateCancelled, GateBudget, GateTimeout, GatePass,
           Advance, AdvanceForbidden, Replan, Accept, Pause, PauseForbidden, PauseDone,
           Complete, ResumeOutcome, DispatchDone, ResumeStart, ResumeComplete, Raise,
           Settle, Return, Rescue
  <1>b. /\ worker[w] \in Execution /\ r \in Runs /\ row \in [Runs -> Row]
        /\ seen \in Row /\ row[r] \in Row
    BY <1>a, Busy DEF TypeOK
  <1>1. CASE ClaimCommit(w)
    <2>1. /\ \A s \in Runs \ {r} : row'[s] = row[s]
          /\ row'[r].status = "PLANNING" /\ row'[r].error = row[r].error
      BY <1>1, <1>b DEF ClaimCommit, Row
    <2>2. QED
      BY <2>1, <1>1 DEF Writes, ClaimCommit
  <1>2. CASE \/ Load(w) \/ GateCancelled(w) \/ GateTimeout(w) \/ GatePass(w)
             \/ AdvanceForbidden(w) \/ Replan(w) \/ Accept(w) \/ PauseForbidden(w)
             \/ PauseDone(w) \/ DispatchDone(w) \/ Raise(w) \/ Return(w)
    <2>1. UNCHANGED row
      BY <1>2 DEF Load, GateCancelled, GateTimeout, GatePass, AdvanceForbidden, Replan,
                  Accept, PauseForbidden, PauseDone, DispatchDone, Raise, Return
    <2>2. QED
      BY <2>1, NoWrite
  <1>3. CASE GateBudget(w)
    <2> DEFINE failed == [row[r] EXCEPT !.status = "FAILED", !.outcome = "failed",
                                       !.error = "budget_exceeded"]
    <2>1. failed \in Row
      BY <1>b, RowUpdate, StatusTypes
    <2>2. failed.status = "FAILED" /\ failed.error = "budget_exceeded"
      BY <1>b DEF Row
    <2>3. row' = Flush(r, row[r], failed) /\ ~Locked(r) /\ row[r].error # "cancel_requested"
      BY <1>3 DEF GateBudget, MustCancel
    <2> HIDE DEF failed
    <2>4. QED
      BY <2>1, <2>2, <2>3, <1>b, FlushWrites DEF Writes
  <1>4. CASE Advance(w)
    <2>1. worker[w].stage \in Stages
      BY <1>4, <1>b DEF Advance, Execution
    <2>2. worker[w].stage \in Statuses \ {"QUEUED", "absent", "COMPLETED", "REVIEW_REQUIRED"}
      BY <2>1, StatusTypes DEF Stages
    <2>3. QED
      BY <2>2, <1>4, TransitionWrites DEF Advance
  <1>5. CASE Pause(w)
    BY <1>5, StatusTypes, TransitionWrites DEF Pause, PastLastGate
  <1>6. ASSUME NEW o \in {"answered", "other"}, Complete(w, o)
        PROVE  Writes(w)
    <2> DEFINE done == [seen EXCEPT !.status = "COMPLETED", !.outcome = o]
    <2>1. done \in Row
      BY <1>b, RowUpdate, StatusTypes
    <2>2. done.status = "COMPLETED" /\ done.error = seen.error
      BY <1>b DEF Row
    <2>3. row' = Flush(r, seen, done) /\ ~Locked(r) /\ PastLastGate(w, r)
      BY <1>6 DEF Complete, PastLastGate
    <2> HIDE DEF done
    <2>4. QED
      BY <2>1, <2>2, <2>3, <1>b, FlushWrites DEF Writes
  <1>7. ASSUME NEW o \in {"answered", "other"}, ResumeOutcome(w, o)
        PROVE  Writes(w)
    <2> DEFINE done == [seen EXCEPT !.outcome = o]
    <2>1. done \in Row
      BY <1>b, RowUpdate, StatusTypes
    <2>2. done.status = seen.status /\ done.error = seen.error
      BY <1>b DEF Row
    <2>3. row' = Flush(r, seen, done)
      BY <1>7 DEF ResumeOutcome
    <2> HIDE DEF done
    <2>4. QED
      BY <2>1, <2>2, <2>3, <1>b, FlushWrites DEF Writes
  <1>8. CASE ResumeStart(w)
    BY <1>8, StatusTypes, TransitionWrites DEF ResumeStart
  <1>9. CASE ResumeComplete(w)
    BY <1>9, StatusTypes, TransitionWrites DEF ResumeComplete, PastLastGate
  <1>10. CASE Settle(w) \/ Rescue(w)
    BY <1>10, PersistWrites DEF Settle, Rescue
  <1>11. QED
    BY <1>1, <1>2, <1>3, <1>4, <1>5, <1>6, <1>7, <1>8, <1>9, <1>10 DEF Step

-----------------------------------------------------------------------------
(* One claim per queueing *)

LEMMA InitClaimInv == Init => ClaimInv
  <1>1. NoRow.status = "absent" /\ NewRequest.update.status = None
    BY DEF NoRow, NewRequest, NoUpdate
  <1>2. QED
    BY <1>1, IdleFacts, NoneAssumption
    DEF Init, ClaimInv, ClaimedOncePerQueueing, SharedOnlyAfterRequeue, Executors, Executing

\* A worker's step that is not a claim's commit, or a fault.
LEMMA MoveKeepsClaimInv ==
    ASSUME TypeOK, ClaimInv, NEW w \in Workers, worker[w].pc # "idle",
           worker[w].pc = "claimed" => worker'[w] = Idle /\ UNCHANGED row,
           worker' \in [Workers -> Execution], row' \in [Runs -> Row],
           Moves(w), Writes(w), UNCHANGED <<request, claims, requeues>>
    PROVE  ClaimInv'
  <1> DEFINE r == worker[w].run
  <1>a. r \in Runs
    BY Busy
  <1>b. \A s \in Runs : row'[s].status \in {"QUEUED", "absent"} => row'[s].status = row[s].status
    BY <1>a DEF Writes
  <1>c. \A s \in Runs : Locked(s) => row'[s].status = row[s].status
    BY <1>a DEF Writes
  <1>d. \A v \in Workers : \/ worker'[v] = worker[v]
                           \/ worker'[v] = Idle
                           \/ /\ v = w
                              /\ worker'[v].run = worker[v].run
                              /\ worker'[v].pc \notin {"idle", "claimed"}
    BY DEF Moves
  <1>e. \A v \in Workers : worker'[v].pc = "claimed" => worker'[v] = worker[v]
    BY <1>d, IdleFacts
  <1>f. \A s \in Runs, v \in Workers : worker'[v].run = s => worker[v].run = s
    BY <1>d, IdleFacts, NoneAssumption
  <1>1. ClaimedOncePerQueueing'
    BY DEF ClaimInv, ClaimedOncePerQueueing
  <1>2. SharedOnlyAfterRequeue'
    <2>1. \A s \in Runs : Executors(s)' \subseteq Executors(s)
      BY <1>f DEF Executors
    <2>2. QED
      BY <2>1 DEF ClaimInv, SharedOnlyAfterRequeue
  <1>3. \A s \in Runs : row'[s].status = "QUEUED" => claims'[s] <= requeues'[s]
    BY <1>b DEF ClaimInv
  <1>4. \A s \in Runs : row'[s].status = "absent" => claims'[s] = 0
    BY <1>b DEF ClaimInv
  <1>5. ASSUME NEW v \in Workers
        PROVE  /\ worker'[v].pc = "claimed" =>
                     row'[worker'[v].run].status = "QUEUED" /\ v \notin Clis
               /\ worker'[v].pc = "idle" => worker'[v].run = None
               /\ worker'[v].pc = "advance" => worker'[v].stage # "QUEUED"
               /\ Executing(v)' => claims'[worker'[v].run] >= 1
    <2>1. worker'[v].pc = "claimed" => row'[worker'[v].run].status = "QUEUED" /\ v \notin Clis
      <3>1. worker[v].pc = "claimed" => worker[v].run \in Runs /\ Locked(worker[v].run)
        BY Busy DEF Locked
      <3>2. QED
        BY <3>1, <1>c, <1>e DEF ClaimInv
    <2>2. worker'[v].pc = "idle" => worker'[v].run = None
      BY <1>d, IdleFacts DEF ClaimInv
    <2>3. worker'[v].pc = "advance" => worker'[v].stage # "QUEUED"
      BY DEF Moves, ClaimInv
    <2>4. Executing(v)' => claims'[worker'[v].run] >= 1
      BY <1>d, IdleFacts DEF Executing, ClaimInv
    <2>5. QED
      BY <2>1, <2>2, <2>3, <2>4
  <1>6. ASSUME NEW u \in Workers, NEW v \in Workers, u # v,
               worker'[u].pc = "claimed", worker'[v].pc = "claimed"
        PROVE  worker'[u].run # worker'[v].run
    BY <1>e, <1>6 DEF ClaimInv
  <1>7. \A q \in Requests : request'[q].update.status \in {None, "CANCELLED", "QUEUED"}
    BY DEF ClaimInv
  <1>8. QED
    BY <1>1, <1>2, <1>3, <1>4, <1>5, <1>6, <1>7 DEF ClaimInv

LEMMA ClaimCommitKeepsClaimInv ==
    ASSUME TypeOK, ClaimInv, NEW w \in Workers, ClaimCommit(w)
    PROVE  ClaimInv'
  <1> DEFINE r == worker[w].run
  <1>a. /\ r \in Runs /\ worker[w] \in Execution /\ w \notin Clis
        /\ row[r].status = "QUEUED" /\ claims[r] <= requeues[r]
        /\ claims \in [Runs -> Nat] /\ requeues \in [Runs -> Nat]
        /\ row \in [Runs -> Row] /\ worker \in [Workers -> Execution]
    BY Busy DEF ClaimCommit, ClaimInv, TypeOK
  <1>b. /\ row'[r].status = "PLANNING"
        /\ \A s \in Runs \ {r} : row'[s] = row[s]
    BY <1>a DEF ClaimCommit, Row
  <1>c. /\ claims'[r] = claims[r] + 1
        /\ \A s \in Runs \ {r} : claims'[s] = claims[s]
        /\ UNCHANGED <<requeues, request>>
    BY <1>a DEF ClaimCommit
  <1>d. /\ worker'[w].run = r /\ worker'[w].pc = "load"
        /\ \A v \in Workers \ {w} : worker'[v] = worker[v]
    BY <1>a DEF ClaimCommit, Become, Execution
  <1>e. \A v \in Workers \ {w} : worker[v].pc = "claimed" => worker[v].run # r
    BY DEF ClaimCommit, ClaimInv
  <1>1. ClaimedOncePerQueueing'
    BY <1>a, <1>c DEF ClaimInv, ClaimedOncePerQueueing
  <1>2. SharedOnlyAfterRequeue'
    <2> SUFFICES ASSUME NEW s \in Runs, NEW u \in Executors(s)' \ Clis,
                        NEW v \in Executors(s)' \ Clis, u # v
                 PROVE  requeues[s] > 0
      BY <1>c DEF SharedOnlyAfterRequeue
    <2>1. u \in Executors(s) /\ v \in Executors(s)
      BY <1>d DEF Executors
    <2>2. QED
      BY <2>1 DEF ClaimInv, SharedOnlyAfterRequeue
  <1>3. \A s \in Runs : row'[s].status = "QUEUED" => claims'[s] <= requeues'[s]
    BY <1>b, <1>c DEF ClaimInv
  <1>4. \A s \in Runs : row'[s].status = "absent" => claims'[s] = 0
    BY <1>b, <1>c DEF ClaimInv
  <1>5. ASSUME NEW v \in Workers
        PROVE  /\ worker'[v].pc = "claimed" =>
                     row'[worker'[v].run].status = "QUEUED" /\ v \notin Clis
               /\ worker'[v].pc = "idle" => worker'[v].run = None
               /\ worker'[v].pc = "advance" => worker'[v].stage # "QUEUED"
               /\ Executing(v)' => claims'[worker'[v].run] >= 1
    <2>1. CASE v = w
      BY <2>1, <1>a, <1>c, <1>d
    <2>2. CASE v # w
      <3>1. worker'[v] = worker[v]
        BY <2>2, <1>d
      <3>2. worker[v].pc # "idle" => worker[v].run \in Runs
        BY DEF TypeOK
      <3>3. worker'[v].pc = "claimed" => row'[worker'[v].run].status = "QUEUED" /\ v \notin Clis
        BY <2>2, <3>1, <3>2, <1>b, <1>e DEF ClaimInv
      <3>4. Executing(v)' => claims'[worker'[v].run] >= 1
        <4>1. Executing(v)' => Executing(v) /\ worker[v].run \in Runs
          BY <3>1, <3>2 DEF Executing
        <4>2. \A s \in Runs : claims'[s] >= claims[s]
          BY <1>a, <1>c
        <4>3. QED
          BY <4>1, <4>2, <3>1, <1>a, <1>c DEF ClaimInv
      <3>5. QED
        BY <3>1, <3>3, <3>4 DEF ClaimInv
    <2>3. QED
      BY <2>1, <2>2
  <1>6. ASSUME NEW u \in Workers, NEW v \in Workers, u # v,
               worker'[u].pc = "claimed", worker'[v].pc = "claimed"
        PROVE  worker'[u].run # worker'[v].run
    BY <1>d, <1>6 DEF ClaimInv
  <1>7. \A q \in Requests : request'[q].update.status \in {None, "CANCELLED", "QUEUED"}
    BY <1>c DEF ClaimInv
  <1>8. QED
    BY <1>1, <1>2, <1>3, <1>4, <1>5, <1>6, <1>7 DEF ClaimInv

\* A run is created: no claim of it can be pending or have been committed.
LEMMA CreateKeepsClaimInv ==
    ASSUME TypeOK, ClaimInv, NEW r \in Runs, Create(r), UNCHANGED <<request, claims, requeues>>,
           \/ UNCHANGED worker
           \/ \E w \in Clis : worker[w].pc = "idle"
                              /\ Become(w, [Idle EXCEPT !.pc = "load", !.run = r])
    PROVE  ClaimInv'
  <1>a. /\ row'[r].status = "QUEUED" /\ claims[r] = 0
        /\ \A s \in Runs \ {r} : row'[s] = row[s]
        /\ requeues \in [Runs -> Nat] /\ worker \in [Workers -> Execution]
    BY DEF Create, ClaimInv, TypeOK, Row
  <1>b. \A v \in Workers : \/ worker'[v] = worker[v]
                           \/ v \in Clis /\ worker'[v].pc = "load"
    <2>1. [Idle EXCEPT !.pc = "load", !.run = r].pc = "load"
      BY DEF Idle
    <2>2. QED
      BY <2>1, <1>a, ProcessAssumption DEF Become
  <1>1. ClaimedOncePerQueueing'
    BY DEF ClaimInv, ClaimedOncePerQueueing
  <1>2. SharedOnlyAfterRequeue'
    <2>1. \A s \in Runs : (Executors(s) \ Clis)' \subseteq Executors(s) \ Clis
      BY <1>b DEF Executors
    <2>2. QED
      BY <2>1 DEF ClaimInv, SharedOnlyAfterRequeue
  <1>3. \A s \in Runs : row'[s].status = "QUEUED" => claims'[s] <= requeues'[s]
    BY <1>a DEF ClaimInv
  <1>4. \A s \in Runs : row'[s].status = "absent" => claims'[s] = 0
    BY <1>a DEF ClaimInv
  <1>5. ASSUME NEW v \in Workers
        PROVE  /\ worker'[v].pc = "claimed" =>
                     row'[worker'[v].run].status = "QUEUED" /\ v \notin Clis
               /\ worker'[v].pc = "idle" => worker'[v].run = None
               /\ worker'[v].pc = "advance" => worker'[v].stage # "QUEUED"
               /\ Executing(v)' => claims'[worker'[v].run] >= 1
    <2>1. worker[v].pc # "idle" => worker[v].run \in Runs
      BY DEF TypeOK
    <2>2. CASE worker'[v] = worker[v]
      BY <2>1, <2>2, <1>a DEF ClaimInv, Executing
    <2>3. CASE v \in Clis /\ worker'[v].pc = "load"
      BY <2>3 DEF Executing
    <2>4. QED
      BY <2>2, <2>3, <1>b
  <1>6. ASSUME NEW u \in Workers, NEW v \in Workers, u # v,
               worker'[u].pc = "claimed", worker'[v].pc = "claimed"
        PROVE  worker'[u].run # worker'[v].run
    BY <1>b, <1>6 DEF ClaimInv
  <1>7. \A q \in Requests : request'[q].update.status \in {None, "CANCELLED", "QUEUED"}
    BY DEF ClaimInv
  <1>8. QED
    BY <1>1, <1>2, <1>3, <1>4, <1>5, <1>6, <1>7 DEF ClaimInv

\* A claim: whoever else is in the run has committed a claim of it, so the row can
\* only be in the queue because of a review.
LEMMA ClaimKeepsClaimInv ==
    ASSUME TypeOK, ClaimInv, NEW w \in Workers, NEW r \in Runs, Claim(w, r)
    PROVE  ClaimInv'
  <1>a. /\ w \notin Clis /\ worker[w].pc = "idle"
        /\ row[r].status = "QUEUED" /\ ~Locked(r)
        /\ UNCHANGED <<row, request, claims, requeues>>
        /\ requeues \in [Runs -> Nat] /\ worker \in [Workers -> Execution]
        /\ claims \in [Runs -> Nat]
    BY DEF Claim, Candidates, TypeOK, history
  <1>b. /\ worker'[w].run = r /\ worker'[w].pc = "claimed"
        /\ \A v \in Workers \ {w} : worker'[v] = worker[v]
    BY <1>a DEF Claim, Become, Idle
  <1>c. \A v \in Workers : worker[v].pc = "claimed" => worker[v].run # r
    BY <1>a DEF Locked
  <1>1. ClaimedOncePerQueueing'
    BY <1>a DEF ClaimInv, ClaimedOncePerQueueing
  <1>2. SharedOnlyAfterRequeue'
    <2>1. ASSUME NEW v \in Workers \ Clis, v # w, worker[v].run = r
          PROVE  requeues[r] > 0
      <3>1. worker[v].pc # "idle"
        BY <2>1, NoneAssumption DEF ClaimInv
      <3>2. Executing(v)
        BY <3>1, <2>1, <1>c DEF Executing
      <3>3. claims[r] >= 1 /\ claims[r] <= requeues[r]
        BY <3>2, <2>1, <1>a DEF ClaimInv
      <3>4. QED
        BY <3>3, <1>a
    <2>2. ASSUME NEW s \in Runs, NEW u \in Executors(s)' \ Clis,
                 NEW v \in Executors(s)' \ Clis, u # v
          PROVE  requeues[s] > 0
      <3>1. CASE u # w /\ v # w
        <4>1. u \in Executors(s) /\ v \in Executors(s)
          BY <3>1, <1>b DEF Executors
        <4>2. QED
          BY <4>1, <2>2 DEF ClaimInv, SharedOnlyAfterRequeue
      <3>2. CASE u = w
        BY <3>2, <2>1, <2>2, <1>b DEF Executors
      <3>3. CASE v = w
        BY <3>3, <2>1, <2>2, <1>b DEF Executors
      <3>4. QED
        BY <3>1, <3>2, <3>3
    <2>3. QED
      BY <2>2, <1>a DEF SharedOnlyAfterRequeue
  <1>3. ASSUME NEW v \in Workers
        PROVE  /\ worker'[v].pc = "claimed" =>
                     row'[worker'[v].run].status = "QUEUED" /\ v \notin Clis
               /\ worker'[v].pc = "idle" => worker'[v].run = None
               /\ worker'[v].pc = "advance" => worker'[v].stage # "QUEUED"
               /\ Executing(v)' => claims'[worker'[v].run] >= 1
    BY <1>a, <1>b DEF ClaimInv, Executing
  <1>4. ASSUME NEW u \in Workers, NEW v \in Workers, u # v,
               worker'[u].pc = "claimed", worker'[v].pc = "claimed"
        PROVE  worker'[u].run # worker'[v].run
    BY <1>b, <1>c, <1>4 DEF ClaimInv
  <1>5. QED
    BY <1>1, <1>2, <1>3, <1>4, <1>a DEF ClaimInv

\* The update of a request cancels, requeues or leaves the status.
LEMMA WantedStatus ==
    ASSUME NEW kind \in RequestKinds, NEW r \in Runs, NEW x \in Row
    PROVE  /\ Changes(x, Wanted(kind, r, x)).status \in {None, "CANCELLED", "QUEUED"}
           /\ Changes(x, Wanted(kind, r, x)).error \in {None, "cancel_requested"}
  BY DEF Changes, Wanted, Requeued, RequestKinds, Row

LEMMA RequestKeepsClaimInv ==
    ASSUME TypeOK, ClaimInv, NEW q \in Requests,
           (\E kind \in Kinds, r \in Runs : Receive(q, kind, r)) \/ Commit(q)
    PROVE  ClaimInv'
  <1>1. ASSUME NEW kind \in Kinds, NEW r \in Runs, Receive(q, kind, r)
        PROVE  ClaimInv'
    <2>1. UNCHANGED <<row, worker, claims, requeues>>
      BY <1>1 DEF Receive, history
    <2>2. /\ request'[q].update = Changes(row[r], Wanted(kind, r, row[r]))
          /\ \A p \in Requests \ {q} : request'[p] = request[p]
      BY <1>1 DEF Receive, TypeOK
    <2>3. request'[q].update.status \in {None, "CANCELLED", "QUEUED"}
      BY <2>2, WantedStatus, KindsAssumption DEF TypeOK
    <2>4. \A p \in Requests : request'[p].update.status \in {None, "CANCELLED", "QUEUED"}
      BY <2>2, <2>3 DEF ClaimInv
    <2>5. ClaimedOncePerQueueing' /\ SharedOnlyAfterRequeue'
      BY <2>1 DEF ClaimInv, ClaimedOncePerQueueing, SharedOnlyAfterRequeue, Executors
    <2>6. QED
      BY <2>1, <2>4, <2>5 DEF ClaimInv, Executing
  <1>2. CASE Commit(q)
    <2> DEFINE r == request[q].run
               u == request[q].update
    <2>a. /\ r \in Runs /\ u \in Update /\ row \in [Runs -> Row]
          /\ claims \in [Runs -> Nat] /\ requeues \in [Runs -> Nat]
      BY <1>2 DEF Commit, TypeOK, Request
    <2>b. /\ row'[r].status = IF u.status = None THEN row[r].status ELSE u.status
          /\ \A s \in Runs \ {r} : row'[s] = row[s]
      BY <1>2, <2>a DEF Commit, Apply
    <2>c. /\ requeues'[r] = IF u.status = "QUEUED" THEN requeues[r] + 1 ELSE requeues[r]
          /\ \A s \in Runs \ {r} : requeues'[s] = requeues[s]
          /\ UNCHANGED <<worker, claims>>
          /\ \A v \in Workers : worker[v].pc = "claimed" => worker[v].run # r
      BY <1>2, <2>a DEF Commit, Locked
    <2>d. u.status \in {None, "CANCELLED", "QUEUED"}
      BY DEF ClaimInv
    <2>e. \A s \in Runs : requeues'[s] \in Nat /\ requeues'[s] >= requeues[s]
      BY <2>a, <2>c
    <2>1. ClaimedOncePerQueueing'
      BY <2>a, <2>c, <2>e DEF ClaimInv, ClaimedOncePerQueueing
    <2>2. SharedOnlyAfterRequeue'
      <3>1. \A s \in Runs : Executors(s)' = Executors(s)
        BY <2>c DEF Executors
      <3>2. QED
        BY <3>1, <2>a, <2>e DEF ClaimInv, SharedOnlyAfterRequeue
    <2>3. \A s \in Runs : row'[s].status = "QUEUED" => claims'[s] <= requeues'[s]
      <3>1. CASE u.status = "QUEUED"
        BY <3>1, <2>a, <2>b, <2>c, <2>e DEF ClaimInv, ClaimedOncePerQueueing
      <3>2. CASE u.status # "QUEUED"
        BY <3>2, <2>a, <2>b, <2>c, <2>d DEF ClaimInv
      <3>3. QED
        BY <3>1, <3>2
    <2>4. \A s \in Runs : row'[s].status = "absent" => claims'[s] = 0
      BY <2>b, <2>c, <2>d DEF ClaimInv
    <2>5. ASSUME NEW v \in Workers
          PROVE  /\ worker'[v].pc = "claimed" =>
                       row'[worker'[v].run].status = "QUEUED" /\ v \notin Clis
                 /\ worker'[v].pc = "idle" => worker'[v].run = None
                 /\ worker'[v].pc = "advance" => worker'[v].stage # "QUEUED"
                 /\ Executing(v)' => claims'[worker'[v].run] >= 1
      <3>1. worker[v].pc # "idle" => worker[v].run \in Runs
        BY DEF TypeOK
      <3>2. QED
        BY <3>1, <2>b, <2>c DEF ClaimInv, Executing
    <2>6. \A p \in Requests : request'[p].update.status \in {None, "CANCELLED", "QUEUED"}
      <3>1. [NewRequest EXCEPT !.pc = "done"].update.status = None
        BY DEF NewRequest, NoUpdate
      <3>2. QED
        BY <3>1, <1>2 DEF Commit, ClaimInv, TypeOK
    <2>7. QED
      BY <2>1, <2>2, <2>3, <2>4, <2>5, <2>6, <2>c DEF ClaimInv
  <1>3. QED
    BY <1>1, <1>2

\* What a step of a worker other than a claim's commit leaves alone.
LEMMA StepFrame ==
    ASSUME NEW w \in Workers, Step(w)
    PROVE  /\ UNCHANGED <<request, requeues, late>>
           /\ ClaimCommit(w) \/ UNCHANGED claims
           /\ worker[w].pc # "idle" /\ (ClaimCommit(w) \/ worker[w].pc # "claimed")
  BY DEF Step, ClaimCommit, Load, GateCancelled, GateBudget, GateTimeout, GatePass,
         Advance, AdvanceForbidden, Replan, Accept, Pause, PauseForbidden, PauseDone,
         Complete, ResumeOutcome, DispatchDone, ResumeStart, ResumeComplete, Raise,
         Settle, Return, Rescue, history

LEMMA NextClaimInv == TypeOK /\ ClaimInv /\ [Next]_vars => ClaimInv'
  <1> SUFFICES ASSUME TypeOK, ClaimInv, [Next]_vars PROVE ClaimInv'
    OBVIOUS
  <1>a. TypeOK'
    BY NextType
  <1>1. CASE UNCHANGED vars
    BY <1>1 DEF vars, ClaimInv, ClaimedOncePerQueueing, SharedOnlyAfterRequeue, Executors,
                Executing
  <1>2. ASSUME NEW r \in Runs, Submit(r)
        PROVE  ClaimInv'
    BY <1>2, CreateKeepsClaimInv DEF Submit, history
  <1>3. ASSUME NEW w \in Workers, NEW r \in Runs, CliStart(w, r)
        PROVE  ClaimInv'
    BY <1>3, CreateKeepsClaimInv DEF CliStart, history
  <1>4. ASSUME NEW w \in Workers, NEW r \in Runs, Claim(w, r)
        PROVE  ClaimInv'
    BY <1>4, ClaimKeepsClaimInv
  <1>5. ASSUME NEW w \in Workers, Step(w)
        PROVE  ClaimInv'
    <2>1. CASE ClaimCommit(w)
      BY <2>1, ClaimCommitKeepsClaimInv
    <2>2. CASE ~ClaimCommit(w)
      <3>1. worker[w].pc = "advance" => worker[w].stage # "QUEUED"
        BY DEF ClaimInv
      <3>2. Moves(w) /\ Writes(w)
        BY <3>1, <1>5, StepMoves, StepWrites
      <3>3. /\ UNCHANGED <<request, claims, requeues>>
            /\ worker[w].pc \notin {"idle", "claimed"}
        BY <2>2, <1>5, StepFrame
      <3>4. QED
        BY <3>2, <3>3, <1>a, MoveKeepsClaimInv DEF TypeOK
    <2>3. QED
      BY <2>1, <2>2
  <1>6. ASSUME NEW w \in Workers, Fault(w)
        PROVE  ClaimInv'
    <2>1. Moves(w) /\ Writes(w) /\ UNCHANGED <<row, request, claims, requeues>>
      BY <1>6, FaultMoves, NoWrite
    <2>2. /\ worker[w].pc # "idle"
          /\ worker[w].pc = "claimed" => worker'[w] = Idle
      BY <1>6 DEF Fault, SettleRetry, SettleGiveUp, Escape, Crash, Shutdown, Become, TypeOK
    <2>3. QED
      BY <2>1, <2>2, <1>a, MoveKeepsClaimInv DEF TypeOK
  <1>7. ASSUME NEW q \in Requests,
               (\E kind \in Kinds, r \in Runs : Receive(q, kind, r)) \/ Commit(q)
        PROVE  ClaimInv'
    BY <1>7, RequestKeepsClaimInv
  <1>8. QED
    BY <1>1, <1>2, <1>3, <1>4, <1>5, <1>6, <1>7 DEF Next

LEMMA ClaimInvariant == Spec => []ClaimInv
  BY InitType, InitClaimInv, NextType, NextClaimInv, PTL DEF Spec

\* However many workers poll, and whatever fails, a run is claimed at most once for
\* each time it entered the queue.
THEOREM ClaimedOnce == Spec => []ClaimedOncePerQueueing
  <1>1. ClaimInv => ClaimedOncePerQueueing
    BY DEF ClaimInv
  <1>2. QED
    BY <1>1, ClaimInvariant, PTL

\* Two polling workers share a run only after a review has requeued it.
THEOREM SharedAfterRequeue == Spec => []SharedOnlyAfterRequeue
  <1>1. ClaimInv => SharedOnlyAfterRequeue
    BY DEF ClaimInv
  <1>2. QED
    BY <1>1, ClaimInvariant, PTL

-----------------------------------------------------------------------------
(* Cancellation that leaves a flag *)

LEMMA InitCancelInv == Init => CancelInv
  <1>1. NoRow.error = "none" /\ NewRequest.update.error = None /\ NewRequest.update.status = None
    BY DEF NoRow, NewRequest, NoUpdate
  <1>2. QED
    BY <1>1 DEF Init, CancelInv, CancelFlagHonoured

\* A step of a worker: a flagged row is completed or parked only by a worker past
\* the last gate, and no worker passes the last gate of a flagged row, except by
\* loading one that is already parked.
LEMMA MoveKeepsCancelInv ==
    ASSUME TypeOK, CancelInv, NEW w \in Workers, worker[w].run \in Runs,
           Moves(w), PassesLastGate(w), Writes(w), UNCHANGED <<request, late>>
    PROVE  CancelInv'
  <1>a. \A s \in Runs : row'[s].error = "cancel_requested" => row[s].error = "cancel_requested"
    BY DEF Writes
  <1>1. CancelFlagHonoured'
    <2> SUFFICES ASSUME NEW s \in Runs, row'[s].error = "cancel_requested",
                        row'[s].status \in {"COMPLETED", "REVIEW_REQUIRED"}
                 PROVE  late[s]
      BY DEF CancelFlagHonoured
    <2>1. CASE row'[s].status = row[s].status
      BY <2>1, <1>a DEF CancelInv, CancelFlagHonoured
    <2>2. CASE row'[s].status # row[s].status
      <3>1. PastLastGate(w, s)
        BY <2>2 DEF Writes
      <3>2. QED
        BY <3>1, <1>a DEF CancelInv
    <2>3. QED
      BY <2>1, <2>2
  <1>2. ASSUME NEW s \in Runs, NEW v \in Workers,
               row'[s].error = "cancel_requested", PastLastGate(v, s)'
        PROVE  late[s]
    <2>1. CASE PastLastGate(v, s)
      BY <2>1, <1>2, <1>a DEF CancelInv
    <2>2. CASE ~PastLastGate(v, s)
      <3>1. v = w
        BY <2>2, <1>2 DEF Moves, PastLastGate
      <3>2. row[s].status = "REVIEW_REQUIRED" /\ row[s].error = "cancel_requested"
        BY <3>1, <2>2, <1>2, <1>a DEF PassesLastGate, MustCancel
      <3>3. QED
        BY <3>2 DEF CancelInv, CancelFlagHonoured
    <2>3. QED
      BY <2>1, <2>2
  <1>3. QED
    BY <1>1, <1>2 DEF CancelInv

LEMMA RequestKeepsCancelInv ==
    ASSUME TypeOK, CancelInv, NEW q \in Requests,
           (\E kind \in Kinds, r \in Runs : Receive(q, kind, r)) \/ Commit(q)
    PROVE  CancelInv'
  <1>1. ASSUME NEW kind \in Kinds, NEW r \in Runs, Receive(q, kind, r)
        PROVE  CancelInv'
    <2>1. UNCHANGED <<row, worker, late>>
      BY <1>1 DEF Receive, history
    <2>2. /\ request'[q].update = Changes(row[r], Wanted(kind, r, row[r]))
          /\ \A p \in Requests \ {q} : request'[p] = request[p]
          /\ Accepts(kind, row[r])
          /\ kind \in RequestKinds /\ row[r] \in Row
      BY <1>1, KindsAssumption DEF Receive, TypeOK
    <2>3. request'[q].update.error # None => request'[q].update.status = "CANCELLED"
      <3>1. request'[q].update.error # None =>
               row[r].status \notin Terminal /\ Wanted(kind, r, row[r]).status = "CANCELLED"
        <4>1. CASE kind = "apiCancel"
          BY <4>1, <2>2 DEF Wanted, Accepts, Row
        <4>2. CASE kind # "apiCancel"
          <5>1. Wanted(kind, r, row[r]).error = row[r].error
            BY <4>2, <2>2 DEF Wanted, Requeued, RequestKinds, Row
          <5>2. QED
            BY <5>1, <2>2 DEF Changes
        <4>3. QED
          BY <4>1, <4>2
      <3>2. QED
        BY <3>1, <2>2 DEF Changes, Terminal
    <2>4. /\ request'[q].update.status \in {None, "CANCELLED", "QUEUED"}
          /\ request'[q].update.error \in {None, "cancel_requested"}
      BY <2>2, WantedStatus
    <2>5. CancelFlagHonoured'
      BY <2>1 DEF CancelInv, CancelFlagHonoured
    <2>6. QED
      BY <2>1, <2>2, <2>3, <2>4, <2>5 DEF CancelInv, PastLastGate
  <1>2. CASE Commit(q)
    <2> DEFINE r == request[q].run
               u == request[q].update
    <2>a. r \in Runs /\ u \in Update /\ row \in [Runs -> Row] /\ late \in [Runs -> BOOLEAN]
      BY <1>2 DEF Commit, TypeOK, Request
    <2>b. /\ row'[r].status = IF u.status = None THEN row[r].status ELSE u.status
          /\ row'[r].error = IF u.error = None THEN row[r].error ELSE u.error
          /\ \A s \in Runs \ {r} : row'[s] = row[s]
      BY <1>2, <2>a DEF Commit, Apply
    <2>c. /\ late'[r] = (late[r] \/ (u.error # None /\ \E w \in Workers : PastLastGate(w, r)))
          /\ \A s \in Runs \ {r} : late'[s] = late[s]
          /\ UNCHANGED worker
      BY <1>2, <2>a, Zenon DEF Commit
    <2>d. /\ u.status \in {None, "CANCELLED", "QUEUED"}
          /\ u.error # None => u.status = "CANCELLED"
      BY DEF CancelInv
    <2>1. CancelFlagHonoured'
      <3> SUFFICES ASSUME NEW s \in Runs, row'[s].error = "cancel_requested",
                          row'[s].status \in {"COMPLETED", "REVIEW_REQUIRED"}
                   PROVE  late'[s]
        BY DEF CancelFlagHonoured
      <3>1. row'[s].error = row[s].error /\ row'[s].status = row[s].status
        <4>1. None # "CANCELLED"
          BY NoneAssumption, StatusTypes
        <4>2. CASE s = r
          BY <4>1, <4>2, <2>b, <2>d
        <4>3. CASE s # r
          BY <4>3, <2>b
        <4>4. QED
          BY <4>2, <4>3
      <3>2. late[s] => late'[s]
        BY <2>c
      <3>3. QED
        BY <3>1, <3>2 DEF CancelInv, CancelFlagHonoured
    <2>2. ASSUME NEW s \in Runs, NEW v \in Workers,
                 row'[s].error = "cancel_requested", PastLastGate(v, s)'
          PROVE  late'[s]
      <3>1. PastLastGate(v, s)
        BY <2>2, <2>c DEF PastLastGate
      <3>2. QED
        BY <3>1, <2>2, <2>b, <2>c DEF CancelInv
    <2>3. ASSUME NEW p \in Requests
          PROVE  /\ request'[p].update.status \in {None, "CANCELLED", "QUEUED"}
                 /\ request'[p].update.error \in {None, "cancel_requested"}
                 /\ request'[p].update.error # None => request'[p].update.status = "CANCELLED"
      <3>1. /\ [NewRequest EXCEPT !.pc = "done"].update.status = None
            /\ [NewRequest EXCEPT !.pc = "done"].update.error = None
        BY DEF NewRequest, NoUpdate
      <3>2. QED
        BY <3>1, <1>2 DEF Commit, CancelInv, TypeOK
    <2>4. QED
      BY <2>1, <2>2, <2>3 DEF CancelInv
  <1>3. QED
    BY <1>1, <1>2

LEMMA NextCancelInv == TypeOK /\ ClaimInv /\ CancelInv /\ [Next]_vars => CancelInv'
  <1> SUFFICES ASSUME TypeOK, ClaimInv, CancelInv, [Next]_vars PROVE CancelInv'
    OBVIOUS
  <1>1. CASE UNCHANGED vars
    BY <1>1 DEF vars, CancelInv, CancelFlagHonoured, PastLastGate
  <1>2. ASSUME NEW r \in Runs, Create(r), UNCHANGED <<request, late>>,
               NEW w \in Workers, worker'[w] = worker[w] \/ ~\E s \in Runs : PastLastGate(w, s)',
               \A v \in Workers \ {w} : worker'[v] = worker[v]
        PROVE  CancelInv'
    <2>1. /\ row'[r].status = "QUEUED" /\ row'[r].error = row[r].error
          /\ \A s \in Runs \ {r} : row'[s] = row[s]
      BY <1>2 DEF Create, TypeOK, Row
    <2>2. \A v \in Workers, s \in Runs : PastLastGate(v, s)' => PastLastGate(v, s)
      BY <1>2 DEF PastLastGate
    <2>3. CancelFlagHonoured'
      BY <2>1, <1>2 DEF CancelInv, CancelFlagHonoured
    <2>4. QED
      BY <2>1, <2>2, <2>3, <1>2 DEF CancelInv
  <1>3. ASSUME NEW r \in Runs, Submit(r)
        PROVE  CancelInv'
    <2>1. /\ row'[r].status = "QUEUED" /\ row'[r].error = row[r].error
          /\ \A s \in Runs \ {r} : row'[s] = row[s]
          /\ UNCHANGED <<worker, request, late>>
      BY <1>3 DEF Submit, Create, TypeOK, Row, history
    <2>2. CancelFlagHonoured'
      BY <2>1 DEF CancelInv, CancelFlagHonoured
    <2>3. QED
      BY <2>1, <2>2 DEF CancelInv, PastLastGate
  <1>4. ASSUME NEW w \in Workers, NEW r \in Runs, CliStart(w, r)
        PROVE  CancelInv'
    <2>1. worker'[w] = [Idle EXCEPT !.pc = "load", !.run = r]
          /\ \A v \in Workers \ {w} : worker'[v] = worker[v]
      BY <1>4 DEF CliStart, Become, TypeOK
    <2>2. worker'[w].pc = "load"
      BY <2>1 DEF Idle
    <2>3. ~\E s \in Runs : PastLastGate(w, s)'
      BY <2>2 DEF PastLastGate
    <2>4. QED
      BY <2>1, <2>3, <1>2, <1>4 DEF CliStart, history
  <1>5. ASSUME NEW w \in Workers, NEW r \in Runs, Claim(w, r)
        PROVE  CancelInv'
    <2>1. /\ worker'[w].pc = "claimed"
          /\ \A v \in Workers \ {w} : worker'[v] = worker[v]
          /\ UNCHANGED <<row, request, late>>
      BY <1>5 DEF Claim, Become, TypeOK, Idle, history
    <2>2. CancelFlagHonoured'
      BY <2>1 DEF CancelInv, CancelFlagHonoured
    <2>3. QED
      BY <2>1, <2>2 DEF CancelInv, PastLastGate
  <1>6. ASSUME NEW w \in Workers, Step(w)
        PROVE  CancelInv'
    <2>1. worker[w].pc = "advance" => worker[w].stage # "QUEUED"
      BY DEF ClaimInv
    <2>2. Moves(w) /\ PassesLastGate(w) /\ Writes(w)
      BY <2>1, <1>6, StepMoves, StepWrites
    <2>3. UNCHANGED <<request, late>> /\ worker[w].run \in Runs
      BY <1>6, StepFrame, Busy
    <2>4. QED
      BY <2>2, <2>3, MoveKeepsCancelInv
  <1>7. ASSUME NEW w \in Workers, Fault(w)
        PROVE  CancelInv'
    <2>1. Moves(w) /\ PassesLastGate(w) /\ Writes(w) /\ UNCHANGED <<request, late>>
      BY <1>7, FaultMoves, NoWrite
    <2>2. worker[w].pc # "idle"
      BY <1>7 DEF Fault, SettleRetry, SettleGiveUp, Escape, Crash, Shutdown
    <2>3. QED
      BY <2>1, <2>2, Busy, MoveKeepsCancelInv
  <1>8. ASSUME NEW q \in Requests,
               (\E kind \in Kinds, r \in Runs : Receive(q, kind, r)) \/ Commit(q)
        PROVE  CancelInv'
    BY <1>8, RequestKeepsCancelInv
  <1>9. QED
    BY <1>1, <1>3, <1>4, <1>5, <1>6, <1>7, <1>8 DEF Next

\* A cancellation flagged in error_json is final unless it committed after an
\* executor's last gate, for every number of workers and requests and any faults.
THEOREM CancelHonoured == Spec => []CancelFlagHonoured
  <1>1. CancelInv => CancelFlagHonoured
    BY DEF CancelInv
  <1>2. QED
    BY <1>1, InitType, InitClaimInv, InitCancelInv, NextType, NextClaimInv, NextCancelInv, PTL
    DEF Spec

-----------------------------------------------------------------------------
(* The status and the outcome of a run that no review requeued and no CLI executes: it has *)
(* one executor at most, and Fits says what the executor's copy of the row may be while    *)
(* requests change the row behind it.                                                      *)

Results == {"answered", "other"}

\* A row whose columns agree.
Agreed(x) ==
    /\ x.status = "COMPLETED" => x.outcome \in Results
    /\ x.status = "FAILED" => x.outcome \in {"failed", "cancelled"} /\ x.error # "none"

\* Before anything terminal was written by the executor itself.
Early == {"load", "gate", "advance", "critic", "conclude", "paused"}

\* The execution e against the row x that it executes.
Fits(x, e) ==
    /\ e.pc \notin {"resume", "resumeSynth", "resumeOutcome"}
    /\ e.pc \in Early =>
         x.outcome \notin Results /\ x.status \notin {"COMPLETED", "FAILED"}
    /\ e.pc = "load" => x.status # "REVIEW_REQUIRED"
    /\ e.pc # "load" =>
         /\ e.pc \in Early => e.seen.outcome \notin Results
         /\ e.seen.outcome = "failed" => x.outcome \in {"failed", "cancelled"}
         /\ e.seen.error # "none" => x.error # "none"
         /\ x.status = "COMPLETED" => e.seen.status = "COMPLETED"

\* What a request has read allows it to cancel, to requeue or to change nothing that counts.
Harmless(u) ==
    /\ u.outcome \in {None, "cancelled"} /\ u.error \in {None, "cancel_requested"}
    /\ \/ u.status \in {"CANCELLED", "QUEUED"}
       \/ u.status = None /\ u.outcome = None /\ u.error = None

AgreeInv ==
    /\ \A r \in Runs : requeues[r] = 0 =>
         /\ Agreed(row[r])
         /\ row[r].status \in {"absent", "QUEUED"} => row[r].outcome \notin Results
    /\ \A w \in Workers : Executing(w) /\ requeues[worker[w].run] = 0 =>
         Fits(row[worker[w].run], worker[w])
    /\ \A q \in Requests : request[q].pc = "read" => Harmless(request[q].update)

-----------------------------------------------------------------------------
(* What the writes do to the columns *)

LEMMA FlushColumns ==
    ASSUME row \in [Runs -> Row], NEW r \in Runs, NEW seen \in Row, NEW want \in Row,
           row' = Flush(r, seen, want)
    PROVE  /\ \A s \in Runs \ {r} : row'[s] = row[s]
           /\ row'[r].status = IF want.status # seen.status THEN want.status ELSE row[r].status
           /\ row'[r].outcome =
                 IF want.outcome # seen.outcome THEN want.outcome ELSE row[r].outcome
           /\ row'[r].error = IF want.error # seen.error THEN want.error ELSE row[r].error
  <1>1. row'[r] = Apply(Changes(seen, want), row[r]) /\ \A s \in Runs \ {r} : row'[s] = row[s]
    BY DEF Flush
  <1>2. want.status # None /\ want.outcome # None /\ want.error # None
    BY NoneAssumption DEF Row
  <1>3. QED
    BY <1>1, <1>2 DEF Apply, Changes

\* A step that leaves the row alone moves on with what was read before, or reads again.
Reads(w) ==
    LET e == worker[w]
        f == worker'[w]
    IN
    /\ UNCHANGED row
    /\ \/ f = Idle
       \/ /\ f.pc \notin {"load", "resume", "resumeSynth", "resumeOutcome"}
          /\ f.pc \in Early => e.pc \in Early
          /\ f.seen = row[e.run] \/ (e.pc # "load" /\ f.seen = e.seen)

\* What a step of an executor keeps of its run.
Keeps(w) ==
    LET r == worker[w].run IN
    /\ Agreed(row'[r])
    /\ worker'[w] = Idle \/ Fits(row'[r], worker'[w])
    /\ row[r].status \in {"COMPLETED", "FAILED"} => row'[r].status \in Terminal

LEMMA ReadsKeeps ==
    ASSUME TypeOK, NEW w \in Workers, Reads(w), Agreed(row[worker[w].run]),
           Fits(row[worker[w].run], worker[w])
    PROVE  Keeps(w)
  BY DEF Reads, Keeps, Fits, Agreed, Terminal

LEMMA ThrowReads ==
    ASSUME TypeOK, NEW w \in Workers, worker[w].pc # "idle", UNCHANGED row, NEW exc,
           \/ Throw(w, Fresh(w), exc)
           \/ Throw(w, worker[w], exc) /\ worker[w].pc # "load"
    PROVE  Reads(w)
  <1>1. worker[w] \in Execution /\ Fresh(w) \in Execution /\ Fresh(w).seen = row[worker[w].run]
    BY Busy DEF Fresh, Execution
  <1>2. \A e \in Execution :
           Throw(w, e, exc) => worker'[w].pc = "settle" /\ worker'[w].seen = e.seen
    BY DEF Throw, Become, Execution, TypeOK
  <1>3. QED
    BY <1>1, <1>2 DEF Reads, Early

\* The steps of an executor that write nothing.
LEMMA StepReads ==
    ASSUME TypeOK, NEW w \in Workers, Fits(row[worker[w].run], worker[w]),
           \/ Load(w) \/ GateCancelled(w) \/ GateTimeout(w) \/ GatePass(w)
           \/ AdvanceForbidden(w) \/ Replan(w) \/ Accept(w) \/ PauseForbidden(w)
           \/ PauseDone(w) \/ DispatchDone(w) \/ Raise(w) \/ Return(w)
    PROVE  Reads(w)
  <1> DEFINE r == worker[w].run
             x == row[r]
  <1>a. worker[w].pc # "idle"
    BY DEF Load, GateCancelled, GateTimeout, GatePass, AdvanceForbidden, Replan, Accept,
           PauseForbidden, PauseDone, DispatchDone, Raise, Return
  <1>b. /\ worker[w] \in Execution /\ worker \in [Workers -> Execution]
        /\ Fresh(w) \in Execution /\ Fresh(w).seen = x
    BY <1>a, Busy DEF TypeOK, Fresh, Execution
  <1>1. CASE Load(w)
    <2>1. x.status # "REVIEW_REQUIRED" /\ worker[w].pc = "load"
      BY <1>1 DEF Load, Fits
    <2>2. worker'[w] = [Fresh(w) EXCEPT !.decided = x.decided, !.pc = "gate"]
      BY <1>1, <2>1, <1>b DEF Load, Become
    <2>3. worker'[w].pc = "gate" /\ worker'[w].seen = x
      BY <2>2, <1>b DEF Execution
    <2>4. UNCHANGED row
      BY <1>1 DEF Load
    <2>5. QED
      BY <2>1, <2>3, <2>4 DEF Reads, Early
  <1>2. CASE GateCancelled(w) \/ GateTimeout(w)
    BY <1>2, <1>a, ThrowReads DEF GateCancelled, GateTimeout
  <1>3. CASE GatePass(w)
    <2>1. /\ UNCHANGED row /\ worker[w].pc = "gate"
          /\ \/ worker'[w] = [Fresh(w) EXCEPT !.pc = "critic"]
             \/ worker'[w] = [Fresh(w) EXCEPT !.pc = "conclude"]
             \/ \E t \in Stages : worker'[w] = [Fresh(w) EXCEPT !.pc = "advance", !.stage = t]
      <3>1. \A t \in DOMAIN Following : Following[t] \in Stages
        BY DEF Following, Stages
      <3>2. QED
        BY <3>1, <1>3, <1>b DEF GatePass, Become
    <2>2. /\ [Fresh(w) EXCEPT !.pc = "critic"].pc = "critic"
          /\ [Fresh(w) EXCEPT !.pc = "critic"].seen = x
          /\ [Fresh(w) EXCEPT !.pc = "conclude"].pc = "conclude"
          /\ [Fresh(w) EXCEPT !.pc = "conclude"].seen = x
          /\ \A t \in Stages :
                /\ [Fresh(w) EXCEPT !.pc = "advance", !.stage = t].pc = "advance"
                /\ [Fresh(w) EXCEPT !.pc = "advance", !.stage = t].seen = x
      BY <1>b DEF Execution
    <2>3. worker'[w].pc \in {"critic", "conclude", "advance"} /\ worker'[w].seen = x
      BY <2>1, <2>2
    <2>4. QED
      BY <2>1, <2>3 DEF Reads, Early
  <1>4. CASE AdvanceForbidden(w) \/ PauseForbidden(w) \/ Raise(w)
    BY <1>4, <1>a, ThrowReads DEF AdvanceForbidden, PauseForbidden, Raise
  <1>5. CASE Replan(w) \/ Accept(w)
    <2>1. /\ UNCHANGED row /\ worker[w].pc = "critic"
          /\ worker'[w].pc = "advance" /\ worker'[w].seen = worker[w].seen
      <3>1. CASE Replan(w)
        <4>1. \A n \in 0 .. 1 :
                LET e == [worker[w] EXCEPT !.replans = n, !.stage = "DISCOVERING", !.pc = "advance"]
                IN  e.pc = "advance" /\ e.seen = worker[w].seen
          BY <1>b DEF Execution
        <4>2. worker[w].replans + 1 \in 0 .. 1
          BY <3>1, <1>b DEF Replan, Execution
        <4>3. QED
          BY <4>1, <4>2, <3>1, <1>b DEF Replan, Become
      <3>2. CASE Accept(w)
        BY <3>2, <1>b DEF Accept, Become, Execution
      <3>3. QED
        BY <3>1, <3>2, <1>5
    <2>2. QED
      BY <2>1 DEF Reads, Early
  <1>6. CASE PauseDone(w) \/ DispatchDone(w) \/ Return(w)
    BY <1>6, <1>b DEF PauseDone, DispatchDone, Return, Become, Reads
  <1>7. QED
    BY <1>1, <1>2, <1>3, <1>4, <1>5, <1>6

LEMMA FaultReads ==
    ASSUME TypeOK, NEW w \in Workers, Fault(w)
    PROVE  Reads(w)
  <1>a. worker[w].pc # "idle" /\ UNCHANGED row
    BY DEF Fault, SettleRetry, SettleGiveUp, Escape, Crash, Shutdown
  <1>b. /\ worker[w] \in Execution /\ worker \in [Workers -> Execution]
        /\ Fresh(w) \in Execution /\ Fresh(w).seen = row[worker[w].run]
    BY <1>a, Busy DEF TypeOK, Fresh, Execution
  <1>1. CASE SettleRetry(w)
    <2>1. worker'[w] = [Fresh(w) EXCEPT !.pc = "settle2"]
      BY <1>1, <1>b DEF SettleRetry, Become
    <2>2. worker'[w].pc = "settle2" /\ worker'[w].seen = row[worker[w].run]
      BY <2>1, <1>b DEF Execution
    <2>3. QED
      BY <2>2, <1>a DEF Reads, Early
  <1>2. CASE SettleGiveUp(w)
    <2>1. worker'[w].pc = "abandoned" /\ worker'[w].seen = worker[w].seen
      BY <1>2, <1>b DEF SettleGiveUp, Become, Execution
    <2>2. QED
      BY <1>2, <2>1, <1>a DEF SettleGiveUp, Reads, Early
  <1>3. CASE Escape(w)
    <2>1. \/ worker'[w] = Idle
          \/ worker'[w] = [Fresh(w) EXCEPT !.exc = "failure", !.pc = "rescue"]
      BY <1>3, <1>b DEF Escape, Become
    <2>2. LET e == [Fresh(w) EXCEPT !.exc = "failure", !.pc = "rescue"]
          IN  e.pc = "rescue" /\ e.seen = row[worker[w].run]
      BY <1>b DEF Execution
    <2>3. QED
      BY <2>1, <2>2, <1>a DEF Reads, Early
  <1>4. CASE Crash(w)
    BY <1>4, <1>a, <1>b DEF Crash, Become, Reads
  <1>5. CASE Shutdown(w)
    <2>1. worker[w].pc # "load"
      BY <1>5 DEF Shutdown
    <2>2. QED
      BY <2>1, <1>5, <1>a, ThrowReads DEF Shutdown
  <1>6. QED
    BY <1>1, <1>2, <1>3, <1>4, <1>5 DEF Fault

-----------------------------------------------------------------------------
(* The steps of an executor that write the row *)

\* transition_state writes neither result nor error, and completes nothing here.
LEMMA TransitionKeeps ==
    ASSUME TypeOK, NEW w \in Workers, worker[w].pc \in Early \ {"load"},
           NEW t \in Stages \cup {"REVIEW_REQUIRED"}, Transition(w, t),
           worker'[w].seen = Saw(w, t), worker'[w].pc \in Early \ {"load"},
           Agreed(row[worker[w].run]), Fits(row[worker[w].run], worker[w])
    PROVE  Keeps(w)
  <1> DEFINE r == worker[w].run
             seen == worker[w].seen
  <1>a. /\ row \in [Runs -> Row] /\ r \in Runs /\ seen \in Row /\ t \in Statuses
        /\ Saw(w, t) \in Row
    BY Busy, StatusTypes DEF TypeOK, Early
  <1>1. /\ Saw(w, t).status = t /\ Saw(w, t).error = seen.error
        /\ Saw(w, t).outcome = seen.outcome
    BY <1>a DEF Saw, Row
  <1>2. /\ row'[r].status \in {t, row[r].status}
        /\ row'[r].outcome = row[r].outcome /\ row'[r].error = row[r].error
    BY <1>a, <1>1, FlushColumns DEF Transition
  <1>3. t \notin Terminal
    BY DEF Stages, Terminal
  <1>4. QED
    BY <1>1, <1>2, <1>3 DEF Keeps, Fits, Agreed, Early, Terminal

LEMMA BudgetKeeps ==
    ASSUME TypeOK, NEW w \in Workers, GateBudget(w),
           Fits(row[worker[w].run], worker[w])
    PROVE  Keeps(w)
  <1> DEFINE r == worker[w].run
             failed == [row[r] EXCEPT !.status = "FAILED", !.outcome = "failed",
                                      !.error = "budget_exceeded"]
  <1>a. /\ row \in [Runs -> Row] /\ r \in Runs /\ row[r] \in Row
        /\ worker[w] \in Execution /\ worker[w].pc = "gate"
        /\ worker \in [Workers -> Execution]
    BY Busy DEF GateBudget, TypeOK
  <1>1. /\ failed \in Row /\ failed.status = "FAILED" /\ failed.outcome = "failed"
        /\ failed.error = "budget_exceeded"
    BY <1>a, RowUpdate, StatusTypes DEF Row
  <1>2. row' = Flush(r, row[r], failed) /\ Throw(w, [worker[w] EXCEPT !.seen = failed], "budget")
    BY DEF GateBudget
  <1> HIDE DEF failed
  <1>3. /\ row'[r].status = "FAILED" /\ row'[r].outcome = "failed"
        /\ row'[r].error = "budget_exceeded"
    BY <1>a, <1>1, <1>2, FlushColumns
  <1>4. worker'[w].pc = "settle" /\ worker'[w].seen = failed
    BY <1>a, <1>1, <1>2 DEF Throw, Become, Execution
  <1>5. QED
    BY <1>1, <1>3, <1>4 DEF Keeps, Fits, Agreed, Early, Terminal

LEMMA CompleteKeeps ==
    ASSUME TypeOK, NEW w \in Workers, NEW o \in Results, Complete(w, o),
           Agreed(row[worker[w].run]), Fits(row[worker[w].run], worker[w])
    PROVE  Keeps(w)
  <1> DEFINE r == worker[w].run
             seen == worker[w].seen
             done == [seen EXCEPT !.status = "COMPLETED", !.outcome = o]
  <1>a. /\ row \in [Runs -> Row] /\ r \in Runs /\ seen \in Row
        /\ worker[w] \in Execution /\ worker[w].pc = "conclude"
        /\ worker \in [Workers -> Execution] /\ o \in Outcomes
    BY Busy, StatusTypes DEF Complete, TypeOK, Results
  <1>1. /\ done \in Row /\ done.status = "COMPLETED" /\ done.outcome = o
        /\ done.error = seen.error
    BY <1>a, RowUpdate, StatusTypes DEF Row
  <1>2. /\ row' = Flush(r, seen, done)
        /\ \/ worker'[w] = [worker[w] EXCEPT !.seen = done, !.pc = "dispatch"]
           \/ worker'[w] = Idle
    BY <1>a DEF Complete, Become
  <1> HIDE DEF done
  <1>3. seen.outcome \notin Results /\ row[r].status \notin {"COMPLETED", "FAILED"}
    BY <1>a DEF Fits, Early
  <1>4. /\ row'[r].status \in {"COMPLETED", row[r].status}
        /\ row'[r].outcome = o /\ row'[r].error = row[r].error
    BY <1>a, <1>1, <1>2, <1>3, FlushColumns
  <1>5. \/ worker'[w] = Idle
        \/ worker'[w].pc = "dispatch" /\ worker'[w].seen = done
    BY <1>2, <1>a DEF Execution
  <1>6. Fits(row'[r], worker'[w]) \/ worker'[w] = Idle
    BY <1>a, <1>1, <1>4, <1>5 DEF Fits, Early, Results
  <1>7. QED
    BY <1>3, <1>4, <1>6 DEF Keeps, Agreed

LEMMA PersistKeeps ==
    ASSUME TypeOK, NEW w \in Workers, worker[w].pc \in {"settle", "settle2", "rescue"},
           Persist(w),
           worker'[w] = Idle \/ (worker'[w].pc = "report" /\ worker'[w].seen = Verdict(w)),
           Agreed(row[worker[w].run]), Fits(row[worker[w].run], worker[w])
    PROVE  Keeps(w)
  <1> DEFINE r == worker[w].run
             seen == worker[w].seen
             want == Verdict(w)
             lost == Unlike(seen)
  <1>a. row \in [Runs -> Row] /\ r \in Runs /\ seen \in Row /\ want \in Row
    BY Busy DEF TypeOK
  <1>b. lost \in Row /\ lost.status = seen.status /\ lost.outcome = seen.outcome
        /\ lost.error = "none"
    <2>1. \A y \in Row : /\ Unlike(y) \in Row /\ Unlike(y).status = y.status
                         /\ Unlike(y).outcome = y.outcome /\ Unlike(y).error = "none"
      BY StatusTypes, RowUpdate DEF Unlike, Row
    <2>2. QED
      BY <2>1, <1>a
  <1>c. /\ worker[w].exc = "cancelled" =>
              want.status = "CANCELLED" /\ want.outcome = "cancelled" /\ want.error = seen.error
        /\ worker[w].exc # "cancelled" =>
              want.status = "FAILED" /\ want.outcome = "failed" /\ want.error = "failure"
    BY <1>a DEF Verdict, Row
  <1>d. /\ row[r].status = "COMPLETED" => seen.status = "COMPLETED"
        /\ seen.outcome = "failed" => row[r].outcome \in {"failed", "cancelled"}
        /\ seen.error # "none" => row[r].error # "none"
    BY DEF Fits
  <1> HIDE DEF want, lost
  <1>1. /\ row'[r].status = IF want.status # seen.status THEN want.status ELSE row[r].status
        /\ row'[r].outcome = IF want.outcome # seen.outcome THEN want.outcome ELSE row[r].outcome
        /\ \/ row'[r].error = IF want.error # seen.error THEN want.error ELSE row[r].error
           \/ want.error = "failure" /\ row'[r].error = "failure"
    <2>1. CASE row' = Flush(r, seen, want)
      BY <2>1, <1>a, FlushColumns
    <2>2. CASE worker[w].exc # "cancelled" /\ row' = Flush(r, lost, want)
      BY <2>2, <1>a, <1>b, <1>c, FlushColumns
    <2>3. QED
      BY <2>1, <2>2 DEF Persist, want, lost
  <1>2. row'[r].status # "COMPLETED" /\ row'[r].status \in {row[r].status, "CANCELLED", "FAILED"}
    BY <1>1, <1>c, <1>d
  <1>3. Agreed(row'[r])
    BY <1>1, <1>2, <1>c, <1>d DEF Agreed
  <1>4. worker'[w].seen = want /\ worker'[w].pc = "report" => Fits(row'[r], worker'[w])
    BY <1>1, <1>2, <1>c, <1>d DEF Fits, Early
  <1>5. QED
    BY <1>2, <1>3, <1>4 DEF Keeps, Terminal, want

LEMMA StepKeeps ==
    ASSUME TypeOK, NEW w \in Workers, Step(w), ~ClaimCommit(w),
           Agreed(row[worker[w].run]), Fits(row[worker[w].run], worker[w]),
           worker[w].pc = "advance" => worker[w].stage # "QUEUED"
    PROVE  Keeps(w)
  <1> DEFINE r == worker[w].run
  <1>a. worker[w] \in Execution /\ worker \in [Workers -> Execution]
    BY StepFrame, Busy DEF TypeOK
  <1>1. CASE \/ Load(w) \/ GateCancelled(w) \/ GateTimeout(w) \/ GatePass(w)
             \/ AdvanceForbidden(w) \/ Replan(w) \/ Accept(w) \/ PauseForbidden(w)
             \/ PauseDone(w) \/ DispatchDone(w) \/ Raise(w) \/ Return(w)
    BY <1>1, StepReads, ReadsKeeps
  <1>2. CASE GateBudget(w)
    BY <1>2, BudgetKeeps
  <1>3. CASE Advance(w) \/ Pause(w)
    <2>1. \A x \in Row, pc \in Pcs :
             /\ [worker[w] EXCEPT !.seen = x, !.pc = pc].seen = x
             /\ [worker[w] EXCEPT !.seen = x, !.pc = pc].pc = pc
      BY <1>a DEF Execution
    <2>2. CASE Advance(w)
      <3>1. worker[w].stage \in Stages /\ Saw(w, worker[w].stage) \in Row
        BY <2>2, <1>a, Busy, StatusTypes DEF Advance, Execution
      <3>2. worker'[w].seen = Saw(w, worker[w].stage) /\ worker'[w].pc = "gate"
        BY <2>1, <2>2, <3>1, <1>a DEF Advance, Become, Pcs
      <3>3. QED
        BY <2>2, <3>1, <3>2, TransitionKeeps DEF Advance, Early
    <2>3. CASE Pause(w)
      <3>1. Saw(w, "REVIEW_REQUIRED") \in Row
        BY <2>3, Busy, StatusTypes DEF Pause
      <3>2. worker'[w].seen = Saw(w, "REVIEW_REQUIRED") /\ worker'[w].pc = "paused"
        BY <2>1, <2>3, <3>1, <1>a DEF Pause, Become, Pcs
      <3>3. QED
        BY <2>3, <3>1, <3>2, TransitionKeeps DEF Pause, Early
    <2>4. QED
      BY <1>3, <2>2, <2>3
  <1>4. ASSUME NEW o \in {"answered", "other"}, Complete(w, o)
        PROVE  Keeps(w)
    BY <1>4, CompleteKeeps DEF Results
  <1>5. CASE Settle(w) \/ Rescue(w)
    <2>1. CASE Settle(w)
      <3>1. Verdict(w) \in Row
        BY <2>1, Busy DEF Settle
      <3>2. \/ worker'[w] = Idle
            \/ worker'[w] = [worker[w] EXCEPT !.seen = Verdict(w), !.pc = "report"]
        BY <2>1, <1>a DEF Settle, Become
      <3>3. \A x \in Row : /\ [worker[w] EXCEPT !.seen = x, !.pc = "report"].seen = x
                           /\ [worker[w] EXCEPT !.seen = x, !.pc = "report"].pc = "report"
        BY <1>a DEF Execution
      <3>4. \/ worker'[w] = Idle
            \/ worker'[w].pc = "report" /\ worker'[w].seen = Verdict(w)
        BY <3>1, <3>2, <3>3
      <3>5. QED
        BY <2>1, <3>4, PersistKeeps DEF Settle
    <2>2. CASE Rescue(w)
      BY <2>2, <1>a, PersistKeeps DEF Rescue, Become
    <2>3. QED
      BY <2>1, <2>2, <1>5
  <1>6. ~ResumeStart(w) /\ ~ResumeComplete(w) /\ \A o \in {"answered", "other"} : ~ResumeOutcome(w, o)
    BY DEF ResumeStart, ResumeComplete, ResumeOutcome, Fits
  <1>7. QED
    BY <1>1, <1>2, <1>3, <1>4, <1>5, <1>6 DEF Step

-----------------------------------------------------------------------------
(* The invariant *)

LEMMA InitAgreeInv == Init => AgreeInv
  <1>1. NoRow.status = "absent" /\ NoRow.outcome = "none"
    BY DEF NoRow
  <1>2. Idle.pc = "idle" /\ NewRequest.pc = "new"
    BY DEF Idle, NewRequest
  <1>3. QED
    BY <1>1, <1>2 DEF Init, AgreeInv, Agreed, Executing, Results

\* The only executor of a run that was never requeued has claimed it.
LEMMA SoleExecutor ==
    ASSUME TypeOK, ClaimInv, Clis = {}, NEW w \in Workers, worker[w].pc # "idle",
           requeues[worker[w].run] = 0
    PROVE  /\ \A v \in Workers \ {w} : worker[v].run # worker[w].run
           /\ worker[w].pc # "claimed" => row[worker[w].run].status \notin {"absent", "QUEUED"}
  <1>1. worker[w].run \in Runs /\ claims \in [Runs -> Nat]
    BY DEF TypeOK
  <1>2. \A v \in Workers \ {w} : worker[v].run # worker[w].run
    BY <1>1 DEF ClaimInv, SharedOnlyAfterRequeue, Executors
  <1>3. worker[w].pc # "claimed" => claims[worker[w].run] >= 1
    BY DEF ClaimInv, Executing
  <1>4. QED
    BY <1>1, <1>2, <1>3 DEF ClaimInv

\* A step of an executor that keeps its run keeps the invariant.
LEMMA KeepsAgreeInv ==
    ASSUME TypeOK, ClaimInv, AgreeInv, Clis = {}, NEW w \in Workers,
           worker[w].pc \notin {"idle", "claimed"},
           Moves(w), Writes(w), UNCHANGED <<request, requeues>>,
           requeues[worker[w].run] = 0 => Keeps(w)
    PROVE  AgreeInv'
  <1> DEFINE r == worker[w].run
  <1>a. r \in Runs
    BY Busy
  <1>b. /\ \A s \in Runs \ {r} : row'[s] = row[s]
        /\ \A v \in Workers \ {w} : worker'[v] = worker[v]
        /\ worker'[w] = Idle \/ worker'[w].run = r
    BY DEF Moves, Writes
  <1>1. ASSUME NEW s \in Runs, requeues[s] = 0
        PROVE  /\ Agreed(row'[s])
               /\ row'[s].status \in {"absent", "QUEUED"} => row'[s].outcome \notin Results
    <2>1. CASE s = r
      <3>1. row[r].status \notin {"absent", "QUEUED"}
        BY <1>1, <2>1, SoleExecutor
      <3>2. row'[r].status \notin {"absent", "QUEUED"}
        BY <3>1 DEF Writes
      <3>3. QED
        BY <3>2, <2>1, <1>1 DEF Keeps
    <2>2. CASE s # r
      BY <2>2, <1>1, <1>b DEF AgreeInv
    <2>3. QED
      BY <2>1, <2>2
  <1>2. ASSUME NEW v \in Workers, Executing(v)', requeues[worker'[v].run] = 0
        PROVE  Fits(row'[worker'[v].run], worker'[v])
    <2>1. CASE v = w
      <3>1. worker'[w] # Idle
        BY <2>1, <1>2, IdleFacts DEF Executing
      <3>2. QED
        BY <2>1, <3>1, <1>2, <1>b DEF Keeps
    <2>2. CASE v # w
      <3>1. worker'[v] = worker[v] /\ Executing(v) /\ worker[v].run \in Runs
        BY <2>2, <1>2, <1>b DEF Executing, TypeOK
      <3>2. CASE worker[v].run = r
        BY <3>1, <3>2, <2>2, <1>2, SoleExecutor
      <3>3. CASE worker[v].run # r
        BY <3>1, <3>3, <1>2, <1>b DEF AgreeInv
      <3>4. QED
        BY <3>2, <3>3
    <2>3. QED
      BY <2>1, <2>2
  <1>3. QED
    BY <1>1, <1>2 DEF AgreeInv

\* What a request has read is harmless.
LEMMA WantedHarmless ==
    ASSUME NEW kind \in RequestKinds, NEW r \in Runs, NEW x \in Row, Accepts(kind, x)
    PROVE  Harmless(Changes(x, Wanted(kind, r, x)))
  <1>1. CASE kind \in {"apiCancel", "webCancel", "fridayCancel"}
    BY <1>1 DEF Accepts, Terminal, Harmless, Changes, Wanted, Row
  <1>2. CASE kind \in {"apiReview", "webReview"}
    <2>1. /\ Wanted(kind, r, x).status = "QUEUED" /\ Wanted(kind, r, x).outcome = x.outcome
          /\ Wanted(kind, r, x).error = x.error
      BY <1>2 DEF Wanted, Requeued, Row
    <2>2. QED
      BY <2>1 DEF Harmless, Changes
  <1>3. QED
    BY <1>1, <1>2 DEF RequestKinds

\* What a harmless update leaves of a row that it does not queue.
LEMMA HarmlessApplied ==
    ASSUME NEW u \in Update, NEW x \in Row, Harmless(u), u.status # "QUEUED"
    PROVE  LET y == Apply(u, x) IN
           /\ Agreed(x) => Agreed(y)
           /\ \A e \in Execution : Fits(x, e) => Fits(y, e)
           /\ x.status \in {"COMPLETED", "FAILED"} => y.status \in Terminal
           /\ y.status \in {"absent", "QUEUED"} => y.status = x.status /\ y.outcome = x.outcome
  <1> DEFINE y == Apply(u, x)
  <1>1. \/ y.status = x.status /\ y.outcome = x.outcome /\ y.error = x.error
        \/ /\ y.status = "CANCELLED" /\ y.outcome \in {x.outcome, "cancelled"}
           /\ y.error \in {x.error, "cancel_requested"}
    <2>1. /\ y.status = IF u.status = None THEN x.status ELSE u.status
          /\ y.outcome = IF u.outcome = None THEN x.outcome ELSE u.outcome
          /\ y.error = IF u.error = None THEN x.error ELSE u.error
      BY DEF Apply
    <2>2. None # "CANCELLED"
      BY NoneAssumption, StatusTypes
    <2>3. QED
      BY <2>1, <2>2 DEF Harmless
  <1> HIDE DEF y
  <1>2. Agreed(x) => Agreed(y)
    BY <1>1 DEF Agreed
  <1>3. \A e \in Execution : Fits(x, e) => Fits(y, e)
    BY <1>1 DEF Fits, Results
  <1>4. QED
    BY <1>1, <1>2, <1>3 DEF Terminal, y

LEMMA RequestAgreeInv ==
    ASSUME TypeOK, AgreeInv, NEW q \in Requests,
           (\E kind \in Kinds, r \in Runs : Receive(q, kind, r)) \/ Commit(q)
    PROVE  AgreeInv'
  <1>1. ASSUME NEW kind \in Kinds, NEW r \in Runs, Receive(q, kind, r)
        PROVE  AgreeInv'
    <2>1. UNCHANGED <<row, worker, requeues>>
      BY <1>1 DEF Receive, history
    <2>2. /\ request'[q].update = Changes(row[r], Wanted(kind, r, row[r]))
          /\ \A p \in Requests \ {q} : request'[p] = request[p]
          /\ Accepts(kind, row[r]) /\ kind \in RequestKinds /\ row[r] \in Row
      BY <1>1, KindsAssumption DEF Receive, TypeOK
    <2>3. Harmless(request'[q].update)
      BY <2>2, WantedHarmless
    <2>4. QED
      BY <2>1, <2>2, <2>3 DEF AgreeInv, Executing
  <1>2. CASE Commit(q)
    <2> DEFINE r == request[q].run
               u == request[q].update
    <2>a. /\ r \in Runs /\ u \in Update /\ row \in [Runs -> Row] /\ row[r] \in Row
          /\ requeues \in [Runs -> Nat] /\ Harmless(u)
      BY <1>2 DEF Commit, TypeOK, Request, AgreeInv
    <2>b. /\ row'[r] = Apply(u, row[r]) /\ \A s \in Runs \ {r} : row'[s] = row[s]
          /\ requeues'[r] = IF u.status = "QUEUED" THEN requeues[r] + 1 ELSE requeues[r]
          /\ \A s \in Runs \ {r} : requeues'[s] = requeues[s]
          /\ UNCHANGED worker
      BY <1>2, <2>a DEF Commit
    <2>c. \A s \in Runs : requeues'[s] = 0 => requeues[s] = 0 /\ (s = r => u.status # "QUEUED")
      BY <2>a, <2>b
    <2>1. ASSUME NEW s \in Runs, requeues'[s] = 0
          PROVE  /\ Agreed(row'[s])
                 /\ row'[s].status \in {"absent", "QUEUED"} => row'[s].outcome \notin Results
      <3>1. CASE s = r
        BY <3>1, <2>1, <2>a, <2>b, <2>c, HarmlessApplied DEF AgreeInv
      <3>2. CASE s # r
        BY <3>2, <2>1, <2>b, <2>c DEF AgreeInv
      <3>3. QED
        BY <3>1, <3>2
    <2>2. ASSUME NEW v \in Workers, Executing(v)', requeues'[worker'[v].run] = 0
          PROVE  Fits(row'[worker'[v].run], worker'[v])
      <3>1. /\ worker'[v] = worker[v] /\ Executing(v) /\ worker[v].run \in Runs
            /\ worker[v] \in Execution
        BY <2>2, <2>b DEF Executing, TypeOK
      <3>2. Fits(row[worker[v].run], worker[v])
        BY <3>1, <2>2, <2>c DEF AgreeInv
      <3>3. CASE worker[v].run = r
        BY <3>1, <3>2, <3>3, <2>2, <2>a, <2>b, <2>c, HarmlessApplied
      <3>4. CASE worker[v].run # r
        BY <3>1, <3>2, <3>4, <2>b
      <3>5. QED
        BY <3>3, <3>4
    <2>3. \A p \in Requests : request'[p].pc = "read" => Harmless(request'[p].update)
      <3>1. request'[q].pc = "done" /\ \A p \in Requests \ {q} : request'[p] = request[p]
        BY <1>2 DEF Commit, TypeOK, NewRequest
      <3>2. QED
        BY <3>1 DEF AgreeInv
    <2>4. QED
      BY <2>1, <2>2, <2>3 DEF AgreeInv
  <1>3. QED
    BY <1>1, <1>2

\* A committed claim: the run was queued, so no result is on its row.
LEMMA ClaimCommitAgreeInv ==
    ASSUME TypeOK, ClaimInv, AgreeInv, Clis = {}, NEW w \in Workers, ClaimCommit(w)
    PROVE  AgreeInv'
  <1> DEFINE r == worker[w].run
  <1>a. /\ r \in Runs /\ worker[w] \in Execution /\ row[r].status = "QUEUED"
        /\ row \in [Runs -> Row] /\ worker \in [Workers -> Execution]
    BY Busy DEF ClaimCommit, ClaimInv, TypeOK
  <1>b. /\ row'[r].status = "PLANNING" /\ row'[r].outcome = row[r].outcome
        /\ row'[r].error = row[r].error /\ \A s \in Runs \ {r} : row'[s] = row[s]
        /\ worker'[w].run = r /\ worker'[w].pc = "load"
        /\ \A v \in Workers \ {w} : worker'[v] = worker[v]
        /\ UNCHANGED <<request, requeues>>
    BY <1>a DEF ClaimCommit, Become, Execution, Row
  <1>1. ASSUME NEW s \in Runs, requeues[s] = 0
        PROVE  /\ Agreed(row'[s])
               /\ row'[s].status \in {"absent", "QUEUED"} => row'[s].outcome \notin Results
    BY <1>1, <1>b DEF AgreeInv, Agreed
  <1>2. ASSUME NEW v \in Workers, Executing(v)', requeues[worker'[v].run] = 0
        PROVE  Fits(row'[worker'[v].run], worker'[v])
    <2>1. CASE v = w
      <3>1. row[r].outcome \notin Results
        BY <2>1, <1>2, <1>a, <1>b DEF AgreeInv
      <3>2. QED
        BY <2>1, <3>1, <1>b DEF Fits
    <2>2. CASE v # w
      <3>1. worker'[v] = worker[v] /\ Executing(v) /\ worker[v].run \in Runs
        BY <2>2, <1>2, <1>b DEF Executing, TypeOK
      <3>2. worker[v].run # r
        BY <3>1, <2>2, <1>2, SoleExecutor DEF ClaimCommit
      <3>3. QED
        BY <3>1, <3>2, <1>2, <1>b DEF AgreeInv
    <2>3. QED
      BY <2>1, <2>2
  <1>3. QED
    BY <1>1, <1>2, <1>b DEF AgreeInv

LEMMA NextAgreeInv ==
    Clis = {} /\ TypeOK /\ ClaimInv /\ AgreeInv /\ [Next]_vars => AgreeInv'
  <1> SUFFICES ASSUME Clis = {}, TypeOK, ClaimInv, AgreeInv, [Next]_vars PROVE AgreeInv'
    OBVIOUS
  <1>1. CASE UNCHANGED vars
    BY <1>1 DEF vars, AgreeInv, Executing
  <1>2. ASSUME NEW r \in Runs, Submit(r)
        PROVE  AgreeInv'
    <2>1. /\ row'[r].status = "QUEUED" /\ row'[r].outcome = row[r].outcome
          /\ \A s \in Runs \ {r} : row'[s] = row[s]
          /\ UNCHANGED <<worker, request, requeues>> /\ row[r].status = "absent"
      BY <1>2 DEF Submit, Create, TypeOK, Row, history
    <2>2. \A w \in Workers : Executing(w) => worker[w].run \in Runs \ {r}
      <3>1. claims[r] = 0
        BY <2>1 DEF ClaimInv
      <3>2. QED
        BY <3>1 DEF ClaimInv, Executing, TypeOK
    <2>3. QED
      BY <2>1, <2>2 DEF AgreeInv, Agreed, Executing
  <1>3. ASSUME NEW w \in Workers, NEW r \in Runs, Claim(w, r)
        PROVE  AgreeInv'
    <2>1. /\ worker'[w].pc = "claimed"
          /\ \A v \in Workers \ {w} : worker'[v] = worker[v]
          /\ UNCHANGED <<row, request, requeues>>
      BY <1>3 DEF Claim, Become, TypeOK, Idle, history
    <2>2. QED
      BY <2>1 DEF AgreeInv, Executing
  <1>4. ASSUME NEW w \in Workers, Step(w)
        PROVE  AgreeInv'
    <2>1. CASE ClaimCommit(w)
      BY <2>1, ClaimCommitAgreeInv
    <2>2. CASE ~ClaimCommit(w)
      <3>1. /\ worker[w].pc \notin {"idle", "claimed"} /\ UNCHANGED <<request, requeues>>
            /\ worker[w].run \in Runs
        BY <1>4, <2>2, StepFrame, Busy
      <3>2. worker[w].pc = "advance" => worker[w].stage # "QUEUED"
        BY DEF ClaimInv
      <3>3. Moves(w) /\ Writes(w)
        BY <1>4, <3>2, StepMoves, StepWrites
      <3>4. requeues[worker[w].run] = 0 => Keeps(w)
        BY <1>4, <2>2, <3>1, <3>2, StepKeeps DEF AgreeInv, Executing
      <3>5. QED
        BY <3>1, <3>3, <3>4, KeepsAgreeInv
    <2>3. QED
      BY <2>1, <2>2
  <1>5. ASSUME NEW w \in Workers, Fault(w)
        PROVE  AgreeInv'
    <2>1. Moves(w) /\ Writes(w) /\ UNCHANGED <<request, requeues>>
      BY <1>5, FaultMoves, NoWrite
    <2>2. CASE worker[w].pc \notin {"idle", "claimed"}
      <3>1. requeues[worker[w].run] = 0 => Keeps(w)
        BY <1>5, <2>2, Busy, FaultReads, ReadsKeeps DEF AgreeInv, Executing
      <3>2. QED
        BY <2>1, <2>2, <3>1, KeepsAgreeInv
    <2>3. CASE worker[w].pc \in {"idle", "claimed"}
      <3>1. worker'[w] = Idle /\ UNCHANGED row
        BY <1>5, <2>3 DEF Fault, SettleRetry, SettleGiveUp, Escape, Crash, Shutdown, Become,
                          TypeOK
      <3>2. QED
        BY <2>1, <3>1, IdleFacts DEF Moves, AgreeInv, Executing
    <2>4. QED
      BY <2>2, <2>3
  <1>6. ASSUME NEW q \in Requests,
               (\E kind \in Kinds, r \in Runs : Receive(q, kind, r)) \/ Commit(q)
        PROVE  AgreeInv'
    BY <1>6, RequestAgreeInv
  <1>7. \A w \in Workers, r \in Runs : ~CliStart(w, r)
    BY DEF CliStart
  <1>8. QED
    BY <1>1, <1>2, <1>3, <1>4, <1>5, <1>6, <1>7 DEF Next

LEMMA AgreeInvariant == Clis = {} => (Spec => []AgreeInv)
  <1>1. CASE Clis = {}
    <2>1. TypeOK /\ ClaimInv /\ AgreeInv /\ [Next]_vars => AgreeInv'
      BY <1>1, NextAgreeInv
    <2>2. QED
      BY <2>1, InitType, InitClaimInv, InitAgreeInv, NextType, NextClaimInv, PTL DEF Spec
  <1>2. QED
    BY <1>1

\* Where no CLI executes runs, COMPLETED and FAILED come with the outcome and the
\* error that belong to them until a review requeues the run, however the commits of
\* its executor, of cancels and of reviews fall between each other.
THEOREM OutcomesAgree == Clis = {} => (Spec => []OutcomeAgrees)
  <1>1. AgreeInv => OutcomeAgrees
    BY DEF AgreeInv, OutcomeAgrees, Agreed, Results
  <1>2. QED
    BY <1>1, AgreeInvariant, PTL

-----------------------------------------------------------------------------
(* A finished run *)

LEMMA NextFinished ==
    ASSUME Clis = {}, TypeOK, ClaimInv, AgreeInv, Next, NEW r \in Runs,
           row[r].status \in {"COMPLETED", "FAILED"}, requeues'[r] = 0
    PROVE  row'[r].status \in Terminal
  <1>a. row[r].status \in Terminal
    BY DEF Terminal
  <1>1. ASSUME NEW s \in Runs, Submit(s)
        PROVE  row'[r].status \in Terminal
    BY <1>1, <1>a DEF Submit, Create, TypeOK
  <1>2. ASSUME NEW w \in Workers, NEW s \in Runs, Claim(w, s)
        PROVE  row'[r].status \in Terminal
    BY <1>2, <1>a DEF Claim
  <1>3. ASSUME NEW w \in Workers, Step(w)
        PROVE  row'[r].status \in Terminal
    <2>1. CASE ClaimCommit(w)
      <3>1. worker[w].run # r /\ worker[w].run \in Runs
        BY <2>1, Busy DEF ClaimCommit, ClaimInv
      <3>2. QED
        BY <2>1, <3>1, <1>a DEF ClaimCommit, TypeOK
    <2>2. CASE ~ClaimCommit(w)
      <3>1. /\ worker[w].pc \notin {"idle", "claimed"} /\ UNCHANGED requeues
            /\ worker[w].run \in Runs
        BY <1>3, <2>2, StepFrame, Busy
      <3>2. worker[w].pc = "advance" => worker[w].stage # "QUEUED"
        BY DEF ClaimInv
      <3>3. CASE worker[w].run = r
        <4>1. Keeps(w)
          BY <1>3, <2>2, <3>1, <3>2, <3>3, StepKeeps DEF AgreeInv, Executing
        <4>2. QED
          BY <3>3, <4>1 DEF Keeps
      <3>4. CASE worker[w].run # r
        BY <1>3, <1>a, <3>2, <3>4, StepWrites DEF Writes
      <3>5. QED
        BY <3>3, <3>4
    <2>3. QED
      BY <2>1, <2>2
  <1>4. ASSUME NEW w \in Workers, Fault(w)
        PROVE  row'[r].status \in Terminal
    BY <1>4, <1>a, FaultMoves
  <1>5. ASSUME NEW q \in Requests, NEW kind \in Kinds, NEW s \in Runs, Receive(q, kind, s)
        PROVE  row'[r].status \in Terminal
    BY <1>5, <1>a DEF Receive
  <1>6. ASSUME NEW q \in Requests, Commit(q)
        PROVE  row'[r].status \in Terminal
    <2> DEFINE s == request[q].run
               u == request[q].update
    <2>1. /\ s \in Runs /\ u \in Update /\ Harmless(u)
          /\ row \in [Runs -> Row] /\ requeues \in [Runs -> Nat]
      BY <1>6 DEF Commit, TypeOK, Request, AgreeInv
    <2>2. CASE s = r
      <3>1. row'[r] = Apply(u, row[r]) /\ u.status # "QUEUED"
        BY <1>6, <2>1, <2>2 DEF Commit
      <3>2. QED
        BY <2>1, <3>1, HarmlessApplied
    <2>3. CASE s # r
      BY <1>6, <1>a, <2>1, <2>3 DEF Commit
    <2>4. QED
      BY <2>2, <2>3
  <1>7. \A w \in Workers, s \in Runs : ~CliStart(w, s)
    BY DEF CliStart
  <1>8. QED
    BY <1>1, <1>2, <1>3, <1>4, <1>5, <1>6, <1>7 DEF Next

\* Where no CLI executes runs, a COMPLETED or FAILED run is only ever relabelled
\* FAILED or CANCELLED until a review requeues it.
THEOREM FinishedStaysFinished == Clis = {} => (Spec => FinishedNeverRestarts)
  <1> DEFINE Stays == \A r \in Runs :
                        row[r].status \in {"COMPLETED", "FAILED"} /\ requeues'[r] = 0
                        => row'[r].status \in Terminal
  <1>1. CASE Clis = {}
    <2>1. TypeOK /\ ClaimInv /\ AgreeInv /\ [Next]_vars => [Stays]_vars
      BY <1>1, NextFinished
    <2>2. TypeOK /\ ClaimInv /\ AgreeInv /\ [Next]_vars => AgreeInv'
      BY <1>1, NextAgreeInv
    <2> HIDE DEF Stays
    <2>3. Spec => [][Stays]_vars
      BY <2>1, <2>2, InitType, InitClaimInv, InitAgreeInv, NextType, NextClaimInv, PTL DEF Spec
    <2>4. QED
      BY <2>3, PTL DEF FinishedNeverRestarts, Stays
  <1>2. QED
    BY <1>1

=============================================================================
