------------------------------- MODULE Library -------------------------------
(***************************************************************************)
(* Primitives the package offers to its callers: the budget ledger         *)
(* (core/budget.py), checkpoints (core/checkpoint.py), the durable store   *)
(* and its outbox (core/persistence.py), the two in-memory limiters        *)
(* (core/rate_limit.py), the circuit breaker behind the provider router    *)
(* (connectors/providers.py) and the bounded scheduler                     *)
(* (core/scheduler.py).  They are objects of their own; tool says which    *)
(* one is used.                                                            *)
(***************************************************************************)
EXTENDS Integers, Sequences, FiniteSets, SequencesExt

CONSTANTS
    Tasks,      \* callers, in threads or coroutines
    MaxCost,    \* max_cost of the budget controller
    Most,       \* bound: the most a caller reserves
    Kept,       \* max_history_per_run of the checkpoints
    Phases,     \* phases of checkpoints
    Versions,   \* bound: versions of checkpoints and of the stored state
    Keys,       \* keys of the limiters
    MaxKeys,    \* max_tracked_keys
    Limit,      \* the window's limit, the bucket's capacity
    Window,     \* window_seconds; a token is refilled per second
    Horizon,    \* bound: seconds
    Threshold,  \* failure_threshold
    Successes,  \* success_threshold
    Attempts,   \* attempts of the retry policy
    Slots       \* max_concurrency

\* What the parameters are; the instance that gives them assumes it.
LibraryAssumption ==
    /\ IsFiniteSet(Tasks) /\ IsFiniteSet(Keys)
    /\ {MaxCost, Most, Versions, Horizon, Attempts} \subseteq Nat
    /\ {Kept, MaxKeys, Limit, Window, Threshold, Successes, Slots} \subseteq Nat \ {0}

VARIABLES
    tool,    \* the primitive in use
    ledger,  \* [cost, reserved]
    held,    \* [Tasks -> Nat], what each caller has reserved and not given back
    exceeded, \* callers who got BudgetExceeded
    saved,   \* [history, latest] of the checkpoints
    stored,  \* [version, seen, saving, outbox, handed] of the durable store
    clock,   \* seconds
    grants,  \* [Keys -> Seq(Nat)], when the key was let through
    dropped, \* keys the limiter forgot for want of room (ghost)
    logs,    \* the window's histories: the grants of a key, by number, that it still knows
    buckets, \* [Keys -> [tokens, at]], a full bucket for a key not tracked
    rank,    \* the tracked keys in the order of their use, the first one 1; 0 if not tracked
    breaker, \* the provider's health
    flight,  \* calls to the provider in flight
    task     \* [Tasks -> [pc, try]], tasks of the scheduler

libraryVars == <<tool, ledger, held, exceeded, saved, stored, clock, grants, dropped, logs,
                 buckets, rank, breaker, flight, task>>

ledgerVars == <<ledger, held, exceeded>>
limiterVars == <<clock, grants, dropped, logs, buckets, rank>>
breakerVars == <<breaker, flight>>

Tools == {"ledger", "checkpoints", "store", "window", "bucket", "breaker", "scheduler"}

Health == [state : {"CLOSED", "OPEN", "HALF_OPEN"}, available : BOOLEAN,
           failures : 0 .. Threshold + Cardinality(Tasks), successes : 0 .. Successes,
           cooled : BOOLEAN]

Healthy == [state |-> "CLOSED", available |-> TRUE, failures |-> 0, successes |-> 0,
            cooled |-> FALSE]

TypeOK ==
    /\ tool \in Tools
    /\ ledger \in [cost : Nat, reserved : Nat]
    /\ held \in [Tasks -> 0 .. Most] /\ exceeded \subseteq Tasks
    /\ Len(saved.history) <= Kept /\ saved.latest \in 0 .. Versions
    /\ stored.version \in 0 .. Versions /\ stored.handed \subseteq DOMAIN stored.outbox
    /\ clock \in 0 .. Horizon
    /\ logs \in [Keys -> SUBSET (1 .. Horizon)]
    /\ buckets \in [Keys -> [tokens : 0 .. Limit, at : 0 .. Horizon]]
    /\ rank \in [Keys -> 0 .. MaxKeys]
    /\ breaker \in Health /\ flight \subseteq Tasks
    /\ task \in [Tasks -> [pc : {"new", "call", "sleep", "done", "raised"}, try : 0 .. Attempts]]
    /\ Cardinality({t \in Tasks : task[t].pc \in {"call", "sleep"}}) <= Slots

Init ==
    /\ tool \in Tools
    /\ ledger = [cost |-> 0, reserved |-> 0]
    /\ held = [t \in Tasks |-> 0] /\ exceeded = {}
    /\ saved = [history |-> <<>>, latest |-> 0]
    /\ stored = [version |-> 0, seen |-> [t \in Tasks |-> 0], saving |-> {}, outbox |-> <<>>, handed |-> {}]
    /\ clock = 0
    /\ grants = [k \in Keys |-> <<>>] /\ dropped = {}
    /\ logs = [k \in Keys |-> {}] /\ buckets = [k \in Keys |-> [tokens |-> Limit, at |-> 0]]
    /\ rank = [k \in Keys |-> 0]
    /\ breaker = Healthy /\ flight = {}
    /\ task = [t \in Tasks |-> [pc |-> "new", try |-> 0]]

-----------------------------------------------------------------------------
(* The budget ledger *)

Reserve(t, usd) ==
    /\ held[t] = 0
    /\ IF ledger.cost + ledger.reserved + usd > MaxCost
       THEN exceeded' = exceeded \cup {t} /\ UNCHANGED <<ledger, held>>
       ELSE /\ ledger' = [ledger EXCEPT !.reserved = @ + usd]
            /\ held' = [held EXCEPT ![t] = usd]
            /\ UNCHANGED exceeded

\* Mutant: the reservation is given back when the cost fits only.
CommitIfFits(t, usd) ==
    /\ held[t] > 0
    /\ ledger' = [cost |-> ledger.cost + usd,
                  reserved |-> ledger.reserved - IF ledger.cost + usd > MaxCost THEN 0
                                                 ELSE held[t]]
    /\ held' = [held EXCEPT ![t] = 0]
    /\ exceeded' = IF ledger'.cost > MaxCost THEN exceeded \cup {t} ELSE exceeded

\* The reservation is given back and the actual cost booked before it is judged.
Commit(t, usd) ==
    /\ held[t] > 0
    /\ ledger' = [cost |-> ledger.cost + usd, reserved |-> ledger.reserved - held[t]]
    /\ held' = [held EXCEPT ![t] = 0]
    /\ exceeded' = IF ledger'.cost > MaxCost THEN exceeded \cup {t} ELSE exceeded

Rollback(t) ==
    /\ held[t] > 0
    /\ ledger' = [ledger EXCEPT !.reserved = @ - held[t]]
    /\ held' = [held EXCEPT ![t] = 0]
    /\ UNCHANGED exceeded

\* Charges take no account of reservations.  Bound: nobody charges a ledger beyond its
\* ceiling again.
Charge(t, usd) ==
    /\ ledger.cost <= MaxCost
    /\ ledger' = [ledger EXCEPT !.cost = @ + usd]
    /\ exceeded' = IF ledger'.cost > MaxCost THEN exceeded \cup {t} ELSE exceeded
    /\ UNCHANGED held

LedgerStep ==
    \E t \in Tasks :
        \/ \E usd \in 1 .. Most : Reserve(t, usd) \/ Charge(t, usd)
        \/ \E usd \in 0 .. Most + 1 : ledger.cost <= MaxCost /\ Commit(t, usd)
        \/ Rollback(t)

-----------------------------------------------------------------------------
(* Checkpoints *)

Newest == IF saved.history = <<>> THEN 0 ELSE Last(saved.history).version

\* Mutant: a version is held against the latest one, which a rollback may have set back.
SaveBeyondLatest(version, phase) ==
    /\ version > saved.latest
    /\ saved' = [history |-> LET h == Append(saved.history, [version |-> version, phase |-> phase])
                             IN IF Len(h) > Kept THEN Tail(h) ELSE h,
                 latest |-> version]

\* A version must exceed all that are kept; the oldest beyond the bound goes.
Save(version, phase) ==
    /\ version > Newest
    /\ saved' = [history |-> LET h == Append(saved.history, [version |-> version, phase |-> phase])
                             IN IF Len(h) > Kept THEN Tail(h) ELSE h,
                 latest |-> version]

RollbackTo(phase) ==
    \E i \in DOMAIN saved.history :
        /\ saved.history[i].phase = phase
        /\ \A j \in DOMAIN saved.history : saved.history[j].phase = phase => j <= i
        /\ saved' = [saved EXCEPT !.latest = saved.history[i].version]

Invalidate == saved' = [history |-> <<>>, latest |-> 0]

CheckpointStep ==
    \/ \E v \in 1 .. Versions, p \in Phases : Save(v, p)
    \/ \E p \in Phases : RollbackTo(p)
    \/ Invalidate

-----------------------------------------------------------------------------
(* The durable store, used through one object or by one process per caller *)

LoadState(t) ==
    /\ t \notin stored.saving
    /\ stored' = [stored EXCEPT !.seen[t] = stored.version]

\* A save reads the version, which has to be the caller's, and writes the one after it.  The
\* lock is the object's, and the transaction begins with the write: callers in processes of
\* their own read before either writes.
ReadVersion(t) ==
    /\ t \notin stored.saving
    /\ stored.version = stored.seen[t]
    /\ stored' = [stored EXCEPT !.saving = @ \cup {t}]

SaveState(t) ==
    /\ t \in stored.saving
    /\ stored.seen[t] < Versions
    /\ LET new == stored.seen[t] + 1
       IN stored' = [stored EXCEPT !.version = new, !.seen[t] = new, !.saving = @ \ {t}]

DeleteState == stored' = [stored EXCEPT !.version = 0]

\* A transaction of its own, before or after the state's.
AppendOutbox ==
    /\ Len(stored.outbox) < Versions
    /\ stored' = [stored EXCEPT !.outbox = Append(@, FALSE)]

\* A dispatcher hands over what it fetched, then marks it, and may die in between.
Pending == {i \in DOMAIN stored.outbox : ~stored.outbox[i]}
HandOver == \E i \in Pending : stored' = [stored EXCEPT !.handed = @ \cup {i}]
MarkDelivered == \E i \in stored.handed : stored' = [stored EXCEPT !.outbox[i] = TRUE]

StoreStep ==
    \/ \E t \in Tasks : LoadState(t) \/ ReadVersion(t) \/ SaveState(t)
    \/ DeleteState \/ AppendOutbox \/ HandOver \/ MarkDelivered

-----------------------------------------------------------------------------
(* The limiters *)

Tracked == {k \in Keys : rank[k] > 0}

\* The order of use of the keys S, which are tracked, and the same with k as the last.
Ranks(S) ==
    [j \in Keys |-> IF j \in S THEN Cardinality({i \in S : rank[i] <= rank[j]}) ELSE 0]
Touched(S, k) == [Ranks(S \ {k}) EXCEPT ![k] = Cardinality(S \ {k}) + 1]

\* A key that is new to a full table displaces the one used first.
Displaced(S, k) ==
    {j \in S : k \notin S /\ Cardinality(S) >= MaxKeys /\ \A i \in S : rank[j] <= rank[i]}

\* Of its history a key keeps what is in the window.
Recent(k) == {i \in logs[k] : grants[k][i] > clock - Window}

Granted(k) ==
    /\ grants' = [grants EXCEPT ![k] = Append(@, clock)]
    /\ UNCHANGED clock

Refuse(k) ==
    /\ logs' = [logs EXCEPT ![k] = Recent(k)]
    /\ rank' = Touched(Tracked, k)
    /\ UNCHANGED <<clock, grants, dropped>>

\* A key whose history is empty has lost its place in the table.
LetIn(k) ==
    LET known == IF Recent(k) = {} THEN Tracked \ {k} ELSE Tracked
        gone == Displaced(known, k)
    IN  /\ logs' = [j \in Keys |-> IF j = k THEN Recent(k) \cup {Len(grants[k]) + 1}
                                   ELSE IF j \in gone THEN {} ELSE logs[j]]
        /\ rank' = Touched(known \ gone, k)
        /\ dropped' = dropped \cup gone
        /\ Granted(k)

\* Mutant: one request too many.
AllowOneMore(k) ==
    /\ Len(grants[k]) < Horizon
    /\ IF Cardinality(Recent(k)) > Limit THEN Refuse(k) ELSE LetIn(k)
    /\ UNCHANGED buckets

Allow(k) ==
    /\ Len(grants[k]) < Horizon
    /\ IF Cardinality(Recent(k)) >= Limit THEN Refuse(k) ELSE LetIn(k)
    /\ UNCHANGED buckets

\* Idle keys are removed.
Cleanup ==
    LET idle == {k \in Tracked : Recent(k) = {}}
    IN  /\ logs' = [k \in Keys |-> IF k \in idle THEN {} ELSE logs[k]]
        /\ rank' = Ranks(Tracked \ idle)
        /\ UNCHANGED <<clock, grants, dropped, buckets>>

Fewer(m, n) == IF m < n THEN m ELSE n
Refilled(k) == Fewer(Limit, buckets[k].tokens + (clock - buckets[k].at))

\* A refused request books the refill too.
Take(k) ==
    LET gone == Displaced(Tracked, k)
    IN  /\ Len(grants[k]) < Horizon
        /\ IF Refilled(k) >= 1
           THEN /\ buckets' = [j \in Keys |->
                      IF j = k THEN [tokens |-> Refilled(k) - 1, at |-> clock]
                      ELSE IF j \in gone THEN [tokens |-> Limit, at |-> 0] ELSE buckets[j]]
                /\ rank' = Touched(Tracked \ gone, k)
                /\ dropped' = dropped \cup gone
                /\ Granted(k)
           ELSE /\ buckets' = [buckets EXCEPT ![k] = [tokens |-> Refilled(k), at |-> clock]]
                /\ rank' = Touched(Tracked, k)
                /\ UNCHANGED <<clock, grants, dropped>>
        /\ UNCHANGED logs

Tick ==
    /\ clock < Horizon
    /\ clock' = clock + 1
    /\ UNCHANGED <<grants, dropped, logs, buckets, rank>>

WindowStep == Tick \/ Cleanup \/ \E k \in Keys : Allow(k)
BucketStep == Tick \/ \E k \in Keys : Take(k)

-----------------------------------------------------------------------------
(* The circuit breaker of a provider *)

\* is_healthy(): an open breaker whose cooldown is over lets a canary through.
Asked == IF breaker.state = "OPEN" /\ breaker.cooled
         THEN [breaker EXCEPT !.state = "HALF_OPEN", !.successes = 0]
         ELSE breaker

LetsThrough == IF breaker.state = "OPEN" THEN breaker.cooled ELSE breaker.available

Route(t) ==
    /\ t \notin flight
    /\ breaker' = Asked
    /\ flight' = IF LetsThrough THEN flight \cup {t} ELSE flight

RecordSuccess(t) ==
    /\ t \in flight
    /\ flight' = flight \ {t}
    /\ breaker' = IF breaker.state = "HALF_OPEN" /\ breaker.successes + 1 < Successes
                  THEN [breaker EXCEPT !.successes = @ + 1]
                  ELSE [breaker EXCEPT !.state = "CLOSED", !.available = TRUE, !.failures = 0]

RecordFailure(t) ==
    /\ t \in flight
    /\ flight' = flight \ {t}
    /\ LET b == [breaker EXCEPT !.failures = Fewer(@ + 1, Threshold + Cardinality(Tasks)),
                                !.successes = 0]
       IN breaker' = IF b.state # "OPEN" /\ b.failures >= Threshold
                     THEN [b EXCEPT !.state = "OPEN", !.available = FALSE, !.cooled = FALSE]
                     ELSE b

Cooldown ==
    /\ breaker.state = "OPEN" /\ ~breaker.cooled
    /\ breaker' = [breaker EXCEPT !.cooled = TRUE]
    /\ UNCHANGED flight

BreakerStep ==
    \/ \E t \in Tasks : Route(t) \/ RecordSuccess(t) \/ RecordFailure(t)
    \/ Cooldown

-----------------------------------------------------------------------------
(* The scheduler *)

Running == {t \in Tasks : task[t].pc \in {"call", "sleep"}}

Acquire(t) ==
    /\ task[t].pc = "new"
    /\ Cardinality(Running) < Slots
    /\ task' = [task EXCEPT ![t].pc = "call"]

\* The call returns, fails for good, or fails transiently and is retried after a pause; the
\* slot is kept meanwhile.
Return(t) ==
    /\ task[t].pc = "call"
    /\ task' = [task EXCEPT ![t].pc = "done"]

FailCall(t, transient) ==
    /\ task[t].pc = "call"
    /\ task' = [task EXCEPT ![t] = IF transient /\ @.try < Attempts
                                   THEN [pc |-> "sleep", try |-> @.try + 1]
                                   ELSE [@ EXCEPT !.pc = "raised"]]

Wake(t) ==
    /\ task[t].pc = "sleep"
    /\ task' = [task EXCEPT ![t].pc = "call"]

SchedulerStep ==
    \E t \in Tasks :
        \/ Acquire(t) \/ Return(t) \/ Wake(t)
        \/ \E transient \in BOOLEAN : FailCall(t, transient)

-----------------------------------------------------------------------------

Next ==
    /\ UNCHANGED tool
    /\ \/ tool = "ledger" /\ LedgerStep /\ UNCHANGED <<saved, stored, limiterVars, breakerVars, task>>
       \/ tool = "checkpoints" /\ CheckpointStep
          /\ UNCHANGED <<ledgerVars, stored, limiterVars, breakerVars, task>>
       \/ tool = "store" /\ StoreStep
          /\ UNCHANGED <<ledgerVars, saved, limiterVars, breakerVars, task>>
       \/ tool = "window" /\ WindowStep
          /\ UNCHANGED <<ledgerVars, saved, stored, breakerVars, task>>
       \/ tool = "bucket" /\ BucketStep
          /\ UNCHANGED <<ledgerVars, saved, stored, breakerVars, task>>
       \/ tool = "breaker" /\ BreakerStep
          /\ UNCHANGED <<ledgerVars, saved, stored, limiterVars, task>>
       \/ tool = "scheduler" /\ SchedulerStep
          /\ UNCHANGED <<ledgerVars, saved, stored, limiterVars, breakerVars>>

Spec == Init /\ [][Next]_libraryVars

-----------------------------------------------------------------------------
(* Properties *)

\* The dollars that callers hold, one by one.
Outstanding == {d \in Tasks \X (1 .. Most) : d[2] <= held[d[1]]}

\* The ledger's reserved sum is what its callers hold, however reservations, commits that
\* raise, roll-backs and charges interleave; and a ledger beyond its ceiling has told
\* someone (core/budget.py:145, :210).
LedgerBalances ==
    /\ ledger.reserved = Cardinality(Outstanding)
    /\ ledger.cost > MaxCost => exceeded # {}

\* After any mixture of saves, roll-backs and evictions the latest checkpoint is one that is
\* kept, and what is kept is in the order of its versions (core/checkpoint.py:93, :137).
LatestIsKept ==
    /\ saved.latest # 0 => \E i \in DOMAIN saved.history : saved.history[i].version = saved.latest
    /\ \A i, j \in DOMAIN saved.history :
         i < j => saved.history[i].version < saved.history[j].version

GrantedSince(k, at) == Cardinality({i \in DOMAIN grants[k] : grants[k][i] > at})

\* A key the limiter did not have to forget is let through at most Limit times in any
\* window, and by its bucket at most Limit times and once per second elapsed, whatever is
\* refused, cleaned up or displaced in between (core/rate_limit.py:88, :185).
LimitsHold ==
    \A k \in Keys \ dropped :
        /\ tool = "window" => GrantedSince(k, clock - Window) <= Limit
        /\ tool = "bucket" => \A at \in -1 .. clock : GrantedSince(k, at) <= Limit + (clock - at - 1)

\* Under every interleaving of their callers the primitives keep their promises: money and
\* tokens are neither lost nor spent twice, the newest checkpoint is the one found, and no
\* key is let through above its limit (budget.py:142, checkpoint.py:137, rate_limit.py:87).
PrimitivesHold == LedgerBalances /\ LatestIsKept /\ LimitsHold
=============================================================================
