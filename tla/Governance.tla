------------------------------ MODULE Governance ------------------------------
(***************************************************************************)
(* Governance: the administrative requests that change a row and append a  *)
(* record to the audit ledger in one transaction (api/v1/endpoints.py,     *)
(* web/routes.py, core/retention.py), the policy row with each process's   *)
(* cached copy of it (core/policy.py), and the hash-linked ledger with its *)
(* verification (AuditChain in db/repos.py).                               *)
(*                                                                         *)
(* Every request has a session of its own.  Reads see what is committed; a *)
(* flushed UPDATE holds its row until the transaction ends; ids of records *)
(* are handed out at the INSERT and never again.  A record's hash is taken *)
(* as injective and is represented by the id; nothing here tampers with a  *)
(* committed record.                                                       *)
(***************************************************************************)
EXTENDS Integers, FiniteSets

CONSTANTS
    Requests,
    Processes,
    ProcessOf,       \* [Requests -> Processes]
    Ceilings,        \* the configurations, each named by its max_run_usd
    DefaultCeiling,  \* PolicyConfig's own
    Tiers,           \* trust tiers of the one source
    FirstTier,
    MaxFaults,       \* bound on failed requests and restarted processes
    None

ASSUME GovernanceAssumption ==
    /\ ProcessOf \in [Requests -> Processes]
    /\ Ceilings \subseteq Nat
    /\ DefaultCeiling \in Ceilings
    /\ Tiers \subseteq Nat
    /\ FirstTier \in Tiers
    /\ MaxFaults \in Nat
    /\ None \notin Requests

VARIABLES
    policy,      \* the committed row of policies; version 0: there is none
    tier,        \* the committed trust tier of the source
    retracted,   \* the request whose retraction the claim carries, or None
    audit,       \* the committed records of audit_events
    nextId,
    cache,       \* [Processes -> Ceilings], policy_engine._cached_config
    request,     \* [Requests -> Session]
    faults

vars == <<policy, tier, retracted, audit, nextId, cache, request, faults>>

Record == [id : Nat, prev : Nat, by : Requests]

Kinds == {"policy", "trust", "retract", "purge", "apiSubmit", "webSubmit", "view"}

(***************************************************************************)
(* pc of a request: new; flush (its row is loaded and changed in memory);  *)
(* read, insert (append_event); lock (the UPDATE that follows the INSERT   *)
(* in one flush); commit; done; refused (a unique index or a policy said   *)
(* no); failed (an error ended the session).                               *)
(***************************************************************************)
Active == {"flush", "read", "insert", "lock", "commit"}

Session ==
    [pc : Active \cup {"new", "done", "refused", "failed"},
     kind : Kinds,
     want : Nat,        \* the new ceiling, the new tier, or the amount asked for
     seen : Nat,        \* the version or the tier that was loaded
     base : Nat,        \* the configuration that was loaded with the version
     locked : BOOLEAN,  \* its UPDATE is flushed and not committed
     prev : Nat,        \* the record it links to, 0 for GENESIS_HASH
     id : Nat]

TypeOK ==
    /\ policy \in [version : Nat, ceiling : Ceilings]
    /\ tier \in Tiers
    /\ retracted \in Requests \cup {None}
    /\ audit \subseteq Record
    /\ nextId \in Nat \ {0}
    /\ cache \in [Processes -> Ceilings]
    /\ request \in [Requests -> Session]
    /\ faults \in 0 .. MaxFaults

Init ==
    /\ policy = [version |-> 0, ceiling |-> DefaultCeiling]
    /\ tier = FirstTier
    /\ retracted = None
    /\ audit = {}
    /\ nextId = 1
    /\ cache = [p \in Processes |-> DefaultCeiling]
    /\ request = [q \in Requests |->
                    [pc |-> "new", kind |-> "view", want |-> 0, seen |-> 0,
                     base |-> 0, locked |-> FALSE, prev |-> 0, id |-> 0]]
    /\ faults = 0

-----------------------------------------------------------------------------
Ids == {e.id : e \in audit}

\* Mutant: the newest id handed out, committed or not.
IsNewestId(n) == n = nextId - 1

\* The newest committed record, 0 when there is none.
IsLatest(n) ==
    /\ n \in Ids \cup {0}
    /\ \A i \in Ids : i <= n

\* Mutant: the walk expects ids without gaps.
BrokenSequence == {e \in audit : e.prev # e.id - 1}

\* verify: the records whose link is not to the record before them in id order.
BrokenLinks ==
    {e \in audit :
        \/ e.prev # 0 /\ e.prev \notin Ids
        \/ e.prev >= e.id
        \/ \E i \in Ids : e.prev < i /\ i < e.id}

\* The requests that change a row when they commit.
Writes(x) ==
    \/ x.kind \in {"policy", "retract"}
    \/ x.kind = "trust" /\ x.want # x.seen

\* The policy requests whose INSERT or UPDATE names value_json: the session leaves
\* a column out of its UPDATE when the value assigned equals the one it loaded.
SetsCeiling(x) == x.kind = "policy" /\ (x.seen = 0 \/ x.want # x.base)

\* Every kind has one row; another request's flushed UPDATE of it is waited for.
RowFree(q) ==
    \A r \in Requests : request[r].kind = request[q].kind => ~request[r].locked

Become(q, x) == request' = [request EXCEPT ![q] = x]

\* get_config with a session: the row, or the cached copy when there is none.
Configured(p) == IF policy.version = 0 THEN cache[p] ELSE policy.ceiling

-----------------------------------------------------------------------------
(* The first reads of a request *)

\* A request that changes a row, or purges files, and always leaves a record.
Load(q, kind, want) ==
    /\ request[q].pc = "new"
    /\ \/ kind = "policy" /\ want \in Ceilings
       \/ kind = "trust" /\ want \in Tiers
       \/ kind \in {"retract", "purge"} /\ want = 0
    /\ Become(q, [request[q] EXCEPT
         !.pc = IF kind \in {"policy", "trust"} THEN "flush" ELSE "read",
         !.kind = kind,
         !.want = want,
         !.seen = CASE kind = "policy" -> policy.version
                    [] kind = "trust" -> tier
                    [] OTHER -> 0,
         !.base = IF kind = "policy" THEN policy.ceiling ELSE 0])
    /\ UNCHANGED <<policy, tier, retracted, audit, nextId, cache, faults>>

\* A submission that asks for more than the ceiling: its denial is to be recorded.
Denied(q, kind, want) ==
    /\ request[q].pc = "new"
    /\ kind \in {"apiSubmit", "webSubmit"}
    /\ want \in Ceilings
    /\ want > Configured(ProcessOf[q])
    /\ cache' = [cache EXCEPT ![ProcessOf[q]] = Configured(ProcessOf[q])]
    /\ Become(q, [request[q] EXCEPT !.pc = "read", !.kind = kind, !.want = want])
    /\ UNCHANGED <<policy, tier, retracted, audit, nextId, faults>>

\* GET /policies, and a submission that is allowed: no record is due, the cache
\* is refreshed.
View(q) ==
    /\ request[q].pc = "new"
    /\ cache' = [cache EXCEPT ![ProcessOf[q]] = Configured(ProcessOf[q])]
    /\ Become(q, [request[q] EXCEPT !.pc = "done"])
    /\ UNCHANGED <<policy, tier, retracted, audit, nextId, faults>>

-----------------------------------------------------------------------------
(* Changing the row *)

\* update_config flushes its row, and only then caches what it wrote.
FlushPolicy(q) ==
    /\ request[q].pc = "flush"
    /\ request[q].kind = "policy"
    /\ RowFree(q)
    /\ request[q].seen = 0 => policy.version = 0
    /\ Become(q, [request[q] EXCEPT !.pc = "read", !.locked = TRUE])
    /\ cache' = [cache EXCEPT ![ProcessOf[q]] = request[q].want]
    /\ UNCHANGED <<policy, tier, retracted, audit, nextId, faults>>

\* Mutant: the configuration is cached before its row is flushed.
FlushRefusedCached(q) ==
    /\ request[q].pc = "flush"
    /\ request[q].kind = "policy"
    /\ RowFree(q)
    /\ request[q].seen = 0
    /\ policy.version # 0
    /\ cache' = [cache EXCEPT ![ProcessOf[q]] = request[q].want]
    /\ Become(q, [request[q] EXCEPT !.pc = "refused"])
    /\ UNCHANGED <<policy, tier, retracted, audit, nextId, faults>>

\* Two requests saw no row and this one inserts second: the unique key refuses it.
FlushRefused(q) ==
    /\ request[q].pc = "flush"
    /\ request[q].kind = "policy"
    /\ RowFree(q)
    /\ request[q].seen = 0
    /\ policy.version # 0
    /\ Become(q, [request[q] EXCEPT !.pc = "refused"])
    /\ UNCHANGED <<policy, tier, retracted, audit, nextId, cache, faults>>

\* Mutant: set_trust leaves its UPDATE to the commit.
FlushTrustLater(q) ==
    /\ request[q].pc = "flush"
    /\ request[q].kind = "trust"
    /\ Become(q, [request[q] EXCEPT !.pc = "read"])
    /\ UNCHANGED <<policy, tier, retracted, audit, nextId, cache, faults>>

\* set_trust flushes; a tier equal to the loaded one emits no UPDATE.
FlushTrust(q) ==
    /\ request[q].pc = "flush"
    /\ request[q].kind = "trust"
    /\ Writes(request[q]) => RowFree(q)
    /\ Become(q, [request[q] EXCEPT !.pc = "read", !.locked = Writes(request[q])])
    /\ UNCHANGED <<policy, tier, retracted, audit, nextId, cache, faults>>

-----------------------------------------------------------------------------
(* append_event *)

ReadLatest(q, n) ==
    /\ request[q].pc = "read"
    /\ IsLatest(n)
    /\ Become(q, [request[q] EXCEPT !.pc = "insert", !.prev = n])
    /\ UNCHANGED <<policy, tier, retracted, audit, nextId, cache, faults>>

\* The retracted claim is written by append_event's own flush, after the record.
InsertRecord(q) ==
    /\ request[q].pc = "insert"
    /\ nextId' = nextId + 1
    /\ Become(q, [request[q] EXCEPT
         !.pc = IF request[q].kind = "retract" THEN "lock" ELSE "commit",
         !.id = nextId])
    /\ UNCHANGED <<policy, tier, retracted, audit, cache, faults>>

LockRow(q) ==
    /\ request[q].pc = "lock"
    /\ RowFree(q)
    /\ Become(q, [request[q] EXCEPT !.pc = "commit", !.locked = TRUE])
    /\ UNCHANGED <<policy, tier, retracted, audit, nextId, cache, faults>>

-----------------------------------------------------------------------------
(* The end of a request *)

\* Mutant: the row stays locked.
ClosedLocked(x, pc) == [x EXCEPT !.pc = pc, !.prev = 0, !.id = 0]

\* The session is over; its row is free again.
Closed(x, pc) == [x EXCEPT !.pc = pc, !.locked = FALSE, !.prev = 0, !.id = 0]

Appended(q) == audit \cup {[id |-> request[q].id, prev |-> request[q].prev, by |-> q]}

\* The version and the date always change, so a policy request always has the row
\* locked; the configuration is written only where the request changed it.
Commit(q) ==
    /\ request[q].pc = "commit"
    /\ request[q].kind # "webSubmit"
    /\ audit' = Appended(q)
    /\ policy' = IF request[q].kind = "policy"
                 THEN [version |-> request[q].seen + 1,
                       ceiling |-> IF SetsCeiling(request[q]) THEN request[q].want
                                   ELSE policy.ceiling]
                 ELSE policy
    /\ tier' = IF request[q].kind = "trust" /\ Writes(request[q])
               THEN request[q].want ELSE tier
    /\ retracted' = IF request[q].kind = "retract" THEN q ELSE retracted
    /\ Become(q, Closed(request[q], IF request[q].kind = "apiSubmit" THEN "refused" ELSE "done"))
    /\ UNCHANGED <<nextId, cache, faults>>

\* The web form returns its page without a commit: the session is rolled back.
Forget(q) ==
    /\ request[q].pc = "commit"
    /\ request[q].kind = "webSubmit"
    /\ Become(q, Closed(request[q], "refused"))
    /\ UNCHANGED <<policy, tier, retracted, audit, nextId, cache, faults>>

\* An error leaves the handler and the session rolls back; the cache stays.
Fail(q) ==
    /\ request[q].pc \in Active
    /\ faults < MaxFaults
    /\ faults' = faults + 1
    /\ Become(q, Closed(request[q], "failed"))
    /\ UNCHANGED <<policy, tier, retracted, audit, nextId, cache>>

\* A process dies with its requests and starts again with the default policy.
Restart(p) ==
    /\ faults < MaxFaults
    /\ faults' = faults + 1
    /\ cache' = [cache EXCEPT ![p] = DefaultCeiling]
    /\ request' = [q \in Requests |->
                     IF ProcessOf[q] = p /\ request[q].pc \in Active
                     THEN Closed(request[q], "failed")
                     ELSE request[q]]
    /\ UNCHANGED <<policy, tier, retracted, audit, nextId>>

-----------------------------------------------------------------------------
Arrive(q) ==
    \/ \E kind \in Kinds, want \in Ceilings \cup Tiers \cup {0} :
         Load(q, kind, want) \/ Denied(q, kind, want)
    \/ View(q)

Step(q) ==
    \/ FlushPolicy(q) \/ FlushRefused(q) \/ FlushTrust(q)
    \/ \E n \in 0 .. nextId - 1 : ReadLatest(q, n)
    \/ InsertRecord(q) \/ LockRow(q) \/ Commit(q) \/ Forget(q)

Next ==
    \/ \E q \in Requests : Arrive(q) \/ Step(q) \/ Fail(q)
    \/ \E p \in Processes : Restart(p)

Spec == Init /\ [][Next]_vars
=============================================================================
