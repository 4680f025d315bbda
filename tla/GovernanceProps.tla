---------------------------- MODULE GovernanceProps ----------------------------
(***************************************************************************)
(* What the governance ledger promises: properties of Governance.          *)
(***************************************************************************)
EXTENDS Governance

\* The records of requests of one kind that changed their row.
WritersOf(kind) ==
    {e \in audit : request[e.by].kind = kind /\ Writes(request[e.by])}

\* The records of policy requests that wrote their configuration into the row.
CeilingSetters == {e \in audit : SetsCeiling(request[e.by])}

\* No other record of the set is newer.
NewestOf(e, set) == e \in set /\ \A d \in set : d.id <= e.id

\* A record was linked while it could see every earlier record of its own row.
Saw(e, d) == d.id <= e.prev

\* However transactions overlap, roll back or die, every committed record links
\* to the genesis hash or to a committed record with a smaller id: append_event
\* reads committed records only, and an id lost in a rollback is no one's link.
ChainRooted ==
    \A e \in audit : e.prev = 0 \/ \E d \in audit : d.id = e.prev /\ d.id < e.id

\* The verification walk, which compares neighbours in id order, complains
\* exactly when two committed records link to the same one: gaps left by
\* rollbacks and commits out of id order alone raise no alarm.
AlarmIsFork ==
    BrokenLinks # {} <=> \E d, e \in audit : d # e /\ d.prev = e.prev

\* update_config and set_trust flush their row before they append, so the row
\* lock makes their records on one row see each other: of two changes of one
\* row the later record was linked after the earlier one was committed.
WritersSeeEachOther ==
    \A kind \in {"policy", "trust"} : \A d, e \in WritersOf(kind) :
        d.id < e.id => Saw(e, d)

\* The last record of a change tells what the row holds, whatever races, rollbacks
\* and restarts came between: the policy's version is that of the newest policy
\* record, its configuration and the source's tier are those of the newest record
\* that changed them.  A record that re-asserts the configuration its request had
\* loaded is not one of these: the session leaves the unchanged column alone, and
\* what another request committed in between stays in the row below a newer record
\* that says otherwise.
LastRecordTells ==
    /\ \A e \in audit : NewestOf(e, WritersOf("policy"))
         => policy.version = request[e.by].seen + 1
    /\ \A e \in audit : NewestOf(e, CeilingSetters)
         => policy.ceiling = request[e.by].want
    /\ \A e \in audit : NewestOf(e, WritersOf("trust")) => tier = request[e.by].want
    /\ policy.version # 0 => CeilingSetters # {}

\* What the connectors of a process enforce (the cached copy) is the default, a
\* committed configuration, or one that this very process was asked for by an
\* update that is still open or failed after it had flushed.
EnforcedWasAskedFor ==
    \A p \in Processes :
        \/ cache[p] = DefaultCeiling
        \/ \E e \in WritersOf("policy") : cache[p] = request[e.by].want
        \/ \E q \in Requests :
             /\ ProcessOf[q] = p
             /\ request[q].kind = "policy" /\ request[q].want = cache[p]
             /\ request[q].locked \/ request[q].pc = "failed"

\* Whoever waits for a row waits for a request that has the row and needs no
\* other before its commit: no circle of waiting requests, and no row that stays
\* locked by a request that is over.
HolderIsOnItsWay ==
    \A q \in Requests : request[q].pc \in {"flush", "lock"} =>
        \A r \in Requests :
            request[r].kind = request[q].kind /\ request[r].locked
              => r # q /\ request[r].pc \in {"read", "insert", "commit"}

-----------------------------------------------------------------------------
(* The inductive invariant of the proofs *)

WantInv ==
    \A q \in Requests :
        /\ request[q].kind = "policy" => request[q].want \in Ceilings
        /\ request[q].kind = "trust" => request[q].want \in Tiers

\* Ids of records, committed or on their way, are unique and below nextId; a link
\* goes to a committed record below.
IdsInv ==
    /\ \A e \in audit : e.id < nextId /\ e.prev < e.id /\ e.prev \in Ids \cup {0}
    /\ \A d, e \in audit : d.id = e.id => d = e
    /\ \A e \in audit : request[e.by].pc \in {"done", "refused"}
    /\ \A q \in Requests : request[q].pc \in {"insert", "lock", "commit"} =>
          request[q].prev \in Ids \cup {0} /\ request[q].prev < nextId
    /\ \A q \in Requests : request[q].pc \in {"lock", "commit"} =>
          /\ request[q].prev < request[q].id /\ request[q].id < nextId
          /\ request[q].id \notin Ids
          /\ \A r \in Requests \ {q} :
               request[r].pc \in {"lock", "commit"} => request[r].id # request[q].id

\* A row is locked by one request at a time, from its flush to its end.
LockInv ==
    /\ \A q \in Requests :
         /\ request[q].locked => Writes(request[q]) /\ request[q].pc \in {"read", "insert", "commit"}
         /\ request[q].pc \in {"read", "insert", "commit"} /\ Writes(request[q])
              /\ request[q].kind \in {"policy", "trust"} => request[q].locked
         /\ request[q].pc = "flush" => request[q].kind \in {"policy", "trust"}
         /\ request[q].pc = "lock" => request[q].kind = "retract"
         /\ request[q].kind = "retract" /\ request[q].locked => request[q].pc = "commit"
    /\ \A q, r \in Requests :
         request[q].locked /\ request[r].locked /\ request[q].kind = request[r].kind => q = r

\* Whoever holds a row it flushed before it appended links above all of its records.
SeeInv ==
    /\ WritersSeeEachOther
    /\ \A kind \in {"policy", "trust"}, q \in Requests :
         request[q].kind = kind /\ Writes(request[q]) /\ request[q].pc \in {"insert", "commit"}
         => \A e \in WritersOf(kind) : e.id <= request[q].prev

\* The row of a policy is never deleted.
SeenInv ==
    \A q \in Requests : request[q].kind = "policy" /\ request[q].seen # 0 => policy.version # 0

TellInv ==
    /\ SeenInv
    /\ LastRecordTells
    /\ policy.version # 0 => \E e \in CeilingSetters : policy.ceiling = request[e.by].want
    /\ EnforcedWasAskedFor

LedgerInv == TypeOK /\ WantInv /\ IdsInv /\ LockInv /\ SeeInv /\ TellInv

=============================================================================
