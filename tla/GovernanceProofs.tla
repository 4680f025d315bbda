--------------------------- MODULE GovernanceProofs ---------------------------
(***************************************************************************)
(* The safety of the governance ledger for any requests, processes,        *)
(* ceilings, tiers and number of faults.                                   *)
(***************************************************************************)
EXTENDS GovernanceProps, WellFoundedInduction, TLAPS

\* One request changes, to x.
LEMMA BecomeFacts ==
    ASSUME TypeOK, NEW q \in Requests, NEW x \in Session, Become(q, x)
    PROVE  /\ request' \in [Requests -> Session]
           /\ request'[q] = x
           /\ \A r \in Requests \ {q} : request'[r] = request[r]
  BY DEF TypeOK, Become

\* A closed session is well typed.
LEMMA ClosedFacts ==
    ASSUME NEW x \in Session, NEW pc \in {"done", "refused", "failed"}
    PROVE  /\ Closed(x, pc) \in Session
           /\ Closed(x, pc).pc = pc
           /\ ~Closed(x, pc).locked
           /\ Closed(x, pc).kind = x.kind
           /\ Closed(x, pc).want = x.want
           /\ Closed(x, pc).seen = x.seen
           /\ Closed(x, pc).base = x.base
  BY DEF Closed, Session, Active

LEMMA ConfiguredCeiling ==
    ASSUME TypeOK, NEW p \in Processes
    PROVE  Configured(p) \in Ceilings
  BY DEF TypeOK, Configured

\* What an action of a request makes of its session.
LEMMA StepSession ==
    ASSUME TypeOK, NEW q \in Requests, Arrive(q) \/ Step(q) \/ Fail(q)
    PROVE  \E x \in Session : Become(q, x)
  <1> USE GovernanceAssumption
  <1>a. request[q] \in Session
    BY DEF TypeOK
  <1>b. nextId \in Nat
    BY DEF TypeOK
  <1>1. ASSUME NEW kind \in Kinds, NEW want \in Ceilings \cup Tiers \cup {0}, Load(q, kind, want)
        PROVE  \E x \in Session : Become(q, x)
    <2>1. want \in Nat /\ policy.version \in Nat /\ tier \in Nat
      BY DEF TypeOK
    <2> DEFINE n == CASE kind = "policy" -> policy.version
                      [] kind = "trust" -> tier
                      [] OTHER -> 0
    <2> DEFINE m == IF kind = "policy" THEN policy.ceiling ELSE 0
    <2>2. n \in Nat /\ m \in Nat
      BY <2>1 DEF TypeOK
    <2> HIDE DEF n, m
    <2>3. [request[q] EXCEPT
             !.pc = IF kind \in {"policy", "trust"} THEN "flush" ELSE "read",
             !.kind = kind, !.want = want, !.seen = n, !.base = m] \in Session
      BY <1>a, <2>1, <2>2 DEF Session, Active
    <2>4. QED
      BY <1>1, <2>3 DEF Load, n, m
  <1>2. ASSUME NEW kind \in Kinds, NEW want \in Ceilings \cup Tiers \cup {0}, Denied(q, kind, want)
        PROVE  \E x \in Session : Become(q, x)
    <2>1. want \in Nat
      BY <1>2
    <2>2. [request[q] EXCEPT !.pc = "read", !.kind = kind, !.want = want] \in Session
      BY <1>a, <2>1 DEF Session, Active
    <2>3. QED
      BY <1>2, <2>2 DEF Denied
  <1>3. CASE View(q)
    <2>1. [request[q] EXCEPT !.pc = "done"] \in Session
      BY <1>a DEF Session, Active
    <2>2. QED
      BY <1>3, <2>1 DEF View
  <1>4. CASE FlushPolicy(q)
    <2>1. [request[q] EXCEPT !.pc = "read", !.locked = TRUE] \in Session
      BY <1>a DEF Session, Active
    <2>2. QED
      BY <1>4, <2>1 DEF FlushPolicy
  <1>5. CASE FlushRefused(q)
    <2>1. [request[q] EXCEPT !.pc = "refused"] \in Session
      BY <1>a DEF Session, Active
    <2>2. QED
      BY <1>5, <2>1 DEF FlushRefused
  <1>6. CASE FlushTrust(q)
    <2>1. Writes(request[q]) \in BOOLEAN
      BY DEF Writes
    <2>2. [request[q] EXCEPT !.pc = "read", !.locked = Writes(request[q])] \in Session
      BY <1>a, <2>1 DEF Session, Active
    <2>3. QED
      BY <1>6, <2>2 DEF FlushTrust
  <1>7. ASSUME NEW n \in 0 .. nextId - 1, ReadLatest(q, n)
        PROVE  \E x \in Session : Become(q, x)
    <2>1. n \in Nat
      BY <1>b
    <2>2. [request[q] EXCEPT !.pc = "insert", !.prev = n] \in Session
      BY <1>a, <2>1 DEF Session, Active
    <2>3. QED
      BY <1>7, <2>2 DEF ReadLatest
  <1>8. CASE InsertRecord(q)
    <2>1. [request[q] EXCEPT
             !.pc = IF request[q].kind = "retract" THEN "lock" ELSE "commit",
             !.id = nextId] \in Session
      BY <1>a, <1>b DEF Session, Active
    <2>2. QED
      BY <1>8, <2>1 DEF InsertRecord
  <1>9. CASE LockRow(q)
    <2>1. [request[q] EXCEPT !.pc = "commit", !.locked = TRUE] \in Session
      BY <1>a DEF Session, Active
    <2>2. QED
      BY <1>9, <2>1 DEF LockRow
  <1>10. CASE Commit(q)
    BY <1>10, <1>a, ClosedFacts DEF Commit
  <1>11. CASE Forget(q)
    BY <1>11, <1>a, ClosedFacts DEF Forget
  <1>12. CASE Fail(q)
    BY <1>12, <1>a, ClosedFacts DEF Fail
  <1>13. QED
    BY <1>1, <1>2, <1>3, <1>4, <1>5, <1>6, <1>7, <1>8, <1>9, <1>10, <1>11, <1>12 DEF Arrive, Step

\* Once begun, a request keeps what it is and what it has loaded.
LEMMA StepKeeps ==
    ASSUME TypeOK, NEW q \in Requests, Step(q) \/ Fail(q)
    PROVE  /\ request'[q].kind = request[q].kind
           /\ request'[q].want = request[q].want
           /\ request'[q].seen = request[q].seen
           /\ request'[q].base = request[q].base
  <1>a. request[q] \in Session
    BY DEF TypeOK
  <1>b. ASSUME NEW x, Become(q, x)
        PROVE  request'[q] = x
    BY <1>b DEF Become, TypeOK
  <1>1. CASE FlushPolicy(q) \/ FlushRefused(q) \/ FlushTrust(q) \/ LockRow(q)
    BY <1>1, <1>a, <1>b DEF FlushPolicy, FlushRefused, FlushTrust, LockRow, Session
  <1>2. ASSUME NEW n, ReadLatest(q, n)
        PROVE  request'[q] = [request[q] EXCEPT !.pc = "insert", !.prev = n]
    BY <1>2, <1>b DEF ReadLatest
  <1>3. CASE InsertRecord(q)
    BY <1>3, <1>a, <1>b DEF InsertRecord, Session
  <1>4. CASE Commit(q) \/ Forget(q) \/ Fail(q)
    BY <1>4, <1>a, <1>b, ClosedFacts DEF Commit, Forget, Fail
  <1>5. QED
    BY <1>a, <1>1, <1>2, <1>3, <1>4 DEF Step, Session

\* How a request begins.
LEMMA ArriveFacts ==
    ASSUME TypeOK, NEW q \in Requests, Arrive(q)
    PROVE  \E x \in Session :
             /\ Become(q, x)
             /\ UNCHANGED <<policy, tier, retracted, audit, nextId, faults>>
             /\ request[q].pc = "new"
             /\ x.pc \in {"flush", "read", "done"}
             /\ x.pc = "flush" => x.kind \in {"policy", "trust"}
             /\ x.pc = "read" => x.kind \notin {"policy", "trust"}
             /\ x.locked = request[q].locked
  <1>a. request[q] \in Session
    BY DEF TypeOK
  <1>1. PICK x \in Session : Become(q, x)
    BY StepSession
  <1>2. request'[q] = x
    BY <1>1, BecomeFacts
  <1>3. ASSUME NEW kind \in Kinds, NEW want \in Ceilings \cup Tiers \cup {0}, Load(q, kind, want)
        PROVE  /\ x.pc = IF kind \in {"policy", "trust"} THEN "flush" ELSE "read"
               /\ x.kind = kind
               /\ x.locked = request[q].locked
    <2> DEFINE n == CASE kind = "policy" -> policy.version
                      [] kind = "trust" -> tier
                      [] OTHER -> 0
    <2> DEFINE m == IF kind = "policy" THEN policy.ceiling ELSE 0
    <2>1. request'[q] = [request[q] EXCEPT
            !.pc = IF kind \in {"policy", "trust"} THEN "flush" ELSE "read",
            !.kind = kind, !.want = want, !.seen = n, !.base = m]
      BY <1>3 DEF Load, Become, TypeOK
    <2> HIDE DEF n, m
    <2>2. QED
      BY <1>a, <1>2, <2>1 DEF Session
  <1>4. CASE \E kind \in Kinds, want \in Ceilings \cup Tiers \cup {0} : Load(q, kind, want)
    BY <1>1, <1>3, <1>4 DEF Load
  <1>5. ASSUME NEW kind \in Kinds, NEW want \in Ceilings \cup Tiers \cup {0}, Denied(q, kind, want)
        PROVE  /\ x.pc = "read" /\ x.kind = kind /\ x.locked = request[q].locked
    BY <1>a, <1>2, <1>5 DEF Denied, Become, TypeOK, Session
  <1>6. CASE \E kind \in Kinds, want \in Ceilings \cup Tiers \cup {0} : Denied(q, kind, want)
    BY <1>1, <1>5, <1>6 DEF Denied
  <1>7. CASE View(q)
    <2>1. x = [request[q] EXCEPT !.pc = "done"]
      BY <1>2, <1>7 DEF View, Become, TypeOK
    <2>2. x.pc = "done" /\ x.locked = request[q].locked
      BY <1>a, <2>1 DEF Session
    <2>3. QED
      BY <1>1, <1>7, <2>2 DEF View
  <1>8. QED
    BY <1>4, <1>6, <1>7 DEF Arrive

\* How a request ends.
LEMMA EndFacts ==
    ASSUME TypeOK, NEW q \in Requests,
           FlushRefused(q) \/ Commit(q) \/ Forget(q) \/ Fail(q)
    PROVE  \E x \in Session :
             /\ Become(q, x)
             /\ request[q].pc \in Active
             /\ x.pc \in {"done", "refused", "failed"}
             /\ x.locked => FlushRefused(q) /\ request[q].locked
  <1>a. request[q] \in Session
    BY DEF TypeOK
  <1>1. CASE FlushRefused(q)
    <2>1. [request[q] EXCEPT !.pc = "refused"] \in Session
      BY <1>a DEF Session
    <2>2. QED
      BY <1>a, <1>1, <2>1 DEF FlushRefused, Active, Session
  <1>2. CASE Commit(q) \/ Forget(q) \/ Fail(q)
    BY <1>a, <1>2, ClosedFacts DEF Commit, Forget, Fail, Active
  <1>3. QED
    BY <1>1, <1>2

LEMMA RestartFacts ==
    ASSUME TypeOK, NEW p \in Processes, Restart(p)
    PROVE  /\ request' \in [Requests -> Session]
           /\ \A q \in Requests :
                \/ request'[q] = request[q]
                \/ /\ request[q].pc \in Active
                   /\ request'[q] = Closed(request[q], "failed")
  <1>1. \A q \in Requests : request[q] \in Session /\ Closed(request[q], "failed") \in Session
    BY ClosedFacts DEF TypeOK
  <1>2. QED
    BY <1>1 DEF Restart

-----------------------------------------------------------------------------
(* Types *)

LEMMA TypeStep ==
    ASSUME TypeOK, WantInv, [Next]_vars
    PROVE  TypeOK' /\ WantInv'
  <1> USE GovernanceAssumption
  <1>1. ASSUME NEW q \in Requests, Arrive(q) \/ Step(q) \/ Fail(q)
        PROVE  TypeOK'
    <2>1. request' \in [Requests -> Session]
      BY <1>1, StepSession, BecomeFacts
    <2>2. ProcessOf[q] \in Processes /\ Configured(ProcessOf[q]) \in Ceilings
      BY ConfiguredCeiling
    <2>3. request[q] \in Session
      BY DEF TypeOK
    <2>4. CASE Arrive(q)
      BY <2>4, <2>1, <2>2 DEF Arrive, Load, Denied, View, TypeOK
    <2>5. CASE FlushPolicy(q)
      BY <2>5, <2>1, <2>2 DEF FlushPolicy, TypeOK, WantInv
    <2>6. CASE FlushRefused(q) \/ FlushTrust(q) \/ LockRow(q) \/ Forget(q)
      BY <2>6, <2>1 DEF FlushRefused, FlushTrust, LockRow, Forget, TypeOK
    <2>7. CASE \E n \in 0 .. nextId - 1 : ReadLatest(q, n)
      BY <2>7, <2>1 DEF ReadLatest, TypeOK
    <2>8. CASE InsertRecord(q)
      BY <2>8, <2>1 DEF InsertRecord, TypeOK
    <2>9. CASE Commit(q)
      <3>1. [id |-> request[q].id, prev |-> request[q].prev, by |-> q] \in Record
        BY <2>3 DEF Session, Record
      <3>2. audit' \subseteq Record
        BY <2>9, <3>1 DEF Commit, Appended, TypeOK
      <3>3. policy' \in [version : Nat, ceiling : Ceilings] /\ tier' \in Tiers
        BY <2>9, <2>3 DEF Commit, Session, TypeOK, WantInv
      <3>4. QED
        BY <2>9, <2>1, <3>2, <3>3 DEF Commit, TypeOK
    <2>10. CASE Fail(q)
      BY <2>10, <2>1 DEF Fail, TypeOK
    <2>11. QED
      BY <1>1, <2>4, <2>5, <2>6, <2>7, <2>8, <2>9, <2>10 DEF Step
  <1>2. ASSUME NEW q \in Requests, Arrive(q) \/ Step(q) \/ Fail(q)
        PROVE  WantInv'
    <2>1. request[q] \in Session
      BY DEF TypeOK
    <2>2. SUFFICES /\ request'[q].kind = "policy" => request'[q].want \in Ceilings
                   /\ request'[q].kind = "trust" => request'[q].want \in Tiers
      BY <1>2, StepSession, BecomeFacts DEF WantInv
    <2>3. CASE Arrive(q)
      <3>1. ASSUME NEW kind \in Kinds, NEW want, Load(q, kind, want)
            PROVE  /\ kind = "policy" => want \in Ceilings
                   /\ kind = "trust" => want \in Tiers
                   /\ request'[q].kind = kind /\ request'[q].want = want
        BY <3>1, <2>1 DEF Load, Become, TypeOK, Session
      <3>2. ASSUME NEW kind \in Kinds, NEW want, Denied(q, kind, want)
            PROVE  request'[q].kind \notin {"policy", "trust"}
        BY <3>2, <2>1 DEF Denied, Become, TypeOK, Session
      <3>3. CASE View(q)
        BY <3>3, <2>1 DEF View, Become, WantInv, TypeOK, Session
      <3>4. QED
        BY <2>3, <3>1, <3>2, <3>3 DEF Arrive
    <2>4. CASE Step(q) \/ Fail(q)
      BY <2>4, StepKeeps DEF WantInv
    <2>5. QED
      BY <1>2, <2>3, <2>4
  <1>3. ASSUME NEW p \in Processes, Restart(p)
        PROVE  TypeOK' /\ WantInv'
    <2>1. TypeOK'
      <3>1. cache' \in [Processes -> Ceilings] /\ faults' \in 0 .. MaxFaults
        BY <1>3 DEF Restart, TypeOK
      <3>2. request' \in [Requests -> Session]
        BY <1>3, RestartFacts
      <3>3. QED
        BY <1>3, <3>1, <3>2 DEF Restart, TypeOK
    <2>2. \A q \in Requests : request'[q].kind = request[q].kind /\ request'[q].want = request[q].want
      BY <1>3, RestartFacts, ClosedFacts DEF TypeOK
    <2>3. QED
      BY <2>1, <2>2 DEF WantInv
  <1>4. CASE UNCHANGED vars
    BY <1>4 DEF vars, TypeOK, WantInv
  <1>5. QED
    BY <1>1, <1>2, <1>3, <1>4 DEF Next
-----------------------------------------------------------------------------
(* Ids and links *)

\* A request that appends nothing keeps the ids in order.
LEMMA IdsQuiet ==
    ASSUME TypeOK, IdsInv, NEW q \in Requests, NEW x \in Session, Become(q, x),
           UNCHANGED <<audit, nextId>>,
           request[q].pc \notin {"done", "refused"},
           x.pc \in {"insert", "lock", "commit"} =>
             request[q].pc \in {"insert", "lock", "commit"} /\ x.prev = request[q].prev,
           x.pc \in {"lock", "commit"} =>
             request[q].pc \in {"lock", "commit"} /\ x.id = request[q].id
    PROVE  IdsInv'
  <1>1. /\ request'[q] = x
        /\ \A r \in Requests \ {q} : request'[r] = request[r]
    BY BecomeFacts
  <1>2. Ids' = Ids
    BY DEF Ids
  <1>3. \A e \in audit : e.by \in Requests /\ e.by # q
    BY DEF TypeOK, Record, IdsInv
  <1>4. QED
    BY <1>1, <1>2, <1>3 DEF IdsInv

LEMMA IdsStep ==
    ASSUME TypeOK, IdsInv, LockInv, [Next]_vars
    PROVE  IdsInv'
  <1> USE GovernanceAssumption
  <1>a. \A r \in Requests : request[r] \in Session
    BY DEF TypeOK
  <1>b. nextId \in Nat \ {0} /\ \A e \in audit : e \in Record
    BY DEF TypeOK
  <1>1. ASSUME NEW q \in Requests, Arrive(q)
        PROVE  IdsInv'
    BY <1>1, ArriveFacts, IdsQuiet
  <1>2. ASSUME NEW q \in Requests,
               FlushPolicy(q) \/ FlushRefused(q) \/ FlushTrust(q) \/ Forget(q) \/ Fail(q)
        PROVE  IdsInv'
    <2>1. UNCHANGED <<audit, nextId>>
      BY <1>2 DEF FlushPolicy, FlushRefused, FlushTrust, Forget, Fail
    <2>2. CASE FlushPolicy(q) \/ FlushTrust(q)
      <3>1. PICK x \in Session : Become(q, x)
        BY <2>2, StepSession DEF Step
      <3>2. request'[q] = x
        BY <3>1, BecomeFacts
      <3>3. \/ x = [request[q] EXCEPT !.pc = "read", !.locked = TRUE]
            \/ x = [request[q] EXCEPT !.pc = "read", !.locked = Writes(request[q])]
        BY <2>2, <3>2 DEF FlushPolicy, FlushTrust, Become, TypeOK
      <3>4. x.pc = "read" /\ request[q].pc = "flush"
        BY <2>2, <1>a, <3>3 DEF FlushPolicy, FlushTrust, Session
      <3>5. QED
        BY <2>1, <3>1, <3>4, IdsQuiet
    <2>3. CASE FlushRefused(q) \/ Forget(q) \/ Fail(q)
      BY <2>1, <2>3, EndFacts, IdsQuiet DEF Active
    <2>4. QED
      BY <1>2, <2>2, <2>3
  <1>3. ASSUME NEW q \in Requests, LockRow(q)
        PROVE  IdsInv'
    <2> DEFINE x == [request[q] EXCEPT !.pc = "commit", !.locked = TRUE]
    <2>1. x \in Session /\ x.pc = "commit" /\ x.prev = request[q].prev /\ x.id = request[q].id
      BY <1>a DEF Session, Active
    <2>2. Become(q, x) /\ UNCHANGED <<audit, nextId>> /\ request[q].pc = "lock"
      BY <1>3 DEF LockRow
    <2> HIDE DEF x
    <2>3. QED
      BY <2>1, <2>2, IdsQuiet
  <1>4. ASSUME NEW q \in Requests, NEW n \in 0 .. nextId - 1, ReadLatest(q, n)
        PROVE  IdsInv'
    <2> DEFINE x == [request[q] EXCEPT !.pc = "insert", !.prev = n]
    <2>0. n \in Nat /\ n < nextId
      BY <1>b
    <2>1. x \in Session /\ x.pc = "insert" /\ x.prev = n
      BY <1>a, <2>0 DEF Session, Active
    <2>2. Become(q, x) /\ UNCHANGED <<audit, nextId>> /\ request[q].pc = "read"
      BY <1>4 DEF ReadLatest
    <2> HIDE DEF x
    <2>3. request'[q] = x /\ \A r \in Requests \ {q} : request'[r] = request[r]
      BY <2>1, <2>2, BecomeFacts
    <2>4. Ids' = Ids /\ n \in Ids \cup {0}
      BY <1>4, <2>2 DEF Ids, ReadLatest, IsLatest
    <2>5. \A e \in audit : e.by \in Requests /\ e.by # q
      BY <1>b, <2>2 DEF Record, IdsInv
    <2>6. QED
      BY <2>0, <2>1, <2>2, <2>3, <2>4, <2>5 DEF IdsInv
  <1>5. ASSUME NEW q \in Requests, InsertRecord(q)
        PROVE  IdsInv'
    <2> DEFINE x == [request[q] EXCEPT
                       !.pc = IF request[q].kind = "retract" THEN "lock" ELSE "commit",
                       !.id = nextId]
    <2>1. x \in Session /\ x.pc \in {"lock", "commit"} /\ x.prev = request[q].prev /\ x.id = nextId
      BY <1>a, <1>b DEF Session, Active
    <2>2. Become(q, x) /\ audit' = audit /\ nextId' = nextId + 1 /\ request[q].pc = "insert"
      BY <1>5 DEF InsertRecord
    <2> HIDE DEF x
    <2>3. request'[q] = x /\ \A r \in Requests \ {q} : request'[r] = request[r]
      BY <2>1, <2>2, BecomeFacts
    <2>4. Ids' = Ids /\ \A i \in Ids : i \in Nat /\ i < nextId
      BY <1>b, <2>2 DEF Ids, IdsInv, Record
    <2>5. \A e \in audit : e.by \in Requests /\ e.by # q /\ e.id \in Nat /\ e.prev \in Nat
      BY <1>b, <2>2 DEF Record, IdsInv
    <2>6. \A r \in Requests : request[r].id \in Nat /\ request[r].prev \in Nat
      BY <1>a DEF Session
    <2>7. QED
      BY <1>b, <2>1, <2>2, <2>3, <2>4, <2>5, <2>6 DEF IdsInv
  <1>6. ASSUME NEW q \in Requests, Commit(q)
        PROVE  IdsInv'
    <2> DEFINE pc == IF request[q].kind = "apiSubmit" THEN "refused" ELSE "done"
               x == Closed(request[q], pc)
               n == [id |-> request[q].id, prev |-> request[q].prev, by |-> q]
    <2>1. x \in Session /\ x.pc \in {"done", "refused"}
      BY <1>a, ClosedFacts
    <2>2. Become(q, x) /\ audit' = audit \cup {n} /\ nextId' = nextId /\ request[q].pc = "commit"
      BY <1>6 DEF Commit, Appended
    <2>3. n.id = request[q].id /\ n.prev = request[q].prev /\ n.by = q
      OBVIOUS
    <2>4. n.id \in Nat /\ n.prev < n.id /\ n.id < nextId /\ n.id \notin Ids /\ n.prev \in Ids \cup {0}
      BY <1>a, <2>2, <2>3 DEF IdsInv, Session
    <2> HIDE DEF x, n, pc
    <2>5. request'[q] = x /\ \A r \in Requests \ {q} : request'[r] = request[r]
      BY <2>1, <2>2, BecomeFacts
    <2>6. Ids' = Ids \cup {n.id}
      BY <2>2 DEF Ids
    <2>7. \A e \in audit : e.by \in Requests /\ e.by # q /\ e.id \in Ids
      BY <1>b, <2>2 DEF Record, IdsInv, Ids
    <2>8. \A e \in audit' : /\ e.id < nextId' /\ e.prev < e.id /\ e.prev \in Ids' \cup {0}
                            /\ request'[e.by].pc \in {"done", "refused"}
      BY <2>1, <2>2, <2>3, <2>4, <2>5, <2>6, <2>7 DEF IdsInv
    <2>9. \A d, e \in audit' : d.id = e.id => d = e
      BY <2>2, <2>4, <2>7 DEF IdsInv
    <2>10. \A r \in Requests : request'[r].pc \in {"insert", "lock", "commit"} =>
             request'[r].prev \in Ids' \cup {0} /\ request'[r].prev < nextId'
      BY <2>1, <2>2, <2>5, <2>6 DEF IdsInv
    <2>11. \A r \in Requests : request'[r].pc \in {"lock", "commit"} =>
             /\ request'[r].prev < request'[r].id /\ request'[r].id < nextId'
             /\ request'[r].id \notin Ids'
             /\ \A s \in Requests \ {r} :
                  request'[s].pc \in {"lock", "commit"} => request'[s].id # request'[r].id
      BY <2>1, <2>2, <2>3, <2>5, <2>6 DEF IdsInv
    <2>12. QED
      BY <2>8, <2>9, <2>10, <2>11 DEF IdsInv
  <1>7. ASSUME NEW p \in Processes, Restart(p)
        PROVE  IdsInv'
    <2>1. UNCHANGED <<audit, nextId>> /\ Ids' = Ids
      BY <1>7 DEF Restart, Ids
    <2>2. \A r \in Requests : \/ request'[r] = request[r]
                              \/ /\ request'[r].pc = "failed"
                                 /\ request[r].pc \in Active
      BY <1>7, <1>a, RestartFacts, ClosedFacts
    <2>3. \A e \in audit : e.by \in Requests /\ request'[e.by] = request[e.by]
      BY <1>b, <2>2 DEF Record, IdsInv, Active
    <2>4. QED
      BY <2>1, <2>2, <2>3 DEF IdsInv
  <1>8. CASE UNCHANGED vars
    BY <1>8 DEF vars, IdsInv, Ids
  <1>9. QED
    BY <1>1, <1>2, <1>3, <1>4, <1>5, <1>6, <1>7, <1>8 DEF Next, Step

-----------------------------------------------------------------------------
(* Row locks *)

\* A request's own session decides its part of LockInv, unless it takes a row.
LEMMA LockQuiet ==
    ASSUME TypeOK, LockInv, NEW q \in Requests, NEW x \in Session, Become(q, x),
           x.locked => Writes(x) /\ x.pc \in {"read", "insert", "commit"},
           x.pc \in {"read", "insert", "commit"} /\ Writes(x) /\ x.kind \in {"policy", "trust"}
             => x.locked,
           x.pc = "flush" => x.kind \in {"policy", "trust"},
           x.pc = "lock" => x.kind = "retract",
           x.kind = "retract" /\ x.locked => x.pc = "commit",
           \/ ~x.locked
           \/ request[q].locked /\ x.kind = request[q].kind
           \/ x.kind = request[q].kind /\ RowFree(q)
    PROVE  LockInv'
  <1>1. /\ request'[q] = x
        /\ \A r \in Requests \ {q} : request'[r] = request[r]
    BY BecomeFacts
  <1>2. \A r \in Requests \ {q} : x.locked /\ request[r].kind = x.kind => ~request[r].locked
    BY DEF LockInv, RowFree
  <1>3. QED
    BY <1>1, <1>2 DEF LockInv, Writes

LEMMA LockStep ==
    ASSUME TypeOK, LockInv, [Next]_vars
    PROVE  LockInv'
  <1> USE GovernanceAssumption
  <1>a. \A r \in Requests : request[r] \in Session
    BY DEF TypeOK
  <1>b. nextId \in Nat \ {0}
    BY DEF TypeOK
  <1>1. ASSUME NEW q \in Requests, Arrive(q)
        PROVE  LockInv'
    <2>1. ~request[q].locked
      BY <1>1, ArriveFacts DEF LockInv
    <2>2. QED
      BY <1>1, <2>1, ArriveFacts, LockQuiet
  <1>2. ASSUME NEW q \in Requests, FlushPolicy(q) \/ FlushTrust(q)
        PROVE  LockInv'
    <2> DEFINE x == [request[q] EXCEPT !.pc = "read", !.locked = Writes(request[q])]
    <2>1. Writes(request[q]) \in BOOLEAN
      BY DEF Writes
    <2>2. /\ x \in Session /\ x.pc = "read" /\ x.locked = Writes(request[q])
          /\ x.kind = request[q].kind /\ Writes(x) = Writes(request[q])
      BY <1>a, <2>1 DEF Session, Active, Writes
    <2>3. /\ Become(q, x)
          /\ Writes(request[q]) => RowFree(q)
          /\ request[q].kind # "retract"
      BY <1>2, <2>1 DEF FlushPolicy, FlushTrust, Writes
    <2> HIDE DEF x
    <2>4. QED
      BY <2>2, <2>3, LockQuiet
  <1>3. ASSUME NEW q \in Requests, FlushRefused(q) \/ Commit(q) \/ Forget(q) \/ Fail(q)
        PROVE  LockInv'
    <2>1. FlushRefused(q) => ~request[q].locked
      BY DEF FlushRefused, LockInv
    <2>2. QED
      BY <1>3, <2>1, EndFacts, LockQuiet
  <1>4. ASSUME NEW q \in Requests, NEW n \in 0 .. nextId - 1, ReadLatest(q, n)
        PROVE  LockInv'
    <2> DEFINE x == [request[q] EXCEPT !.pc = "insert", !.prev = n]
    <2>1. n \in Nat
      BY <1>b
    <2>2. /\ x \in Session /\ x.pc = "insert" /\ x.locked = request[q].locked
          /\ x.kind = request[q].kind /\ Writes(x) = Writes(request[q])
      BY <1>a, <2>1 DEF Session, Active, Writes
    <2>3. Become(q, x) /\ request[q].pc = "read"
      BY <1>4 DEF ReadLatest
    <2> HIDE DEF x
    <2>4. QED
      BY <2>2, <2>3, LockQuiet DEF LockInv
  <1>5. ASSUME NEW q \in Requests, InsertRecord(q)
        PROVE  LockInv'
    <2> DEFINE pc == IF request[q].kind = "retract" THEN "lock" ELSE "commit"
               x == [request[q] EXCEPT !.pc = pc, !.id = nextId]
    <2>1. pc \in {"lock", "commit"} /\ (pc = "lock" <=> request[q].kind = "retract")
      OBVIOUS
    <2> HIDE DEF pc
    <2>2. /\ x \in Session /\ x.pc = pc /\ x.locked = request[q].locked
          /\ x.kind = request[q].kind /\ Writes(x) = Writes(request[q])
      BY <1>a, <1>b, <2>1 DEF Session, Active, Writes
    <2>3. Become(q, x) /\ request[q].pc = "insert"
      BY <1>5 DEF InsertRecord, pc
    <2> HIDE DEF x
    <2>4. QED
      BY <2>1, <2>2, <2>3, LockQuiet DEF LockInv
  <1>6. ASSUME NEW q \in Requests, LockRow(q)
        PROVE  LockInv'
    <2> DEFINE x == [request[q] EXCEPT !.pc = "commit", !.locked = TRUE]
    <2>1. request[q].kind = "retract"
      BY <1>6 DEF LockRow, LockInv
    <2>2. /\ x \in Session /\ x.pc = "commit" /\ x.locked
          /\ x.kind = request[q].kind /\ Writes(x)
      BY <1>a, <2>1 DEF Session, Active, Writes
    <2>3. Become(q, x) /\ RowFree(q)
      BY <1>6 DEF LockRow
    <2> HIDE DEF x
    <2>4. QED
      BY <2>1, <2>2, <2>3, LockQuiet
  <1>7. ASSUME NEW p \in Processes, Restart(p)
        PROVE  LockInv'
    <2>1. \A r \in Requests : \/ request'[r] = request[r]
                              \/ request'[r].pc = "failed" /\ ~request'[r].locked
      BY <1>7, <1>a, RestartFacts, ClosedFacts
    <2>2. QED
      BY <2>1 DEF LockInv
  <1>8. CASE UNCHANGED vars
    BY <1>8 DEF vars, LockInv
  <1>9. QED
    BY <1>1, <1>2, <1>3, <1>4, <1>5, <1>6, <1>7, <1>8 DEF Next, Step

-----------------------------------------------------------------------------
(* What a step does to the records of changes *)

LEMMA NoRecord ==
    ASSUME UNCHANGED audit, \A e \in audit : request'[e.by] = request[e.by]
    PROVE  /\ \A kind : WritersOf(kind)' = WritersOf(kind)
           /\ CeilingSetters' = CeilingSetters
  BY DEF WritersOf, Writes, CeilingSetters, SetsCeiling

\* Whoever wrote a configuration changed the policy.
LEMMA SettersWrite == CeilingSetters \subseteq WritersOf("policy")
  BY DEF CeilingSetters, SetsCeiling, WritersOf, Writes

\* A step that is no commit touches neither rows nor records, nor the sessions of
\* requests that left one.
LEMMA OtherSteps ==
    ASSUME TypeOK, IdsInv, [Next]_vars, \A q \in Requests : ~Commit(q)
    PROVE  /\ UNCHANGED <<policy, tier, audit>>
           /\ \A e \in audit : request'[e.by] = request[e.by]
           /\ \A kind : WritersOf(kind)' = WritersOf(kind)
           /\ CeilingSetters' = CeilingSetters
  <1>a. \A e \in audit : e.by \in Requests /\ request[e.by].pc \in {"done", "refused"}
    BY DEF TypeOK, Record, IdsInv
  <1>1. ASSUME NEW q \in Requests, Arrive(q)
        PROVE  /\ UNCHANGED <<policy, tier, audit>>
               /\ \A e \in audit : request'[e.by] = request[e.by]
    BY <1>a, <1>1, ArriveFacts, BecomeFacts
  <1>2. ASSUME NEW q \in Requests, Step(q) \/ Fail(q)
        PROVE  /\ UNCHANGED <<policy, tier, audit>>
               /\ \A e \in audit : request'[e.by] = request[e.by]
    <2>1. ~Commit(q)
      OBVIOUS
    <2>2. request[q].pc \in Active /\ UNCHANGED <<policy, tier, audit>>
      BY <1>2, <2>1 DEF Step, FlushPolicy, FlushRefused, FlushTrust, ReadLatest, InsertRecord,
         LockRow, Forget, Fail, Active
    <2>3. \A r \in Requests \ {q} : request'[r] = request[r]
      BY <1>2, StepSession, BecomeFacts
    <2>4. QED
      BY <1>a, <2>2, <2>3 DEF Active
  <1>3. ASSUME NEW p \in Processes, Restart(p)
        PROVE  /\ UNCHANGED <<policy, tier, audit>>
               /\ \A e \in audit : request'[e.by] = request[e.by]
    BY <1>a, <1>3, RestartFacts DEF Restart, Active
  <1>4. UNCHANGED vars => UNCHANGED <<policy, tier, audit>> /\ request' = request
    BY DEF vars
  <1>5. /\ UNCHANGED <<policy, tier, audit>>
        /\ \A e \in audit : request'[e.by] = request[e.by]
    BY <1>1, <1>2, <1>3, <1>4 DEF Next
  <1>6. QED
    BY <1>5, NoRecord

\* A commit adds its own record, the newest of its row's when the row was locked
\* before the ledger was read.
LEMMA CommitFacts ==
    ASSUME TypeOK, IdsInv, SeeInv, NEW q \in Requests, Commit(q)
    PROVE  \E n \in Record :
             /\ audit' = audit \cup {n}
             /\ n.by = q /\ n.id = request[q].id /\ n.prev = request[q].prev
             /\ n.prev < n.id
             /\ \A e \in audit : request'[e.by] = request[e.by]
             /\ request'[q].kind = request[q].kind /\ request'[q].want = request[q].want
             /\ request'[q].seen = request[q].seen
             /\ request'[q].pc \in {"done", "refused"}
             /\ \A r \in Requests \ {q} : request'[r] = request[r]
             /\ \A kind : WritersOf(kind)' =
                  WritersOf(kind) \cup {m \in {n} : request[q].kind = kind /\ Writes(request[q])}
             /\ CeilingSetters' = CeilingSetters \cup {m \in {n} : SetsCeiling(request[q])}
             /\ request[q].kind \in {"policy", "trust"} /\ Writes(request[q]) =>
                  \A e \in WritersOf(request[q].kind) : e.id <= n.prev /\ e.id < n.id
  <1> DEFINE n == [id |-> request[q].id, prev |-> request[q].prev, by |-> q]
  <1>a. request[q] \in Session /\ request[q].pc = "commit"
    BY DEF TypeOK, Commit
  <1>1. n \in Record /\ n.by = q /\ n.id = request[q].id /\ n.prev = request[q].prev
    BY <1>a DEF Session, Record
  <1>2. audit' = audit \cup {n}
    BY DEF Commit, Appended
  <1> HIDE DEF n
  <1>3. n.prev < n.id
    BY <1>a, <1>1 DEF IdsInv
  <1>4. \A r \in Requests \ {q} : request'[r] = request[r]
    BY StepSession, BecomeFacts DEF Step
  <1>5. \A e \in audit : e.by \in Requests /\ e.by # q
    BY <1>a DEF TypeOK, Record, IdsInv
  <1>6. \A e \in audit : request'[e.by] = request[e.by]
    BY <1>4, <1>5
  <1>7. /\ request'[q].kind = request[q].kind /\ request'[q].want = request[q].want
        /\ request'[q].seen = request[q].seen /\ request'[q].base = request[q].base
    BY StepKeeps DEF Step
  <1>8. request'[q].pc \in {"done", "refused"}
    <2>1. \E pc \in {"done", "refused"} : Become(q, Closed(request[q], pc))
      BY DEF Commit
    <2>2. QED
      BY <1>a, <2>1, ClosedFacts, BecomeFacts
  <1>9. \A kind : WritersOf(kind)' =
          WritersOf(kind) \cup {m \in {n} : request[q].kind = kind /\ Writes(request[q])}
    <2>1. Writes(request'[q]) <=> Writes(request[q])
      BY <1>7 DEF Writes
    <2>2. QED
      BY <1>1, <1>2, <1>6, <1>7, <2>1 DEF WritersOf
  <1>10. request[q].kind \in {"policy", "trust"} /\ Writes(request[q]) =>
           \A e \in WritersOf(request[q].kind) : e.id <= n.prev /\ e.id < n.id
    <2>1. \A e \in audit : e.id \in Nat
      BY DEF TypeOK, Record
    <2>2. n.prev \in Nat /\ n.id \in Nat
      BY <1>1 DEF Record
    <2>3. QED
      BY <1>a, <1>1, <1>3, <2>1, <2>2 DEF SeeInv, WritersOf
  <1>11. CeilingSetters' = CeilingSetters \cup {m \in {n} : SetsCeiling(request[q])}
    <2>1. SetsCeiling(request'[q]) <=> SetsCeiling(request[q])
      BY <1>7 DEF SetsCeiling
    <2>2. QED
      BY <1>1, <1>2, <1>6, <2>1 DEF CeilingSetters
  <1>12. QED
    BY <1>1, <1>2, <1>3, <1>4, <1>6, <1>7, <1>8, <1>9, <1>10, <1>11

-----------------------------------------------------------------------------
(* Changes of one row see each other *)

LEMMA SeeStep ==
    ASSUME TypeOK, IdsInv, LockInv, SeeInv, [Next]_vars
    PROVE  SeeInv'
  <1>a. \A e \in audit : e \in Record /\ e.id \in Nat /\ e.prev \in Nat
    BY DEF TypeOK, Record
  <1>b. \A r \in Requests : request[r] \in Session
    BY DEF TypeOK
  <1> DEFINE Held(r) == /\ Writes(request[r])
                        /\ request[r].pc \in {"insert", "commit"}
  <1>1. ASSUME \A q \in Requests : ~Commit(q)
        PROVE  SeeInv'
    <2>1. audit' = audit /\ \A kind : WritersOf(kind)' = WritersOf(kind)
      BY <1>1, OtherSteps
    <2>2. WritersSeeEachOther'
      BY <2>1 DEF SeeInv, WritersSeeEachOther, Saw
    <2>3. ASSUME NEW kind \in {"policy", "trust"}, NEW r \in Requests,
                 request'[r].kind = kind, Held(r)'
          PROVE  \A e \in WritersOf(kind) : e.id <= request'[r].prev
      <3>1. CASE request'[r] = request[r]
        BY <2>3, <3>1 DEF SeeInv
      <3>2. CASE Arrive(r)
        <4>1. request'[r].pc \in {"flush", "read", "done"}
          BY <3>2, ArriveFacts, BecomeFacts
        <4>2. QED
          BY <2>3, <4>1
      <3>3. ASSUME NEW n \in 0 .. nextId - 1, ReadLatest(r, n)
            PROVE  \A e \in audit : e.id <= request'[r].prev
        <4>1. request'[r] = [request[r] EXCEPT !.pc = "insert", !.prev = n]
          BY <3>3 DEF ReadLatest, Become, TypeOK
        <4>2. request'[r].prev = n
          BY <1>b, <4>1 DEF Session
        <4>3. QED
          BY <3>3, <4>2 DEF ReadLatest, IsLatest, Ids
      <3>4. CASE InsertRecord(r)
        <4>1. request'[r] = [request[r] EXCEPT
                !.pc = IF request[r].kind = "retract" THEN "lock" ELSE "commit", !.id = nextId]
          BY <3>4 DEF InsertRecord, Become, TypeOK
        <4>2. /\ request'[r].prev = request[r].prev /\ request'[r].kind = request[r].kind
              /\ request'[r].want = request[r].want /\ request'[r].seen = request[r].seen
          BY <1>b, <4>1 DEF Session
        <4>3. Held(r)
          BY <2>3, <3>4, <4>2 DEF InsertRecord, Writes
        <4>4. QED
          BY <2>3, <4>2, <4>3 DEF SeeInv
      <3>5. CASE FlushPolicy(r) \/ FlushTrust(r)
        <4>1. \/ request'[r] = [request[r] EXCEPT !.pc = "read", !.locked = TRUE]
              \/ request'[r] = [request[r] EXCEPT !.pc = "read", !.locked = Writes(request[r])]
          BY <3>5 DEF FlushPolicy, FlushTrust, Become, TypeOK
        <4>2. request'[r].pc = "read"
          BY <1>b, <4>1 DEF Session
        <4>3. QED
          BY <2>3, <4>2
      <3>6. CASE FlushRefused(r) \/ Forget(r) \/ Fail(r)
        <4>1. request'[r].pc \in {"done", "refused", "failed"}
          BY <3>6, EndFacts, BecomeFacts
        <4>2. QED
          BY <2>3, <4>1
      <3>7. CASE LockRow(r)
        <4>1. request[r].kind = "retract"
          BY <3>7 DEF LockRow, LockInv
        <4>2. request'[r].kind = "retract"
          BY <3>7, <4>1, StepKeeps DEF Step
        <4>3. QED
          BY <2>3, <4>2
      <3>8. ASSUME NEW p \in Processes, Restart(p), request'[r] # request[r]
            PROVE  FALSE
        <4>1. request'[r].pc = "failed"
          BY <1>b, <3>8, RestartFacts, ClosedFacts
        <4>2. QED
          BY <2>3, <4>1
      <3>9. ASSUME NEW q \in Requests \ {r}, Arrive(q) \/ Step(q) \/ Fail(q)
            PROVE  request'[r] = request[r]
        BY <3>9, StepSession, BecomeFacts
      <3>10. WritersOf(kind) \subseteq audit
        BY DEF WritersOf
      <3>11. CASE UNCHANGED vars
        BY <3>1, <3>11 DEF vars
      <3>12. QED
        BY <1>1, <3>1, <3>2, <3>3, <3>4, <3>5, <3>6, <3>7, <3>8, <3>9, <3>10, <3>11 DEF Next, Step
    <2>4. QED
      BY <2>1, <2>2, <2>3 DEF SeeInv
  <1>2. ASSUME NEW q \in Requests, Commit(q)
        PROVE  SeeInv'
    <2>1. PICK n \in Record :
            /\ audit' = audit \cup {n}
            /\ n.prev < n.id
            /\ request'[q].pc \in {"done", "refused"}
            /\ \A r \in Requests \ {q} : request'[r] = request[r]
            /\ \A kind : WritersOf(kind)' =
                 WritersOf(kind) \cup {m \in {n} : request[q].kind = kind /\ Writes(request[q])}
            /\ request[q].kind \in {"policy", "trust"} /\ Writes(request[q]) =>
                 \A e \in WritersOf(request[q].kind) : e.id <= n.prev /\ e.id < n.id
      BY <1>2, CommitFacts
    <2>2. n.id \in Nat /\ n.prev \in Nat
      BY DEF Record
    <2>3. WritersSeeEachOther'
      <3>1. SUFFICES ASSUME NEW kind \in {"policy", "trust"},
                            NEW d \in WritersOf(kind)', NEW e \in WritersOf(kind)', d.id < e.id
                     PROVE  d.id <= e.prev
        BY DEF WritersSeeEachOther, Saw
      <3>2. WritersOf(kind) \subseteq audit
        BY DEF WritersOf
      <3>3. CASE d \in WritersOf(kind) /\ e \in WritersOf(kind)
        BY <3>1, <3>3 DEF SeeInv, WritersSeeEachOther, Saw
      <3>4. CASE d \in WritersOf(kind) /\ e = n /\ e \notin WritersOf(kind)
        BY <2>1, <3>4
      <3>5. CASE d = n /\ d \notin WritersOf(kind)
        <4>1. e.id = n.id \/ e.id < n.id
          BY <2>1, <3>5
        <4>2. e.id \in Nat
          BY <1>a, <2>1, <2>2, <3>2
        <4>3. QED
          BY <2>2, <3>1, <3>5, <4>1, <4>2
      <3>6. QED
        BY <2>1, <3>3, <3>4, <3>5
    <2>4. ASSUME NEW kind \in {"policy", "trust"}, NEW r \in Requests,
                 request'[r].kind = kind, Held(r)'
          PROVE  \A e \in WritersOf(kind)' : e.id <= request'[r].prev
      <3>1. r # q /\ request'[r] = request[r]
        BY <2>1, <2>4
      <3>2. Held(r)
        BY <2>4, <3>1 DEF Writes
      <3>3. request[r].locked
        BY <2>4, <3>1, <3>2 DEF LockInv
      <3>4. request[q].pc = "commit"
        BY <1>2 DEF Commit
      <3>5. ~(request[q].kind = kind /\ Writes(request[q]))
        BY <2>4, <3>1, <3>2, <3>3, <3>4 DEF LockInv
      <3>6. WritersOf(kind)' = WritersOf(kind)
        BY <2>1, <3>5
      <3>7. QED
        BY <2>4, <3>1, <3>2, <3>6 DEF SeeInv
    <2>5. QED
      BY <2>3, <2>4 DEF SeeInv
  <1>3. QED
    BY <1>1, <1>2

-----------------------------------------------------------------------------
(* The last record tells what the row holds *)

\* A request that has loaded a policy row has one to update.
LEMMA SeenStep ==
    ASSUME TypeOK, SeenInv, [Next]_vars
    PROVE  SeenInv'
  <1>a. \A r \in Requests : request[r] \in Session
    BY DEF TypeOK
  <1>1. policy.version # 0 => policy'.version # 0
    <2>1. ASSUME NEW q \in Requests, Commit(q)
          PROVE  policy.version # 0 => policy'.version # 0
      <3>1. request[q].seen \in Nat
        BY <1>a DEF Session
      <3>2. QED
        BY <2>1, <3>1 DEF Commit
    <2>2. ASSUME \A q \in Requests : ~Commit(q)
          PROVE  policy' = policy
      BY <2>2 DEF Next, Arrive, Load, Denied, View, Step, FlushPolicy, FlushRefused, FlushTrust,
         ReadLatest, InsertRecord, LockRow, Forget, Fail, Restart, vars
    <2>3. QED
      BY <2>1, <2>2
  <1>2. ASSUME NEW q \in Requests, NEW kind \in Kinds, NEW want, Load(q, kind, want)
        PROVE  request'[q].kind = "policy" /\ request'[q].seen # 0 => policy.version # 0
    BY <1>2, <1>a DEF Load, Become, TypeOK, Session
  <1>3. ASSUME NEW q \in Requests, NEW kind \in Kinds, NEW want, Denied(q, kind, want)
        PROVE  request'[q].kind # "policy"
    BY <1>3, <1>a DEF Denied, Become, TypeOK, Session
  <1>4. ASSUME NEW q \in Requests, View(q)
        PROVE  request'[q].kind = request[q].kind /\ request'[q].seen = request[q].seen
    BY <1>4, <1>a DEF View, Become, TypeOK, Session
  <1>5. ASSUME NEW q \in Requests, Step(q) \/ Fail(q)
        PROVE  request'[q].kind = request[q].kind /\ request'[q].seen = request[q].seen
    BY <1>5, StepKeeps
  <1>6. ASSUME NEW q \in Requests, Arrive(q) \/ Step(q) \/ Fail(q)
        PROVE  SeenInv'
    <2>1. \A r \in Requests \ {q} : request'[r] = request[r]
      BY <1>6, StepSession, BecomeFacts
    <2>2. request'[q].kind = "policy" /\ request'[q].seen # 0 => policy.version # 0
      BY <1>2, <1>3, <1>4, <1>5, <1>6 DEF Arrive, SeenInv
    <2>3. QED
      BY <1>1, <2>1, <2>2 DEF SeenInv
  <1>7. ASSUME NEW p \in Processes, Restart(p)
        PROVE  SeenInv'
    <2>1. \A q \in Requests : request'[q].kind = request[q].kind /\ request'[q].seen = request[q].seen
      BY <1>7, <1>a, RestartFacts, ClosedFacts
    <2>2. QED
      BY <1>1, <2>1 DEF SeenInv
  <1>8. CASE UNCHANGED vars
    BY <1>8 DEF vars, SeenInv
  <1>9. QED
    BY <1>6, <1>7, <1>8 DEF Next

LEMMA TellRows ==
    ASSUME TypeOK, IdsInv, SeeInv, TellInv, [Next]_vars
    PROVE  /\ LastRecordTells'
           /\ (policy.version # 0 => \E e \in CeilingSetters : policy.ceiling = request[e.by].want)'
  <1>a. /\ WritersOf("policy") \subseteq audit /\ WritersOf("trust") \subseteq audit
        /\ CeilingSetters \subseteq WritersOf("policy")
    BY SettersWrite DEF WritersOf
  <1>b. \A e \in audit : e.id \in Nat
    BY DEF TypeOK, Record
  <1>1. ASSUME \A q \in Requests : ~Commit(q)
        PROVE  /\ LastRecordTells'
               /\ (policy.version # 0 => \E e \in CeilingSetters : policy.ceiling = request[e.by].want)'
    <2>1. /\ UNCHANGED <<policy, tier, audit>>
          /\ \A e \in audit : request'[e.by] = request[e.by]
          /\ WritersOf("policy")' = WritersOf("policy")
          /\ WritersOf("trust")' = WritersOf("trust")
          /\ CeilingSetters' = CeilingSetters
      BY <1>1, OtherSteps
    <2>2. QED
      BY <1>a, <2>1 DEF TellInv, LastRecordTells, NewestOf
  <1>2. ASSUME NEW q \in Requests, Commit(q)
        PROVE  /\ LastRecordTells'
               /\ (policy.version # 0 => \E e \in CeilingSetters : policy.ceiling = request[e.by].want)'
    <2>1. PICK n \in Record :
            /\ audit' = audit \cup {n}
            /\ n.by = q
            /\ \A e \in audit : request'[e.by] = request[e.by]
            /\ request'[q].want = request[q].want /\ request'[q].seen = request[q].seen
            /\ \A kind : WritersOf(kind)' =
                 WritersOf(kind) \cup {m \in {n} : request[q].kind = kind /\ Writes(request[q])}
            /\ CeilingSetters' = CeilingSetters \cup {m \in {n} : SetsCeiling(request[q])}
            /\ request[q].kind \in {"policy", "trust"} /\ Writes(request[q]) =>
                 \A e \in WritersOf(request[q].kind) : e.id < n.id
      BY <1>2, CommitFacts
    <2>2. n.id \in Nat
      BY DEF Record
    <2>3. /\ policy' = IF request[q].kind = "policy"
                        THEN [version |-> request[q].seen + 1,
                              ceiling |-> IF SetsCeiling(request[q]) THEN request[q].want
                                          ELSE policy.ceiling]
                        ELSE policy
          /\ tier' = IF request[q].kind = "trust" /\ Writes(request[q]) THEN request[q].want ELSE tier
      BY <1>2 DEF Commit
    \* The version, and the set of those who gave it.
    <2>4. ASSUME NEW e \in audit', NewestOf(e, WritersOf("policy")')
          PROVE  policy'.version = request'[e.by].seen + 1
      <3>1. CASE request[q].kind = "policy"
        <4>1. Writes(request[q])
          BY <3>1 DEF Writes
        <4>2. WritersOf("policy")' = WritersOf("policy") \cup {n}
          BY <2>1, <3>1, <4>1
        <4>3. \A d \in WritersOf("policy") : d.id \in Nat /\ d.id < n.id
          BY <1>a, <1>b, <2>1, <3>1, <4>1
        <4>4. e = n
          BY <2>2, <2>4, <4>2, <4>3 DEF NewestOf
        <4>5. QED
          BY <2>1, <2>3, <3>1, <4>4
      <3>2. CASE request[q].kind # "policy"
        <4>1. WritersOf("policy")' = WritersOf("policy") /\ policy' = policy
          BY <2>1, <2>3, <3>2
        <4>2. e \in audit /\ NewestOf(e, WritersOf("policy"))
          BY <1>a, <2>4, <4>1 DEF NewestOf
        <4>3. QED
          BY <2>1, <4>1, <4>2 DEF TellInv, LastRecordTells
      <3>3. QED
        BY <3>1, <3>2
    \* The configuration: a commit either sets it or leaves it and its setters alone.
    <2>5. ASSUME NEW e \in audit', NewestOf(e, CeilingSetters')
          PROVE  policy'.ceiling = request'[e.by].want
      <3>1. CASE SetsCeiling(request[q])
        <4>1. request[q].kind = "policy" /\ Writes(request[q])
          BY <3>1 DEF SetsCeiling, Writes
        <4>2. CeilingSetters' = CeilingSetters \cup {n}
          BY <2>1, <3>1
        <4>3. \A d \in CeilingSetters : d.id \in Nat /\ d.id < n.id
          BY <1>a, <1>b, <2>1, <4>1
        <4>4. e = n
          BY <2>2, <2>5, <4>2, <4>3 DEF NewestOf
        <4>5. QED
          BY <2>1, <2>3, <3>1, <4>1, <4>4
      <3>2. CASE ~SetsCeiling(request[q])
        <4>1. CeilingSetters' = CeilingSetters /\ policy'.ceiling = policy.ceiling
          BY <2>1, <2>3, <3>2
        <4>2. e \in audit /\ NewestOf(e, CeilingSetters)
          BY <1>a, <2>5, <4>1 DEF NewestOf
        <4>3. QED
          BY <2>1, <4>1, <4>2 DEF TellInv, LastRecordTells
      <3>3. QED
        BY <3>1, <3>2
    <2>6. ASSUME NEW e \in audit', NewestOf(e, WritersOf("trust")')
          PROVE  tier' = request'[e.by].want
      <3>1. CASE request[q].kind = "trust" /\ Writes(request[q])
        <4>1. WritersOf("trust")' = WritersOf("trust") \cup {n}
          BY <2>1, <3>1
        <4>2. \A d \in WritersOf("trust") : d.id \in Nat /\ d.id < n.id
          BY <1>a, <1>b, <2>1, <3>1
        <4>3. e = n
          BY <2>2, <2>6, <4>1, <4>2 DEF NewestOf
        <4>4. QED
          BY <2>1, <2>3, <3>1, <4>3
      <3>2. CASE ~(request[q].kind = "trust" /\ Writes(request[q]))
        <4>1. WritersOf("trust")' = WritersOf("trust") /\ tier' = tier
          BY <2>1, <2>3, <3>2
        <4>2. e \in audit /\ NewestOf(e, WritersOf("trust"))
          BY <1>a, <2>6, <4>1 DEF NewestOf
        <4>3. QED
          BY <2>1, <4>1, <4>2 DEF TellInv, LastRecordTells
      <3>3. QED
        BY <3>1, <3>2
    <2>7. policy'.version # 0 =>
            \E e \in CeilingSetters' : policy'.ceiling = request'[e.by].want
      <3>1. CASE SetsCeiling(request[q])
        <4>1. request[q].kind = "policy" /\ n \in CeilingSetters'
          BY <2>1, <3>1 DEF SetsCeiling
        <4>2. QED
          BY <2>1, <2>3, <3>1, <4>1
      <3>2. CASE ~SetsCeiling(request[q]) /\ request[q].kind = "policy"
        <4>1. request[q].seen # 0
          BY <3>2 DEF SetsCeiling
        <4>2. policy.version # 0
          BY <3>2, <4>1 DEF TellInv, SeenInv
        <4>3. PICK e \in CeilingSetters : policy.ceiling = request[e.by].want
          BY <4>2 DEF TellInv
        <4>4. CeilingSetters' = CeilingSetters /\ policy'.ceiling = policy.ceiling
          BY <2>1, <2>3, <3>2
        <4>5. QED
          BY <1>a, <2>1, <4>3, <4>4
      <3>3. CASE request[q].kind # "policy"
        <4>1. policy' = policy /\ CeilingSetters' = CeilingSetters
          BY <2>1, <2>3, <3>3 DEF SetsCeiling
        <4>2. QED
          BY <1>a, <2>1, <4>1 DEF TellInv
      <3>4. QED
        BY <3>1, <3>2, <3>3
    <2>8. policy'.version # 0 => CeilingSetters' # {}
      BY <2>7
    <2>9. QED
      BY <2>4, <2>5, <2>6, <2>7, <2>8 DEF LastRecordTells
  <1>3. QED
    BY <1>1, <1>2

\* A configuration of an update that is open or failed stays explained.
LEMMA OpenUpdate ==
    ASSUME TypeOK, IdsInv, LockInv, SeeInv, [Next]_vars,
           NEW q \in Requests, request[q].kind = "policy",
           request[q].locked \/ request[q].pc = "failed"
    PROVE  \/ /\ request'[q].kind = "policy" /\ request'[q].want = request[q].want
              /\ request'[q].locked \/ request'[q].pc = "failed"
           \/ \E e \in WritersOf("policy")' : request'[e.by].want = request[q].want
  <1>a. request[q] \in Session /\ request[q].pc \in {"read", "insert", "commit", "failed"}
    BY DEF TypeOK, LockInv
  <1>1. CASE Arrive(q) \/ FlushPolicy(q) \/ FlushRefused(q) \/ FlushTrust(q) \/ LockRow(q) \/ Forget(q)
    <2>1. ~Arrive(q)
      BY <1>a, ArriveFacts
    <2>2. QED
      BY <1>1, <1>a, <2>1 DEF FlushPolicy, FlushRefused, FlushTrust, LockRow, Forget
  <1>2. ASSUME NEW n \in 0 .. nextId - 1, ReadLatest(q, n)
        PROVE  request'[q].locked \/ request'[q].pc = "failed"
    <2>1. request'[q] = [request[q] EXCEPT !.pc = "insert", !.prev = n] /\ request[q].locked
      BY <1>2 DEF ReadLatest, Become, TypeOK
    <2>2. QED
      BY <1>a, <2>1 DEF Session
  <1>3. CASE InsertRecord(q)
    <2>1. /\ request'[q] = [request[q] EXCEPT
                !.pc = IF request[q].kind = "retract" THEN "lock" ELSE "commit", !.id = nextId]
          /\ request[q].locked
      BY <1>3 DEF InsertRecord, Become, TypeOK
    <2>2. QED
      BY <1>a, <2>1 DEF Session
  <1>4. CASE Fail(q)
    <2>1. Become(q, Closed(request[q], "failed"))
      BY <1>4 DEF Fail
    <2>2. request'[q].pc = "failed"
      BY <1>a, <2>1, ClosedFacts, BecomeFacts
    <2>3. QED
      BY <1>4, <2>2, StepKeeps
  <1>5. CASE Commit(q)
    <2>1. PICK n \in Record :
            /\ n.by = q
            /\ request'[q].want = request[q].want
            /\ \A kind : WritersOf(kind)' =
                 WritersOf(kind) \cup {m \in {n} : request[q].kind = kind /\ Writes(request[q])}
      BY <1>5, CommitFacts
    <2>2. Writes(request[q])
      BY DEF Writes
    <2>3. QED
      BY <2>1, <2>2
  <1>6. ASSUME NEW p \in Processes, Restart(p)
        PROVE  /\ request'[q].kind = "policy" /\ request'[q].want = request[q].want
               /\ request'[q].locked \/ request'[q].pc = "failed"
    BY <1>a, <1>6, RestartFacts, ClosedFacts
  <1>7. ASSUME NEW r \in Requests \ {q}, Arrive(r) \/ Step(r) \/ Fail(r)
        PROVE  request'[q] = request[q]
    BY <1>7, StepSession, BecomeFacts
  <1>8. CASE UNCHANGED vars
    BY <1>8 DEF vars
  <1>9. Step(q) => request'[q].kind = "policy" /\ request'[q].want = request[q].want
    BY StepKeeps
  <1>10. QED
    BY <1>1, <1>2, <1>3, <1>4, <1>5, <1>6, <1>7, <1>8, <1>9 DEF Next, Step

LEMMA EnforcedStep ==
    ASSUME TypeOK, IdsInv, LockInv, SeeInv, TellInv, [Next]_vars
    PROVE  EnforcedWasAskedFor'
  <1>0. /\ WritersOf("policy") \subseteq WritersOf("policy")'
        /\ \A e \in WritersOf("policy") : request'[e.by] = request[e.by]
    <2>1. WritersOf("policy") \subseteq audit
      BY DEF WritersOf
    <2>2. ASSUME NEW q \in Requests, Commit(q)
          PROVE  /\ WritersOf("policy") \subseteq WritersOf("policy")'
                 /\ \A e \in audit : request'[e.by] = request[e.by]
      BY <2>2, CommitFacts
    <2>3. QED
      BY <2>1, <2>2, OtherSteps
  <1> DEFINE Explained(c, p) ==
        \/ c = DefaultCeiling
        \/ \E e \in WritersOf("policy") : c = request[e.by].want
        \/ \E q \in Requests :
             /\ ProcessOf[q] = p
             /\ request[q].kind = "policy" /\ request[q].want = c
             /\ request[q].locked \/ request[q].pc = "failed"
  <1>1. ASSUME NEW p \in Processes, NEW c, Explained(c, p)
        PROVE  Explained(c, p)'
    <2>1. CASE c = DefaultCeiling
      BY <2>1
    <2>2. CASE \E e \in WritersOf("policy") : c = request[e.by].want
      BY <1>0, <2>2
    <2>3. ASSUME NEW q \in Requests, ProcessOf[q] = p,
                 request[q].kind = "policy", request[q].want = c,
                 request[q].locked \/ request[q].pc = "failed"
          PROVE  Explained(c, p)'
      BY <2>3, OpenUpdate
    <2>4. QED
      BY <1>1, <2>1, <2>2, <2>3
  <1>2. \A p \in Processes : Explained(cache[p], p) /\ Explained(Configured(p), p)
    BY SettersWrite DEF TellInv, EnforcedWasAskedFor, Configured
  <1>3. SUFFICES ASSUME NEW p \in Processes
                 PROVE  Explained(cache[p], p)'
    BY DEF EnforcedWasAskedFor
  <1>4. CASE cache'[p] \in {cache[p], Configured(p), DefaultCeiling}
    <2>1. PICK c : c = cache'[p] /\ Explained(c, p)
      BY <1>2, <1>4
    <2>2. QED
      BY <1>1, <2>1
  <1>5. ASSUME NEW q \in Requests, FlushPolicy(q), ProcessOf[q] = p
        PROVE  Explained(cache[p], p)'
    <2>1. request'[q] = [request[q] EXCEPT !.pc = "read", !.locked = TRUE]
      BY <1>5 DEF FlushPolicy, Become, TypeOK
    <2>2. request[q] \in Session
      BY DEF TypeOK
    <2>3. request'[q].locked /\ request'[q].kind = "policy" /\ request'[q].want = request[q].want
      BY <1>5, <2>1, <2>2 DEF FlushPolicy, Session
    <2>4. cache'[p] = request[q].want
      BY <1>5 DEF FlushPolicy, TypeOK
    <2>5. QED
      BY <1>5, <2>3, <2>4
  <1>6. ASSUME NEW q \in Requests, Arrive(q) \/ Step(q) \/ Fail(q), ~(FlushPolicy(q) /\ ProcessOf[q] = p)
        PROVE  cache'[p] \in {cache[p], Configured(p), DefaultCeiling}
    <2>1. CASE Arrive(q)
      BY <2>1 DEF Arrive, Load, Denied, View, TypeOK
    <2>2. CASE FlushPolicy(q)
      BY <1>6, <2>2 DEF FlushPolicy, TypeOK
    <2>3. CASE \E n \in 0 .. nextId - 1 : ReadLatest(q, n)
      BY <2>3 DEF ReadLatest
    <2>4. CASE FlushRefused(q) \/ FlushTrust(q) \/ InsertRecord(q) \/ LockRow(q) \/ Commit(q)
               \/ Forget(q) \/ Fail(q)
      BY <2>4 DEF FlushRefused, FlushTrust, InsertRecord, LockRow, Commit, Forget, Fail
    <2>5. QED
      BY <1>6, <2>1, <2>2, <2>3, <2>4 DEF Step
  <1>7. ASSUME NEW s \in Processes, Restart(s)
        PROVE  cache'[p] \in {cache[p], Configured(p), DefaultCeiling}
    BY <1>7 DEF Restart, TypeOK
  <1>8. UNCHANGED vars => cache' = cache
    BY DEF vars
  <1>9. QED
    BY <1>4, <1>5, <1>6, <1>7, <1>8 DEF Next

-----------------------------------------------------------------------------
(* The theorems *)

LEMMA LedgerInit ==
    ASSUME Init
    PROVE  LedgerInv
  <1> USE GovernanceAssumption
  <1>1. \A q \in Requests : /\ request[q] \in Session
                            /\ request[q].pc = "new" /\ request[q].kind = "view"
                            /\ ~request[q].locked
    BY DEF Init, Session, Active, Kinds
  <1>2. audit = {} /\ nextId = 1 /\ policy.version = 0 /\ \A p \in Processes : cache[p] = DefaultCeiling
    BY DEF Init
  <1>3. TypeOK
    BY DEF Init, TypeOK, Session, Active, Kinds
  <1>4. WantInv /\ IdsInv /\ LockInv
    BY <1>1, <1>2 DEF WantInv, IdsInv, LockInv, Ids
  <1>5. WritersOf("policy") = {} /\ WritersOf("trust") = {}
    BY <1>2 DEF WritersOf
  <1>6. SeeInv /\ TellInv
    BY <1>1, <1>2, <1>5 DEF SeeInv, TellInv, SeenInv, NewestOf, WritersSeeEachOther, LastRecordTells, EnforcedWasAskedFor
  <1>7. QED
    BY <1>3, <1>4, <1>6 DEF LedgerInv

LEMMA LedgerStep ==
    ASSUME LedgerInv, [Next]_vars
    PROVE  LedgerInv'
  <1>1. TypeOK' /\ WantInv'
    BY TypeStep DEF LedgerInv
  <1>2. IdsInv' /\ LockInv'
    BY IdsStep, LockStep DEF LedgerInv
  <1>3. SeeInv'
    BY SeeStep DEF LedgerInv
  <1>4. TellInv'
    BY SeenStep, TellRows, EnforcedStep DEF LedgerInv, TellInv
  <1>5. QED
    BY <1>1, <1>2, <1>3, <1>4 DEF LedgerInv

\* The ledger's inductive invariant: types, ids and links, row locks, and what
\* records and the cached policy say about the rows.
THEOREM LedgerSafe == Spec => []LedgerInv
  <1>1. Init => LedgerInv
    BY LedgerInit
  <1>2. LedgerInv /\ [Next]_vars => LedgerInv'
    BY LedgerStep
  <1>3. QED
    BY <1>1, <1>2, PTL DEF Spec

\* The tables, sessions and caches keep their types.
THEOREM LedgerTyped == Spec => []TypeOK
  <1>1. LedgerInv => TypeOK
    BY DEF LedgerInv
  <1>2. QED
    BY <1>1, LedgerSafe, PTL

\* However requests overlap, roll back or die, the committed records form a tree
\* that is rooted at the genesis hash.
THEOREM LedgerRooted == Spec => []ChainRooted
  <1>1. LedgerInv => ChainRooted
    <2>1. SUFFICES ASSUME LedgerInv, NEW e \in audit, e.prev # 0
                   PROVE  \E d \in audit : d.id = e.prev /\ d.id < e.id
      BY DEF ChainRooted
    <2>2. e.prev \in Ids /\ e.prev < e.id
      BY <2>1 DEF LedgerInv, IdsInv
    <2>3. QED
      BY <2>2 DEF Ids
  <1>2. QED
    BY <1>1, LedgerSafe, PTL

\* Flushing before appending orders the records of one row: no fork between them.
THEOREM WritersOrdered == Spec => []WritersSeeEachOther
  <1>1. LedgerInv => WritersSeeEachOther
    BY DEF LedgerInv, SeeInv
  <1>2. QED
    BY <1>1, LedgerSafe, PTL

\* The newest record of a change says what the policy and the source hold.
THEOREM LastTells == Spec => []LastRecordTells
  <1>1. LedgerInv => LastRecordTells
    BY DEF LedgerInv, TellInv
  <1>2. QED
    BY <1>1, LedgerSafe, PTL

\* A process enforces the default, something committed, or what an update of its
\* own that is open or failed had asked for.
THEOREM EnforcedExplained == Spec => []EnforcedWasAskedFor
  <1>1. LedgerInv => EnforcedWasAskedFor
    BY DEF LedgerInv, TellInv
  <1>2. QED
    BY <1>1, LedgerSafe, PTL

\* A request that waits for a row waits for one that waits for no other.
THEOREM NobodyWaitsInCircle == Spec => []HolderIsOnItsWay
  <1>1. LedgerInv => HolderIsOnItsWay
    BY DEF LedgerInv, LockInv, HolderIsOnItsWay
  <1>2. QED
    BY <1>1, LedgerSafe, PTL

\* Among natural numbers there is a least one.
LEMMA LeastNatural ==
    ASSUME NEW T, T \subseteq Nat, T # {}
    PROVE  \E m \in T : \A n \in T : m <= n
  <1> DEFINE Less == {ss \in Nat \X Nat : ss[1] < ss[2]}
  <1>1. IsWellFoundedOn(Less, Nat)
    BY NatLessThanWellFounded DEF OpToRel
  <1>2. \A m, n \in Nat : n < m => <<n, m>> \in Less
    OBVIOUS
  <1> HIDE DEF Less
  <1>3. PICK m \in T : \A n \in T : ~(<<n, m>> \in Less)
    BY <1>1, WFMin
  <1>4. \A n \in T : ~(n < m)
    BY <1>2, <1>3
  <1>5. m \in Nat /\ \A n \in T : n \in Nat
    OBVIOUS
  <1>6. \A n \in T : m <= n
    BY <1>4, <1>5
  <1>7. QED
    BY <1>6

\* Two records with one link: the later one passes the earlier one by.
LEMMA ForkBreaks ==
    ASSUME LedgerInv, NEW d \in audit, NEW e \in audit, d # e, d.prev = e.prev
    PROVE  BrokenLinks # {}
  <1>1. /\ d.id \in Nat /\ e.id \in Nat /\ d.id # e.id
        /\ d.prev < d.id /\ e.prev < e.id /\ d.id \in Ids /\ e.id \in Ids
    BY DEF LedgerInv, TypeOK, Record, IdsInv, Ids
  <1>2. CASE d.id < e.id
    BY <1>1, <1>2 DEF BrokenLinks
  <1>3. CASE e.id < d.id
    BY <1>1, <1>3 DEF BrokenLinks
  <1>4. QED
    BY <1>1, <1>2, <1>3

\* The first record with a broken link shares its link with the first record after it.
LEMMA BreakForks ==
    ASSUME LedgerInv, BrokenLinks # {}
    PROVE  \E d, e \in audit : d # e /\ d.prev = e.prev
  <1>1. \A e \in audit : /\ e.id \in Nat /\ e.prev \in Nat /\ e.prev < e.id
                         /\ e.prev \in Ids \cup {0} /\ e.id \in Ids
    BY DEF LedgerInv, TypeOK, Record, IdsInv, Ids
  <1>2. BrokenLinks = {e \in audit : \E i \in Ids : e.prev < i /\ i < e.id}
    BY <1>1 DEF BrokenLinks
  <1>3. PICK e \in BrokenLinks : \A c \in BrokenLinks : e.id <= c.id
    <2> DEFINE T == {c.id : c \in BrokenLinks}
    <2>1. T \subseteq Nat /\ T # {}
      BY <1>1, <1>2
    <2>2. PICK m \in T : \A n \in T : m <= n
      BY <2>1, LeastNatural
    <2>3. QED
      BY <2>2
  <1>4. PICK i \in {j \in Ids : e.prev < j} : \A j \in {k \in Ids : e.prev < k} : i <= j
    <2> DEFINE T == {j \in Ids : e.prev < j}
    <2>1. T \subseteq Nat /\ T # {}
      BY <1>1, <1>2 DEF Ids
    <2>2. QED
      BY <2>1, LeastNatural
  <1>5. e \in audit /\ i < e.id
    BY <1>1, <1>2, <1>4 DEF Ids
  <1>6. PICK d \in audit : d.id = i
    BY <1>4 DEF Ids
  <1>7. d.prev <= e.prev
    BY <1>1, <1>4, <1>5, <1>6
  <1>8. d.prev = e.prev
    <2>1. SUFFICES ASSUME d.prev < e.prev
                   PROVE  FALSE
      BY <1>1, <1>5, <1>7
    <2>2. e.prev \in Ids /\ e.prev < d.id
      BY <1>1, <1>4, <1>5, <1>6, <2>1
    <2>3. d \in BrokenLinks
      BY <1>2, <2>1, <2>2
    <2>4. QED
      BY <1>1, <1>3, <1>5, <1>6, <2>3
  <1>9. d # e
    BY <1>1, <1>5, <1>6
  <1>10. QED
    BY <1>5, <1>8, <1>9

\* verify complains exactly when two committed records link to the same one, however
\* many gaps rollbacks leave and in whatever order ids are committed (repos.py 773-800).
THEOREM AlarmsAreForks == Spec => []AlarmIsFork
  <1>1. LedgerInv => AlarmIsFork
    BY ForkBreaks, BreakForks DEF AlarmIsFork
  <1>2. QED
    BY <1>1, LedgerSafe, PTL

=============================================================================
