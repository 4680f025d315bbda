-------------------------- MODULE ExecutionProofs --------------------------
(***************************************************************************)
(* Safety of the parts an execution rests on, each by itself, for any      *)
(* values of their constants: the discovery tells its failures,            *)
(* overspending of a run is bounded and no canned text passes for an       *)
(* answer, no article is announced twice, citations name their rows, the   *)
(* primitives keep their promises and propositions keep their evidence.    *)
(* The parts other than the discovery are instances, so that their names   *)
(* do not meet.                                                            *)
(***************************************************************************)
EXTENDS ExecutionParts, FiniteSetTheorems, SequenceTheorems,
        WellFoundedInduction, TLAPS

-----------------------------------------------------------------------------
(* Discovery *)

\* A target whose search raised is told, or its scout still has to return.
OutagesPend ==
    \A t \in outages :
        t \in told \/ (pc \in {"scout", "search"} /\ scout.failed /\ t = scout.target)

\* A candidate is left to fetch, has its document, is internal, or is told.
CandidatesSettle ==
    pc \in {"fetch", "request", "ended"} =>
        /\ fetch.left \subseteq found
        /\ \A l \in found : l \in fetch.left \cup retrieved \cup Internal \cup told

DiscoveryInv ==
    /\ TypeOK
    /\ OutagesPend
    /\ CandidatesSettle
    /\ pc = "request" => fetch.left # {} /\ fetch.left \subseteq Web
    /\ pc = "ended" => fetch.left = {}

LEMMA DiscoveryStart == Init => DiscoveryInv
<1> SUFFICES ASSUME Init
             PROVE  DiscoveryInv
  OBVIOUS
<1>1. 1 \in 1 .. MaxTargets /\ 1 \in 1 .. Angles + 1 /\ 1 \in 1 .. Attempts /\ 1 \in 1 .. MaxHops
  BY DiscoveryAssumption
<1>2. NewScout(1) \in [target : 1 .. MaxTargets, angle : 1 .. Angles + 1,
                       seen : SUBSET Locations, failed : BOOLEAN]
  BY <1>1 DEF NewScout
<1>3. NewFetch({}) \in [left : SUBSET Locations, attempt : 1 .. Attempts, hop : 1 .. MaxHops]
  BY <1>1 DEF NewFetch
<1>4. QED
  BY <1>1, <1>2, <1>3 DEF Init, DiscoveryInv, TypeOK, OutagesPend, CandidatesSettle

LEMMA CurrentFacts ==
    ASSUME pc = "request", DiscoveryInv
    PROVE  Current \in fetch.left /\ Current \in Web /\ Current \in Locations
  BY DEF Current, DiscoveryInv, Locations

LEMMA NewFetchTyped ==
    ASSUME NEW left \in SUBSET Locations
    PROVE  /\ NewFetch(left) \in [left : SUBSET Locations, attempt : 1 .. Attempts,
                                  hop : 1 .. MaxHops]
           /\ NewFetch(left).left = left
  BY DiscoveryAssumption DEF NewFetch

\* The scout of a target hands over what it found, and its target where it failed.
LEMMA NextTargetStep ==
    ASSUME DiscoveryInv, pc = "search",
           NEW all \in SUBSET Locations, NEW failedBranch \in BOOLEAN,
           NextTarget(all, failedBranch),
           NEW what \in SUBSET {scout.target}, Told(what),
           scout.failed => what = {scout.target}
    PROVE  DiscoveryInv'
<1>1. /\ branches' = (branches \/ failedBranch)
      /\ found' = all
      /\ told' = told \cup what
      /\ UNCHANGED <<conf, targets, retrieved, outages>>
  BY DEF NextTarget, Told
<1>2. /\ scout.target \in 1 .. MaxTargets /\ targets \in 1 .. MaxTargets
      /\ MaxTargets \in Nat /\ Angles \in Nat
  BY DiscoveryAssumption DEF DiscoveryInv, TypeOK
<1>3. told' \subseteq (1 .. MaxTargets) \cup Locations
  BY <1>1, <1>2 DEF DiscoveryInv, TypeOK
<1>4. \A t \in outages' : t \in told'
  BY <1>1 DEF DiscoveryInv, OutagesPend
<1>5. branches' \in BOOLEAN
  BY <1>1
<1>6. CASE scout.target < targets
  <2>1. scout' = NewScout(scout.target + 1) /\ pc' = "scout" /\ UNCHANGED fetch
    BY <1>6 DEF NextTarget
  <2>2. scout' \in [target : 1 .. MaxTargets, angle : 1 .. Angles + 1,
                    seen : SUBSET Locations, failed : BOOLEAN]
    BY <1>2, <1>6, <2>1 DEF NewScout
  <2>3. QED
    BY <1>1, <1>3, <1>4, <1>5, <2>1, <2>2
    DEF DiscoveryInv, TypeOK, OutagesPend, CandidatesSettle
<1>7. CASE ~(scout.target < targets)
  <2>1. UNCHANGED scout /\ pc' \in {"failed", "fetch"} /\ fetch' = NewFetch(all)
    BY <1>7 DEF NextTarget
  <2>2. QED
    BY <1>1, <1>3, <1>4, <1>5, <2>1, NewFetchTyped
    DEF DiscoveryInv, TypeOK, OutagesPend, CandidatesSettle
<1>8. QED
  BY <1>6, <1>7

\* A candidate is done with: it has its document, is internal, or is told.
LEMMA LeaveStep ==
    ASSUME DiscoveryInv, pc \in {"fetch", "request"}, NEW l \in Locations, Leave(l),
           retrieved' \in SUBSET Locations, retrieved \subseteq retrieved',
           told' \in SUBSET ((1 .. MaxTargets) \cup Locations), told \subseteq told',
           l \in retrieved' \cup Internal \cup told'
    PROVE  DiscoveryInv'
<1>1. /\ fetch' = NewFetch(fetch.left \ {l}) /\ pc' = "fetch"
      /\ UNCHANGED <<conf, targets, scout, found, branches, outages>>
  BY DEF Leave
<1>2. fetch.left \in SUBSET Locations
  BY DEF DiscoveryInv, TypeOK
<1>3. TypeOK'
  BY <1>1, <1>2, NewFetchTyped DEF DiscoveryInv, TypeOK
<1>4. OutagesPend'
  BY <1>1 DEF DiscoveryInv, OutagesPend
<1>5. CandidatesSettle'
  BY <1>1, <1>2, NewFetchTyped DEF DiscoveryInv, CandidatesSettle
<1>6. QED
  BY <1>1, <1>3, <1>4, <1>5 DEF DiscoveryInv

LEMMA SettleStep ==
    ASSUME DiscoveryInv, pc = "request",
           Keep(Current) \/ Lose(Current)
    PROVE  DiscoveryInv'
<1>1. Current \in fetch.left /\ Current \in Locations
  BY CurrentFacts
<1>2. told \in SUBSET ((1 .. MaxTargets) \cup Locations) /\ retrieved \in SUBSET Locations
  BY DEF DiscoveryInv, TypeOK
<1>3. CASE Keep(Current)
  BY <1>1, <1>2, <1>3, LeaveStep DEF Keep
<1>4. CASE Lose(Current)
  BY <1>1, <1>2, <1>4, LeaveStep DEF Lose, Told
<1>5. QED
  BY <1>3, <1>4

LEMMA DiscoveryStep == DiscoveryInv /\ [Next]_discoveryVars => DiscoveryInv'
<1> SUFFICES ASSUME DiscoveryInv, [Next]_discoveryVars
             PROVE  DiscoveryInv'
  OBVIOUS
<1>0. CASE UNCHANGED discoveryVars
  BY <1>0 DEF DiscoveryInv, TypeOK, OutagesPend, CandidatesSettle, discoveryVars
<1>1. CASE Plan
  BY <1>1 DEF Plan, DiscoveryInv, TypeOK, OutagesPend, CandidatesSettle
<1>2. CASE LookUp
  <2>1. PICK known \in SUBSET (Internal \cup Stored) : scout' = [scout EXCEPT !.seen = known]
    BY <1>2 DEF LookUp
  <2>2. /\ pc = "scout" /\ pc' = "search"
        /\ UNCHANGED <<conf, targets, found, branches, told, fetch, retrieved, outages>>
    BY <1>2 DEF LookUp
  <2>3. /\ scout' \in [target : 1 .. MaxTargets, angle : 1 .. Angles + 1,
                       seen : SUBSET Locations, failed : BOOLEAN]
        /\ scout'.failed = scout.failed /\ scout'.target = scout.target
    BY <2>1 DEF DiscoveryInv, TypeOK, Locations
  <2>4. QED
    BY <2>2, <2>3 DEF DiscoveryInv, TypeOK, OutagesPend, CandidatesSettle
<1>3. CASE Query
  <2>1. /\ pc = "search" /\ scout.angle <= Angles
        /\ UNCHANGED <<conf, targets, pc, found, branches, told, fetch, retrieved>>
    BY <1>3 DEF Query
  <2>p. PICK result \in Outcomes :
          \E hits \in (IF result = "some" THEN SUBSET (Stored \cup Web) ELSE {{}}) :
            /\ scout' = [scout EXCEPT !.angle = @ + 1,
                                      !.seen = @ \cup (hits \ Blocked),
                                      !.failed = @ \/ result = "failed"]
            /\ outages' = IF result = "failed" THEN outages \cup {scout.target} ELSE outages
    BY <1>3 DEF Query
  <2>2. PICK hits \in (IF result = "some" THEN SUBSET (Stored \cup Web) ELSE {{}}) :
          /\ scout' = [scout EXCEPT !.angle = @ + 1,
                                    !.seen = @ \cup (hits \ Blocked),
                                    !.failed = @ \/ result = "failed"]
          /\ outages' = IF result = "failed" THEN outages \cup {scout.target} ELSE outages
    BY <2>p
  <2>3. hits \in SUBSET Locations
    BY <2>2 DEF Locations
  <2>4. /\ scout.angle \in 1 .. Angles + 1 /\ Angles \in Nat
        /\ scout \in [target : 1 .. MaxTargets, angle : 1 .. Angles + 1,
                      seen : SUBSET Locations, failed : BOOLEAN]
    BY DiscoveryAssumption DEF DiscoveryInv, TypeOK
  <2>5. scout.angle + 1 \in 1 .. Angles + 1
    BY <2>1, <2>4
  <2>6. /\ scout' \in [target : 1 .. MaxTargets, angle : 1 .. Angles + 1,
                       seen : SUBSET Locations, failed : BOOLEAN]
        /\ scout'.target = scout.target
        /\ scout'.failed = (scout.failed \/ result = "failed")
    BY <2>2, <2>3, <2>4, <2>5
  <2>7. outages' \subseteq 1 .. MaxTargets
    BY <2>2, <2>4 DEF DiscoveryInv, TypeOK
  <2>8. OutagesPend'
    <3>1. ASSUME NEW t \in outages'
          PROVE  t \in told' \/ (pc' \in {"scout", "search"} /\ scout'.failed
                                 /\ t = scout'.target)
      <4>1. CASE t \in outages
        BY <2>1, <2>6, <4>1 DEF DiscoveryInv, OutagesPend
      <4>2. CASE t \notin outages
        BY <2>1, <2>2, <2>6, <3>1, <4>2
      <4>3. QED
        BY <4>1, <4>2
    <3>2. QED
      BY <3>1 DEF OutagesPend
  <2>9. QED
    BY <2>1, <2>6, <2>7, <2>8 DEF DiscoveryInv, TypeOK, CandidatesSettle
<1>4. CASE ScoutReturns
  <2>1. /\ pc = "search" /\ Told(IF scout.failed THEN {scout.target} ELSE {})
    BY <1>4 DEF ScoutReturns
  <2>2. PICK best \in BestOf(scout.seen) : NextTarget(found \cup best, scout.failed)
    BY <1>4 DEF ScoutReturns
  <2>3. found \cup best \in SUBSET Locations /\ scout.failed \in BOOLEAN
    BY <2>2 DEF BestOf, DiscoveryInv, TypeOK
  <2>4. QED
    BY <2>1, <2>2, <2>3, NextTargetStep
<1>5. CASE ScoutRaises
  BY <1>5, NextTargetStep DEF ScoutRaises, DiscoveryInv, TypeOK
<1>6. ASSUME NEW l \in Locations, Bypass(l)
      PROVE  DiscoveryInv'
  <2>1. told \in SUBSET ((1 .. MaxTargets) \cup Locations) /\ retrieved \in SUBSET Locations
    BY DEF DiscoveryInv, TypeOK
  <2>2. /\ pc = "fetch" /\ l \notin Web /\ UNCHANGED told /\ Leave(l)
        /\ retrieved' = IF l \in Stored THEN retrieved \cup {l} ELSE retrieved
    BY <1>6 DEF Bypass
  <2>3. l \in retrieved' \cup Internal
    BY <2>2 DEF Locations
  <2>4. QED
    BY <2>1, <2>2, <2>3, LeaveStep
<1>7. CASE Request
  BY <1>7 DEF Request, DiscoveryInv, TypeOK, OutagesPend, CandidatesSettle
<1>8. CASE Page
  BY <1>8, SettleStep DEF Page
<1>9. CASE Denied
  BY <1>9, SettleStep DEF Denied
<1>10. CASE Rejected
  BY <1>10, SettleStep DEF Rejected
<1>11. ASSUME pc = "request", NEW f \in [left : SUBSET Locations, attempt : 1 .. Attempts,
                                        hop : 1 .. MaxHops],
              f.left = fetch.left, fetch' = f,
              UNCHANGED <<conf, targets, pc, scout, found, branches, told, retrieved, outages>>
       PROVE  DiscoveryInv'
  BY <1>11 DEF DiscoveryInv, TypeOK, OutagesPend, CandidatesSettle
<1>12. CASE Redirect
  <2>1. CASE fetch.hop < MaxHops
    <3>1. /\ fetch' = [fetch EXCEPT !.hop = @ + 1] /\ pc = "request"
          /\ UNCHANGED <<conf, targets, pc, scout, found, branches, told, retrieved, outages>>
      BY <1>12, <2>1 DEF Redirect
    <3>2. [fetch EXCEPT !.hop = @ + 1] \in [left : SUBSET Locations, attempt : 1 .. Attempts,
                                            hop : 1 .. MaxHops]
      BY <2>1, DiscoveryAssumption DEF DiscoveryInv, TypeOK
    <3>3. QED
      BY <1>11, <3>1, <3>2 DEF DiscoveryInv, TypeOK
  <2>2. CASE ~(fetch.hop < MaxHops)
    BY <1>12, <2>2, SettleStep DEF Redirect
  <2>3. QED
    BY <2>1, <2>2
<1>13. CASE Broken
  <2>1. CASE fetch.attempt < Attempts
    <3>1. /\ fetch' = [fetch EXCEPT !.attempt = @ + 1, !.hop = 1] /\ pc = "request"
          /\ UNCHANGED <<conf, targets, pc, scout, found, branches, told, retrieved, outages>>
      BY <1>13, <2>1 DEF Broken
    <3>2. [fetch EXCEPT !.attempt = @ + 1, !.hop = 1]
             \in [left : SUBSET Locations, attempt : 1 .. Attempts, hop : 1 .. MaxHops]
      <4>1. fetch.attempt + 1 \in 1 .. Attempts /\ 1 \in 1 .. MaxHops
        BY <2>1, DiscoveryAssumption DEF DiscoveryInv, TypeOK
      <4>2. fetch \in [left : SUBSET Locations, attempt : 1 .. Attempts, hop : 1 .. MaxHops]
        BY DEF DiscoveryInv, TypeOK
      <4>3. QED
        BY <4>1, <4>2
    <3>3. QED
      BY <1>11, <3>1, <3>2 DEF DiscoveryInv, TypeOK
  <2>2. CASE ~(fetch.attempt < Attempts)
    BY <1>13, <2>2, SettleStep DEF Broken
  <2>3. QED
    BY <2>1, <2>2
<1>14. CASE End
  BY <1>14 DEF End, DiscoveryInv, TypeOK, OutagesPend, CandidatesSettle
<1>15. QED
  BY <1>0, <1>1, <1>2, <1>3, <1>4, <1>5, <1>6, <1>7, <1>8, <1>9, <1>10, <1>12, <1>13, <1>14
  DEF Next, Step

\* Plans, scouts, fetches and what they told keep their types for any targets, locations,
\* redirects and retries (engine.py:378).
THEOREM DiscoveryTyped == Spec => []TypeOK
<1>1. DiscoveryInv => TypeOK
  BY DEF DiscoveryInv
<1>2. QED
  BY DiscoveryStart, DiscoveryStep, <1>1, PTL DEF Spec

\* Every failed search and every candidate without a document is among the degradations
\* when the retrieval is over, whatever failed and recovered on the way (engine.py:510,
\* engine.py:536, engine.py:574).
THEOREM FailuresTold == Spec => []FailuresAreTold
<1>1. DiscoveryInv => FailuresAreTold
  BY DEF DiscoveryInv, OutagesPend, CandidatesSettle, FailuresAreTold
<1>2. QED
  BY DiscoveryStart, DiscoveryStep, <1>1, PTL DEF Spec

-----------------------------------------------------------------------------
(* The gateway and the budget *)

Waiting == {"ask", "bypass", "unserved"}
Asking == Waiting \cup {"answered"}

\* The process may still be billed for the k-th question of the stage.
Owing(x, k) ==
    \/ x.pc \in Asking \cup {"stage"} /\ k > x.asked
    \/ x.pc \in Asking /\ k = x.asked

Here(p) == {e \in Executions : Home[e] = p}

Owes(p) == {q \in Here(p) \X (1 .. Calls) : Owing(exec[q[1]], q[2])}

\* A question has a number; each answer but the one at hand comes with another round.
Billed(x) ==
    /\ x.bill <= x.round
    /\ x.pc \in Waiting => x.bill < x.round
    /\ x.pc \in Asking => 1 <= x.asked

Typed ==
    /\ setup \in Gates!Setup
    /\ usage \in [Processes -> Nat]
    /\ cost \in Nat
    /\ exec \in [Executions -> Gates!Exec]

\* Canned text is nowhere on the way to a stage.
Uncanned(x) == ~setup.canned /\ setup.primary # "mock" => ~x.mock /\ ~x.fed

\* What is spent and what may still be billed, two answers a question, is below the ceiling
\* and one stage of every execution.
Affordable(p) ==
    usage[p] + 2 * Cardinality(Owes(p)) < Ceiling + Gates!Overshoot(Cardinality(Here(p)))

GatewayInv ==
    /\ Typed
    /\ \A e \in Executions : Billed(exec[e]) /\ Uncanned(exec[e])
    /\ \A p \in Processes : Affordable(p)

\* Questions of a process are finite in number, and Calls for each of its executions.
LEMMA QuestionsFinite ==
    ASSUME Gates!GatewayAssumption, NEW p, NEW S \in SUBSET (Here(p) \X (1 .. Calls))
    PROVE  /\ IsFiniteSet(S)
           /\ Cardinality(S) \in Nat
           /\ Cardinality(Here(p)) \in Nat
           /\ Cardinality(S) <= Cardinality(Here(p)) * Calls
<1>1. IsFiniteSet(Executions) /\ Calls \in Nat
  BY DEF Gates!GatewayAssumption, IsFiniteSet, Gates!IsFiniteSet
<1>2. IsFiniteSet(Here(p))
  BY <1>1, FS_Subset DEF Here
<1>3. IsFiniteSet(1 .. Calls) /\ Cardinality(1 .. Calls) = Calls
  BY <1>1, FS_Interval
<1>4. /\ IsFiniteSet(Here(p) \X (1 .. Calls))
      /\ Cardinality(Here(p) \X (1 .. Calls)) = Cardinality(Here(p)) * Calls
  BY <1>2, <1>3, FS_Product
<1>5. /\ IsFiniteSet(S)
      /\ Cardinality(S) <= Cardinality(Here(p) \X (1 .. Calls))
  BY <1>4, FS_Subset
<1>6. QED
  BY <1>2, <1>4, <1>5, FS_CardinalityType

LEMMA OwesFinite ==
    ASSUME Gates!GatewayAssumption, NEW p
    PROVE  /\ IsFiniteSet(Owes(p)) /\ Cardinality(Owes(p)) \in Nat
           /\ Cardinality(Here(p)) \in Nat
<1>1. Owes(p) \in SUBSET (Here(p) \X (1 .. Calls))
  BY DEF Owes
<1>2. QED
  BY <1>1, QuestionsFinite

\* Before the ceiling is reached, every execution has a stage to spend.
LEMMA BelowCeiling ==
    ASSUME Gates!GatewayAssumption, NEW p, NEW S \in SUBSET (Here(p) \X (1 .. Calls)),
           NEW spent \in Nat, spent < Ceiling
    PROVE  spent + 2 * Cardinality(S) < Ceiling + Gates!Overshoot(Cardinality(Here(p)))
<1> DEFINE c == Cardinality(S)
           n == Cardinality(Here(p))
<1>1. c \in Nat /\ n \in Nat /\ c <= n * Calls /\ Calls \in Nat /\ Ceiling \in Nat
  BY QuestionsFinite DEF Gates!GatewayAssumption
<1> HIDE DEF c, n
<1>2. n * Calls \in Nat /\ 2 * Calls * n = 2 * (n * Calls)
  BY <1>1
<1>3. spent + 2 * c < Ceiling + 2 * Calls * n
  <2> DEFINE m == n * Calls
  <2>1. m \in Nat /\ 2 * Calls * n = 2 * m /\ c <= m
    BY <1>1, <1>2
  <2> HIDE DEF m
  <2>2. spent + 2 * c < Ceiling + 2 * m
    BY <1>1, <2>1
  <2>3. QED
    BY <2>1, <2>2
<1>4. QED
  BY <1>3 DEF c, n, Gates!Overshoot

\* No debt is new: the process can still afford it.
LEMMA DebtShrinks ==
    ASSUME Gates!GatewayAssumption, NEW p, Affordable(p), usage[p] \in Nat, usage'[p] = usage[p],
           \A e \in Executions : \A k \in 1 .. Calls : Owing(exec'[e], k) => Owing(exec[e], k)
    PROVE  Affordable(p)'
<1> DEFINE c == Cardinality(Owes(p))
           d == Cardinality(Owes(p)')
           r == Ceiling + Gates!Overshoot(Cardinality(Here(p)))
<1>1. Owes(p)' \subseteq Owes(p)
  BY DEF Owes, Here
<1>2. IsFiniteSet(Owes(p)) /\ c \in Nat
  BY OwesFinite
<1>3. d <= c /\ d \in Nat
  BY <1>1, <1>2, FS_Subset, FS_CardinalityType
<1>4. r \in Int
  BY OwesFinite DEF Gates!GatewayAssumption, Gates!Overshoot
<1>5. usage[p] + 2 * c < r
  BY DEF Affordable
<1>6. Affordable(p)' <=> usage'[p] + 2 * d < r
  BY DEF Affordable, Gates!Overshoot, Here
<1> HIDE DEF c, d, r
<1>7. QED
  BY <1>2, <1>3, <1>4, <1>5, <1>6

LEMMA GatewayStart == Gates!GatewayAssumption /\ Gates!Init => GatewayInv
<1> SUFFICES ASSUME Gates!GatewayAssumption, Gates!Init
             PROVE  GatewayInv
  OBVIOUS
<1>1. Ceiling \in Nat \ {0} /\ Calls \in Nat /\ Tries \in Nat \ {0}
  BY DEF Gates!GatewayAssumption
<1>2. Gates!Fresh \in Gates!Exec /\ Billed(Gates!Fresh) /\ ~Gates!Fresh.mock /\ ~Gates!Fresh.fed
  BY <1>1 DEF Gates!Fresh, Gates!Exec, Billed, Waiting, Asking, Gates!Providers
<1>3. Typed
  BY <1>2 DEF Gates!Init, Typed
<1>4. \A e \in Executions : Billed(exec[e]) /\ Uncanned(exec[e])
  BY <1>2 DEF Gates!Init, Uncanned
<1>5. ASSUME NEW p \in Processes
      PROVE  Affordable(p)
  <2>1. usage[p] = 0 /\ 0 \in Nat /\ 0 < Ceiling /\ Owes(p) \in SUBSET (Here(p) \X (1 .. Calls))
    BY <1>1 DEF Gates!Init, Owes
  <2>2. QED
    BY <2>1, BelowCeiling DEF Affordable
<1>6. QED
  BY <1>3, <1>4, <1>5 DEF GatewayInv

\* An execution goes on, and owes nothing new.
LEMMA BecomeStep ==
    ASSUME Gates!GatewayAssumption, GatewayInv, NEW e \in Executions, NEW x \in Gates!Exec, Gates!Become(e, x),
           Billed(x), Uncanned(x), 
           \A k \in 1 .. Calls : Owing(x, k) => Owing(exec[e], k)
    PROVE  GatewayInv'
<1>1. exec' = [exec EXCEPT ![e] = x] /\ UNCHANGED <<setup, usage, cost>>
  BY DEF Gates!Become
<1>2. Typed /\ Typed'
  BY <1>1 DEF GatewayInv, Typed
<1>3. exec'[e] = x /\ \A d \in Executions : d # e => exec'[d] = exec[d]
  BY <1>1, <1>2 DEF Typed
<1>4. ASSUME NEW d \in Executions
      PROVE  /\ Billed(exec[d])' /\ Uncanned(exec[d])'
             /\ \A k \in 1 .. Calls : Owing(exec'[d], k) => Owing(exec[d], k)
  BY <1>1, <1>3 DEF GatewayInv, Billed, Uncanned
<1>5. ASSUME NEW p \in Processes
      PROVE  Affordable(p)'
  <2>1. usage[p] \in Nat /\ usage'[p] = usage[p] /\ Affordable(p)
    BY <1>1, <1>2 DEF Typed, GatewayInv
  <2>2. QED
    BY <1>4, <2>1, DebtShrinks
<1>6. QED
  BY <1>2, <1>4, <1>5 DEF GatewayInv

\* A question is put to a provider; the mock provider answers at once.
LEMMA ToFacts ==
    ASSUME Gates!GatewayAssumption, NEW x \in Gates!Exec, NEW q \in Gates!Providers,
           x.bill < x.round, 1 <= x.asked
    PROVE  /\ Gates!To(x, q) \in Gates!Exec /\ Billed(Gates!To(x, q))
           /\ Gates!To(x, q).pc \in Asking /\ Gates!To(x, q).asked = x.asked
           /\ Gates!To(x, q).mock = (q = "mock") /\ Gates!To(x, q).fed = x.fed
<1>1. Tries \in Nat \ {0} /\ Calls \in Nat
  BY DEF Gates!GatewayAssumption
<1>2. /\ x.bill \in Nat /\ x.bill + 1 \in Nat /\ 1 \in 1 .. Tries /\ x.round \in 1 .. 2
      /\ x.asked \in 0 .. Calls
  BY <1>1 DEF Gates!Exec
<1> DEFINE y == Gates!To(x, q)
<1>3. CASE q = "mock"
  <2>1. y = [x EXCEPT !.provider = q, !.try = 1, !.schema = TRUE, !.pc = "answered",
                      !.mock = TRUE, !.bill = x.bill + 1]
    BY <1>3 DEF Gates!To
  <2>2. /\ y.pc = "answered" /\ y.asked = x.asked /\ y.round = x.round
        /\ y.bill = x.bill + 1 /\ y.mock = TRUE /\ y.fed = x.fed
    BY <2>1 DEF Gates!Exec
  <2>3. y \in Gates!Exec
    BY <1>2, <2>1 DEF Gates!Exec
  <2>4. Billed(y) /\ y.pc \in Asking
    BY <1>2, <2>2 DEF Billed, Waiting, Asking
  <2>5. y.mock = (q = "mock")
    BY <1>3, <2>2
  <2>6. QED
    BY <2>2, <2>3, <2>4, <2>5
<1>4. CASE q # "mock"
  <2>1. y = [x EXCEPT !.provider = q, !.try = 1, !.schema = TRUE, !.pc = "ask",
                      !.mock = FALSE, !.bill = x.bill]
    BY <1>4 DEF Gates!To
  <2>2. /\ y.pc = "ask" /\ y.asked = x.asked /\ y.round = x.round
        /\ y.bill = x.bill /\ y.mock = FALSE /\ y.fed = x.fed
    BY <2>1 DEF Gates!Exec
  <2>3. y \in Gates!Exec
    BY <1>2, <2>1 DEF Gates!Exec
  <2>4. Billed(y) /\ y.pc \in Asking
    BY <1>2, <2>2 DEF Billed, Waiting, Asking
  <2>5. y.mock = (q = "mock")
    BY <1>4, <2>2
  <2>6. QED
    BY <2>2, <2>3, <2>4, <2>5
<1>5. QED
  BY <1>3, <1>4

\* The answer of a question is billed, and the question is no longer owed.
LEMMA DeliverStep ==
    ASSUME Gates!GatewayAssumption, GatewayInv, NEW e \in Executions, exec[e].pc = "answered",
           NEW mock \in BOOLEAN, mock => setup.canned \/ setup.primary = "mock",
           Gates!Deliver(e, mock)
    PROVE  GatewayInv'
<1>1. /\ exec' = [exec EXCEPT ![e].pc = "stage", ![e].fed = @ \/ mock]
      /\ usage' = [usage EXCEPT ![Home[e]] = @ + exec[e].bill]
      /\ UNCHANGED <<setup, cost>>
  BY DEF Gates!Deliver
<1>2. Typed /\ Home[e] \in Processes /\ Calls \in Nat
  BY DEF GatewayInv, Gates!GatewayAssumption
<1>3. /\ exec[e] \in Gates!Exec /\ exec[e].bill \in Nat /\ exec[e].bill <= 2
      /\ exec[e].asked \in 1 .. Calls /\ exec[e].fed \in BOOLEAN
  BY <1>2 DEF GatewayInv, Typed, Billed, Asking, Waiting, Gates!Exec
<1> DEFINE x == exec[e]
           y == [x EXCEPT !.pc = "stage", !.fed = @ \/ mock]
<1>4. /\ y \in Gates!Exec /\ y.pc = "stage" /\ y.asked = x.asked /\ y.bill = x.bill
      /\ y.round = x.round /\ y.mock = x.mock /\ y.fed = (x.fed \/ mock)
  BY <1>3 DEF Gates!Exec
<1>5. exec'[e] = y /\ \A d \in Executions : d # e => exec'[d] = exec[d]
  BY <1>1, <1>2 DEF Typed
<1>6. Typed'
  <2>1. exec' \in [Executions -> Gates!Exec]
    BY <1>1, <1>2, <1>4, <1>5 DEF Typed
  <2>2. usage' \in [Processes -> Nat]
    BY <1>1, <1>2, <1>3 DEF Typed
  <2>3. QED
    BY <1>1, <1>2, <2>1, <2>2 DEF Typed
<1> HIDE DEF y
<1>7. ASSUME NEW d \in Executions
      PROVE  Billed(exec[d])' /\ Uncanned(exec[d])'
  <2>1. Billed(exec[d]) /\ Uncanned(exec[d])
    BY DEF GatewayInv
  <2>2. CASE d # e
    BY <1>1, <1>5, <2>1, <2>2 DEF Billed, Uncanned
  <2>3. CASE d = e
    BY <1>1, <1>4, <1>5, <2>1, <2>3 DEF Billed, Uncanned, Asking, Waiting
  <2>4. QED
    BY <2>2, <2>3
<1>8. \A d \in Executions : \A k \in 1 .. Calls : Owing(exec'[d], k) => Owing(exec[d], k)
  BY <1>3, <1>4, <1>5 DEF Owing, Asking, Waiting
<1>9. ASSUME NEW p \in Processes
      PROVE  Affordable(p)'
  <2>1. usage[p] \in Nat /\ Affordable(p)
    BY <1>2 DEF Typed, GatewayInv
  <2>2. CASE p # Home[e]
    <3>1. usage'[p] = usage[p]
      BY <1>1, <1>2, <2>2 DEF Typed
    <3>2. QED
      BY <1>8, <2>1, <3>1, DebtShrinks
  <2>3. CASE p = Home[e]
    <3> DEFINE c == Cardinality(Owes(p))
               d == Cardinality(Owes(p)')
               r == Ceiling + Gates!Overshoot(Cardinality(Here(p)))
               q == <<e, x.asked>>
    <3>1. usage'[p] = usage[p] + x.bill
      BY <1>1, <1>2, <2>3 DEF Typed
    <3>2. q \in Owes(p)
      BY <1>3, <2>3 DEF Owes, Here, Owing, Asking
    <3>3. q \notin Owes(p)'
      BY <1>3, <1>4, <1>5 DEF Owes, Owing, Asking, Waiting
    <3>4. Owes(p)' \subseteq Owes(p) \ {q}
      BY <1>8, <3>3 DEF Owes, Here
    <3>5. IsFiniteSet(Owes(p)) /\ c \in Nat
      BY OwesFinite
    <3>6. IsFiniteSet(Owes(p) \ {q}) /\ Cardinality(Owes(p) \ {q}) = c - 1
      BY <3>2, <3>5, FS_RemoveElement
    <3>7. d <= c - 1 /\ d \in Nat
      BY <3>4, <3>6, FS_Subset, FS_CardinalityType
    <3>8. r \in Int
      BY OwesFinite DEF Gates!GatewayAssumption, Gates!Overshoot
    <3>9. usage[p] + 2 * c < r
      BY <2>1 DEF Affordable
    <3>10. Affordable(p)' <=> usage'[p] + 2 * d < r
      BY DEF Affordable, Gates!Overshoot, Here
    <3> HIDE DEF c, d, r
    <3>11. QED
      BY <1>3, <2>1, <3>1, <3>5, <3>7, <3>8, <3>9, <3>10
  <2>4. QED
    BY <2>2, <2>3
<1>10. QED
  BY <1>6, <1>7, <1>9 DEF GatewayInv

\* An execution leaves its question, or its stage: it owes nothing new.
LEMMA EndsStep ==
    ASSUME Gates!GatewayAssumption, GatewayInv, NEW e \in Executions,
           NEW pc2 \in {"idle", "gate", "unserved", "error", "failed"},
           pc2 = "unserved" => exec[e].pc \in Waiting,
           Gates!Become(e, [exec[e] EXCEPT !.pc = pc2])
    PROVE  GatewayInv'
<1> DEFINE x == [exec[e] EXCEPT !.pc = pc2]
<1>1. exec[e] \in Gates!Exec /\ Billed(exec[e]) /\ Uncanned(exec[e])
  BY DEF GatewayInv, Typed
<1>2. /\ x \in Gates!Exec /\ x.pc = pc2 /\ x.asked = exec[e].asked /\ x.bill = exec[e].bill
      /\ x.round = exec[e].round /\ x.mock = exec[e].mock /\ x.fed = exec[e].fed
  BY <1>1 DEF Gates!Exec
<1>3. Gates!Become(e, x)
  OBVIOUS
<1> HIDE DEF x
<1>4. Billed(x) /\ Uncanned(x)
  BY <1>1, <1>2 DEF Billed, Uncanned, Waiting, Asking
<1>5. \A k \in 1 .. Calls : Owing(x, k) => Owing(exec[e], k)
  BY <1>2 DEF Owing, Waiting, Asking
<1>6. QED
  BY <1>2, <1>3, <1>4, <1>5, BecomeStep

\* Between stages nothing is owed; below the ceiling there is room for another stage.
LEMMA GateStep ==
    ASSUME Gates!GatewayAssumption, GatewayInv, NEW e \in Executions, Gates!Gate(e)
    PROVE  GatewayInv'
<1> DEFINE x == [exec[e] EXCEPT !.pc = IF Gates!Spent(e) >= Ceiling THEN "failed" ELSE "stage",
                                !.asked = 0]
<1>1. /\ exec[e].pc = "gate" /\ exec' = [exec EXCEPT ![e] = x]
      /\ UNCHANGED <<setup, usage, cost>>
  BY DEF Gates!Gate, Gates!Become
<1>2. /\ Typed /\ Calls \in Nat /\ Ceiling \in Nat /\ Home[e] \in Processes
      /\ exec[e] \in Gates!Exec /\ Billed(exec[e]) /\ Uncanned(exec[e])
  BY DEF GatewayInv, Typed, Gates!GatewayAssumption
<1>3. /\ x.pc = (IF Gates!Spent(e) >= Ceiling THEN "failed" ELSE "stage") /\ x.asked = 0
      /\ x.bill = exec[e].bill
      /\ x.round = exec[e].round /\ x.mock = exec[e].mock /\ x.fed = exec[e].fed
  BY <1>2 DEF Gates!Exec
<1>4. x \in Gates!Exec
  <2>1. 0 \in 0 .. Calls
    BY <1>2
  <2>2. QED
    BY <1>2, <2>1 DEF Gates!Exec
<1> HIDE DEF x
<1>5. exec'[e] = x /\ \A d \in Executions : d # e => exec'[d] = exec[d]
  BY <1>1, <1>2 DEF Typed
<1>6. Typed'
  BY <1>1, <1>2, <1>4 DEF Typed
<1>7. ASSUME NEW d \in Executions
      PROVE  Billed(exec[d])' /\ Uncanned(exec[d])'
  <2>1. CASE d = e
    BY <1>1, <1>2, <1>3, <1>5, <2>1 DEF Billed, Uncanned, Waiting, Asking
  <2>2. CASE d # e
    BY <1>1, <1>5, <2>2 DEF GatewayInv, Billed, Uncanned
  <2>3. QED
    BY <2>1, <2>2
<1>8. ASSUME NEW p \in Processes
      PROVE  Affordable(p)'
  <2>1. usage[p] \in Nat /\ usage'[p] = usage[p] /\ Affordable(p)
    BY <1>1, <1>2 DEF Typed, GatewayInv
  <2>2. CASE p = Home[e] /\ x.pc = "stage"
    <3>1. cost \in Nat /\ usage[p] \in Nat
      BY <1>2, <2>1 DEF Typed
    <3>2. usage[p] < Ceiling
      BY <1>2, <1>3, <2>2, <3>1 DEF Gates!Spent
    <3>3. Owes(p)' \in SUBSET (Here(p) \X (1 .. Calls))
      BY DEF Owes, Here
    <3>4. usage[p] + 2 * Cardinality(Owes(p)') < Ceiling + Gates!Overshoot(Cardinality(Here(p)))
      BY <2>1, <3>2, <3>3, BelowCeiling
    <3>5. QED
      BY <2>1, <3>4 DEF Affordable, Gates!Overshoot, Here
  <2>3. CASE x.pc # "stage"
    <3>1. \A d \in Executions : \A k \in 1 .. Calls : Owing(exec'[d], k) => Owing(exec[d], k)
      BY <1>3, <1>5, <2>3 DEF Owing, Waiting, Asking
    <3>2. QED
      BY <2>1, <3>1, DebtShrinks
  <2>4. CASE p # Home[e]
    <3>1. Owes(p)' = Owes(p)
      BY <1>5, <2>4 DEF Owes, Here
    <3>2. QED
      BY <2>1, <3>1 DEF Affordable, Gates!Overshoot, Here
  <2>5. QED
    BY <2>2, <2>3, <2>4
<1>9. QED
  BY <1>6, <1>7, <1>8 DEF GatewayInv

\* A process that restarts has spent nothing.
LEMMA RestartStep ==
    ASSUME Gates!GatewayAssumption, GatewayInv, NEW q \in Processes, Gates!Restart(q)
    PROVE  GatewayInv'
<1> DEFINE Struck(d) == Home[d] = q /\ exec[d].pc \notin {"idle", "done", "failed"}
<1>1. /\ usage' = [usage EXCEPT ![q] = 0]
      /\ exec' = [d \in Executions |->
                    IF Struck(d) THEN [exec[d] EXCEPT !.pc = "gone"] ELSE exec[d]]
      /\ UNCHANGED <<setup, cost>>
  BY DEF Gates!Restart
<1>2. Typed /\ Ceiling \in Nat \ {0}
  BY DEF GatewayInv, Gates!GatewayAssumption
<1>3. ASSUME NEW d \in Executions
      PROVE  /\ exec'[d] \in Gates!Exec /\ Billed(exec[d])' /\ Uncanned(exec[d])'
             /\ \A k \in 1 .. Calls : Owing(exec'[d], k) => Owing(exec[d], k)
  <2>1. exec[d] \in Gates!Exec /\ Billed(exec[d]) /\ Uncanned(exec[d])
    BY <1>2 DEF GatewayInv, Typed
  <2>2. CASE Struck(d)
    <3>1. exec'[d] = [exec[d] EXCEPT !.pc = "gone"]
      BY <1>1, <2>2
    <3>2. /\ exec'[d] \in Gates!Exec /\ exec'[d].pc = "gone"
          /\ exec'[d].bill = exec[d].bill /\ exec'[d].round = exec[d].round
          /\ exec'[d].mock = exec[d].mock /\ exec'[d].fed = exec[d].fed
      BY <2>1, <3>1 DEF Gates!Exec
    <3>3. QED
      BY <1>1, <2>1, <3>2 DEF Billed, Uncanned, Owing, Waiting, Asking
  <2>3. CASE ~Struck(d)
    <3>1. exec'[d] = exec[d]
      BY <1>1, <2>3
    <3>2. QED
      BY <1>1, <2>1, <3>1 DEF Billed, Uncanned
  <2>4. QED
    BY <2>2, <2>3
<1> HIDE DEF Struck
<1>4. Typed'
  <2>1. exec' \in [Executions -> Gates!Exec]
    BY <1>1, <1>3
  <2>2. usage' \in [Processes -> Nat]
    BY <1>1, <1>2 DEF Typed
  <2>3. QED
    BY <1>1, <1>2, <2>1, <2>2 DEF Typed
<1>5. ASSUME NEW p \in Processes
      PROVE  Affordable(p)'
  <2>1. CASE p = q
    <3>1. Owes(p)' \in SUBSET (Here(p) \X (1 .. Calls)) /\ usage'[p] = 0
      BY <1>1, <1>2, <2>1 DEF Owes, Here, Typed
    <3>2. 0 + 2 * Cardinality(Owes(p)') < Ceiling + Gates!Overshoot(Cardinality(Here(p)))
      BY <1>2, <3>1, BelowCeiling
    <3>3. QED
      BY <3>1, <3>2 DEF Affordable, Gates!Overshoot, Here
  <2>2. CASE p # q
    <3>1. usage[p] \in Nat /\ usage'[p] = usage[p] /\ Affordable(p)
      BY <1>1, <1>2, <2>2 DEF Typed, GatewayInv
    <3>2. QED
      BY <1>3, <3>1, DebtShrinks
  <2>3. QED
    BY <2>1, <2>2
<1>6. QED
  BY <1>3, <1>4, <1>5 DEF GatewayInv

\* The row gets the usage of the process.
LEMMA CompleteStep ==
    ASSUME Gates!GatewayAssumption, GatewayInv, NEW e \in Executions, Gates!Complete(e)
    PROVE  GatewayInv'
<1>1. /\ exec[e].pc = "stage" /\ exec' = [exec EXCEPT ![e].pc = "done"]
      /\ cost' = usage[Home[e]] /\ UNCHANGED <<setup, usage>>
  BY DEF Gates!Complete
<1>2. Typed /\ Home[e] \in Processes
  BY DEF GatewayInv, Gates!GatewayAssumption
<1>3. /\ exec[e] \in Gates!Exec /\ exec'[e] = [exec[e] EXCEPT !.pc = "done"]
      /\ \A d \in Executions : d # e => exec'[d] = exec[d]
  BY <1>1, <1>2 DEF Typed
<1>4. /\ exec'[e] \in Gates!Exec /\ exec'[e].pc = "done"
      /\ exec'[e].bill = exec[e].bill /\ exec'[e].round = exec[e].round
      /\ exec'[e].mock = exec[e].mock /\ exec'[e].fed = exec[e].fed
  BY <1>3 DEF Gates!Exec
<1>5. Typed'
  <2>1. cost' \in Nat
    BY <1>1, <1>2 DEF Typed
  <2>2. exec' \in [Executions -> Gates!Exec]
    BY <1>1, <1>2, <1>3, <1>4 DEF Typed
  <2>3. QED
    BY <1>1, <1>2, <2>1, <2>2 DEF Typed
<1>6. ASSUME NEW d \in Executions
      PROVE  /\ Billed(exec[d])' /\ Uncanned(exec[d])'
             /\ \A k \in 1 .. Calls : Owing(exec'[d], k) => Owing(exec[d], k)
  <2>1. Billed(exec[d]) /\ Uncanned(exec[d])
    BY DEF GatewayInv
  <2>2. CASE d = e
    BY <1>1, <1>4, <2>1, <2>2 DEF Billed, Uncanned, Owing, Waiting, Asking
  <2>3. CASE d # e
    BY <1>1, <1>3, <2>1, <2>3 DEF Billed, Uncanned
  <2>4. QED
    BY <2>2, <2>3
<1>7. ASSUME NEW p \in Processes
      PROVE  Affordable(p)'
  <2>1. usage[p] \in Nat /\ usage'[p] = usage[p] /\ Affordable(p)
    BY <1>1, <1>2 DEF Typed, GatewayInv
  <2>2. QED
    BY <1>6, <2>1, DebtShrinks
<1>8. QED
  BY <1>5, <1>6, <1>7 DEF GatewayInv

\* A question goes on with the same number.
LEMMA AskingStep ==
    ASSUME Gates!GatewayAssumption, GatewayInv, NEW e \in Executions, NEW x \in Gates!Exec, Gates!Become(e, x),
           Billed(x), Uncanned(x), exec[e].pc \in Asking, x.pc \in Asking,
           x.asked = exec[e].asked
    PROVE  GatewayInv'
<1>1. \A k \in 1 .. Calls : Owing(x, k) => Owing(exec[e], k)
  BY DEF Owing
<1>2. QED
  BY <1>1, BecomeStep

\* It is put to a provider, which is the mock one where canned text is allowed.
LEMMA PutStep ==
    ASSUME Gates!GatewayAssumption, GatewayInv, NEW e \in Executions, NEW x \in Gates!Exec,
           NEW q \in Gates!Providers, Gates!Become(e, Gates!To(x, q)),
           q = "mock" => setup.canned \/ setup.primary = "mock",
           x.bill < x.round, 1 <= x.asked, x.fed = exec[e].fed,
           \/ exec[e].pc \in Asking /\ x.asked = exec[e].asked
           \/ exec[e].pc = "stage" /\ x.asked = exec[e].asked + 1
    PROVE  GatewayInv'
<1> DEFINE y == Gates!To(x, q)
<1>1. /\ y \in Gates!Exec /\ Billed(y) /\ y.pc \in Asking /\ y.asked = x.asked
      /\ y.mock = (q = "mock") /\ y.fed = x.fed
  BY ToFacts
<1>2. Uncanned(exec[e]) /\ exec[e] \in Gates!Exec
  BY DEF GatewayInv, Typed
<1>3. Gates!Become(e, y)
  OBVIOUS
<1> HIDE DEF y
<1>4. Uncanned(y)
  BY <1>1, <1>2 DEF Uncanned
<1>5. \A k \in 1 .. Calls : Owing(y, k) => Owing(exec[e], k)
  <2>1. exec[e].asked \in Int /\ Calls \in Nat
    BY <1>2 DEF Gates!Exec, Gates!GatewayAssumption
  <2>2. QED
    BY <1>1, <2>1 DEF Owing, Asking, Waiting
<1>6. QED
  BY <1>1, <1>3, <1>4, <1>5, BecomeStep

LEMMA QuestionStep ==
    ASSUME Gates!GatewayAssumption, GatewayInv, NEW e \in Executions, Gates!Question(e)
    PROVE  GatewayInv'
<1>1. /\ exec[e] \in Gates!Exec /\ Billed(exec[e]) /\ Uncanned(exec[e])
      /\ setup \in Gates!Setup /\ Tries \in Nat
  BY DEF GatewayInv, Typed, Gates!GatewayAssumption
<1>2. CASE Gates!Answer(e)
  <2> DEFINE x == [exec[e] EXCEPT !.pc = "answered", !.bill = @ + 1]
  <2>1. exec[e].pc \in Waiting /\ Gates!Become(e, x)
    BY <1>2 DEF Gates!Answer, Waiting
  <2>2. exec[e].bill + 1 \in Nat /\ exec[e].bill < exec[e].round /\ exec[e].round \in 1 .. 2
    BY <1>1, <2>1 DEF Billed, Gates!Exec
  <2>3. /\ x \in Gates!Exec /\ x.pc = "answered" /\ x.bill = exec[e].bill + 1
        /\ x.round = exec[e].round /\ x.asked = exec[e].asked
        /\ x.mock = exec[e].mock /\ x.fed = exec[e].fed
    BY <1>1, <2>2 DEF Gates!Exec
  <2> HIDE DEF x
  <2>4. exec[e].bill \in Nat
    BY <1>1 DEF Gates!Exec
  <2>5. Billed(x)
    BY <1>1, <2>1, <2>2, <2>3, <2>4 DEF Billed, Waiting, Asking
  <2>6. Uncanned(x)
    BY <1>1, <2>3 DEF Uncanned
  <2>7. QED
    BY <2>1, <2>3, <2>5, <2>6, AskingStep DEF Asking, Waiting
<1>3. CASE Gates!Template(e)
  <2> DEFINE x == [exec[e] EXCEPT !.pc = "bypass"]
  <2>1. exec[e].pc = "ask" /\ Gates!Become(e, x)
    BY <1>3 DEF Gates!Template
  <2>2. /\ x \in Gates!Exec /\ x.pc = "bypass" /\ x.bill = exec[e].bill
        /\ x.round = exec[e].round /\ x.asked = exec[e].asked
        /\ x.mock = exec[e].mock /\ x.fed = exec[e].fed
    BY <1>1 DEF Gates!Exec
  <2> HIDE DEF x
  <2>3. Billed(x) /\ Uncanned(x)
    BY <1>1, <2>1, <2>2 DEF Billed, Uncanned, Waiting, Asking
  <2>4. QED
    BY <2>1, <2>2, <2>3, AskingStep DEF Asking, Waiting
<1>4. ASSUME exec[e].pc = "ask", exec[e].try < Tries,
             NEW schema \in BOOLEAN,
             Gates!Become(e, [exec[e] EXCEPT !.try = @ + 1, !.schema = schema])
      PROVE  GatewayInv'
  <2> DEFINE x == [exec[e] EXCEPT !.try = @ + 1, !.schema = schema]
  <2>1. exec[e].try + 1 \in 1 .. Tries
    BY <1>1, <1>4 DEF Gates!Exec
  <2>2. /\ x \in Gates!Exec /\ x.pc = exec[e].pc /\ x.bill = exec[e].bill
        /\ x.round = exec[e].round /\ x.asked = exec[e].asked
        /\ x.mock = exec[e].mock /\ x.fed = exec[e].fed
    BY <1>1, <2>1 DEF Gates!Exec
  <2>3. Gates!Become(e, x)
    BY <1>4
  <2> HIDE DEF x
  <2>4. Billed(x) /\ Uncanned(x)
    BY <1>1, <2>2 DEF Billed, Uncanned
  <2>5. QED
    BY <1>4, <2>2, <2>3, <2>4, AskingStep DEF Asking, Waiting
<1>5. ASSUME exec[e].pc \in {"ask", "bypass"},
             Gates!Become(e, [exec[e] EXCEPT !.pc = "unserved"])
      PROVE  GatewayInv'
  BY <1>5, EndsStep DEF Waiting
<1>6. CASE Gates!Unsupported(e)
  BY <1>4, <1>5, <1>6 DEF Gates!Unsupported
<1>7. CASE Gates!Transient(e)
  <2>1. CASE exec[e].provider # "inference" /\ exec[e].try < Tries
    <3>1. exec[e].pc = "ask" /\ Gates!Become(e, [exec[e] EXCEPT !.try = @ + 1])
      BY <1>7, <2>1 DEF Gates!Transient
    <3>2. /\ [exec[e] EXCEPT !.try = @ + 1]
                = [exec[e] EXCEPT !.try = @ + 1, !.schema = exec[e].schema]
          /\ exec[e].schema \in BOOLEAN
      BY <1>1 DEF Gates!Exec
    <3>3. QED
      BY <1>4, <2>1, <3>1, <3>2
  <2>2. CASE ~(exec[e].provider # "inference" /\ exec[e].try < Tries)
    BY <1>5, <1>7, <2>2 DEF Gates!Transient
  <2>3. QED
    BY <2>1, <2>2
<1>8. CASE Gates!Refused(e)
  BY <1>5, <1>8 DEF Gates!Refused
<1>9. CASE Gates!FallBack(e)
  <2>1. /\ exec[e].pc = "unserved" /\ exec[e].bill < exec[e].round /\ 1 <= exec[e].asked
        /\ exec[e].pc \in Asking
    BY <1>1, <1>9 DEF Gates!FallBack, Billed, Waiting, Asking
  <2>2. CASE Gates!Become(e, Gates!To(exec[e], "openai"))
    BY <1>1, <2>1, <2>2, PutStep DEF Gates!Providers, Gates!Vendors
  <2>3. CASE setup.canned /\ Gates!Become(e, Gates!To(exec[e], "mock"))
    BY <1>1, <2>1, <2>3, PutStep DEF Gates!Providers
  <2>4. CASE Gates!Become(e, [exec[e] EXCEPT !.pc = "error"])
    BY <2>4, EndsStep
  <2>5. QED
    BY <1>9, <2>2, <2>3, <2>4 DEF Gates!FallBack
<1>10. CASE Gates!Fits(e)
  <2>1. exec[e].mock \in BOOLEAN /\ setup.canned \in BOOLEAN
    BY <1>1 DEF Gates!Exec, Gates!Setup
  <2>2. exec[e].mock => setup.canned \/ setup.primary = "mock"
    BY <1>1 DEF Uncanned
  <2>3. QED
    BY <1>10, <2>1, <2>2, DeliverStep DEF Gates!Fits
<1>11. CASE Gates!Correct(e)
  <2> DEFINE x == [exec[e] EXCEPT !.round = 2]
  <2>1. /\ exec[e].pc = "answered" /\ exec[e].round = 1 /\ Gates!Become(e, Gates!To(x, setup.primary))
    BY <1>11 DEF Gates!Correct
  <2>2. /\ x \in Gates!Exec /\ x.bill = exec[e].bill /\ x.round = 2
        /\ x.asked = exec[e].asked /\ x.fed = exec[e].fed
    BY <1>1 DEF Gates!Exec
  <2> HIDE DEF x
  <2>3. exec[e].bill \in Nat /\ exec[e].bill <= 1 /\ 1 <= exec[e].asked
    BY <1>1, <2>1 DEF Gates!Exec, Billed, Asking
  <2>4. setup.primary \in Gates!Providers /\ x.bill < x.round
    BY <1>1, <2>2, <2>3 DEF Gates!Setup
  <2>5. QED
    BY <2>1, <2>2, <2>3, <2>4, PutStep DEF Asking
<1>12. CASE Gates!GiveUp(e)
  <2>1. exec[e].pc = "answered"
    BY <1>12 DEF Gates!GiveUp
  <2>2. CASE setup.canned /\ Gates!Deliver(e, TRUE)
    BY <2>1, <2>2, DeliverStep
  <2>3. CASE Gates!Become(e, [exec[e] EXCEPT !.pc = "error"])
    BY <2>3, EndsStep
  <2>4. QED
    BY <1>12, <2>2, <2>3 DEF Gates!GiveUp
<1>13. QED
  BY <1>2, <1>3, <1>6, <1>7, <1>8, <1>9, <1>10, <1>11, <1>12 DEF Gates!Question

LEMMA GatewayStep ==
    ASSUME Gates!GatewayAssumption, GatewayInv, [Gates!Next]_(Gates!gatewayVars)
    PROVE  GatewayInv'
<1>1. CASE UNCHANGED Gates!gatewayVars
  <2>1. \A p \in Processes : Affordable(p)'
    BY <1>1 DEF GatewayInv, Affordable, Owes, Gates!Overshoot, Here, Gates!gatewayVars
  <2>2. Typed' /\ \A e \in Executions : Billed(exec[e])' /\ Uncanned(exec[e])'
    BY <1>1 DEF GatewayInv, Typed, Billed, Uncanned, Gates!gatewayVars
  <2>3. QED
    BY <2>1, <2>2 DEF GatewayInv
<1>2. ASSUME NEW e \in Executions, Gates!Begin(e) \/ Gates!Pass(e)
      PROVE  GatewayInv'
  <2>1. Gates!Become(e, [exec[e] EXCEPT !.pc = "gate"])
    BY <1>2 DEF Gates!Begin, Gates!Pass
  <2>2. QED
    BY <2>1, EndsStep
<1>3. ASSUME NEW e \in Executions, Gates!Abort(e)
      PROVE  GatewayInv'
  <2>1. Gates!Become(e, [exec[e] EXCEPT !.pc = "failed"])
    BY <1>3 DEF Gates!Abort
  <2>2. QED
    BY <2>1, EndsStep
<1>4. ASSUME NEW e \in Executions, Gates!Ask(e)
      PROVE  GatewayInv'
  <2> DEFINE x == [exec[e] EXCEPT !.asked = @ + 1, !.round = 1, !.bill = 0]
  <2>1. exec[e].pc = "stage" /\ exec[e].asked < Calls /\ Gates!Become(e, Gates!To(x, setup.primary))
    BY <1>4 DEF Gates!Ask
  <2>2. exec[e] \in Gates!Exec /\ setup \in Gates!Setup /\ Calls \in Nat
    BY DEF GatewayInv, Typed, Gates!GatewayAssumption
  <2>3. exec[e].asked + 1 \in 0 .. Calls /\ exec[e].asked \in Nat
    BY <2>1, <2>2 DEF Gates!Exec
  <2>n. 1 \in 1 .. 2 /\ 0 \in Nat
    OBVIOUS
  <2>t. x \in Gates!Exec
    BY <2>2, <2>3, <2>n DEF Gates!Exec
  <2>4. /\ x \in Gates!Exec /\ x.bill = 0 /\ x.round = 1
        /\ x.asked = exec[e].asked + 1 /\ x.fed = exec[e].fed
    BY <2>2, <2>t DEF Gates!Exec
  <2> HIDE DEF x
  <2>5. setup.primary \in Gates!Providers
    BY <2>2 DEF Gates!Setup
  <2>6. x.bill < x.round /\ 1 <= x.asked
    BY <2>3, <2>4
  <2>7. QED
    BY <2>1, <2>4, <2>5, <2>6, PutStep
<1>5. QED
  BY <1>1, <1>2, <1>3, <1>4, GateStep, CompleteStep, QuestionStep, RestartStep DEF Gates!Next

\* However many executions of a run pass their gates before they ask, a process spends less
\* than the ceiling and one stage of each; and no canned text is given to a stage where it
\* is not allowed (engine.py:245, gateway.py:124, gateway.py:211).
THEOREM BudgetHolds == Gates!Spec => []GatewayHolds
<1>1. Gates!GatewayAssumption
  BY ExecutionAssumption
<1>2. Gates!Init => GatewayInv
  BY <1>1, GatewayStart
<1>3. GatewayInv /\ [Gates!Next]_(Gates!gatewayVars) => GatewayInv'
  BY <1>1, GatewayStep
<1>4. GatewayInv => GatewayHolds
  <2>1. SUFFICES ASSUME GatewayInv
                 PROVE  GatewayHolds
    OBVIOUS
  <2>2. ASSUME NEW e \in Executions, ~setup.canned, setup.primary # "mock"
        PROVE  ~exec[e].fed
    <3>1. Uncanned(exec[e])
      BY <2>1 DEF GatewayInv
    <3>2. QED
      BY <2>2, <3>1 DEF Uncanned
  <2>3. ASSUME NEW p \in Processes
        PROVE  usage[p] < Ceiling + Gates!Overshoot(Cardinality(Here(p)))
    <3>1. Affordable(p) /\ usage[p] \in Nat
      BY <2>1 DEF GatewayInv, Typed
    <3>2. Cardinality(Owes(p)) \in Nat /\ Cardinality(Here(p)) \in Nat
      BY <1>1, OwesFinite
    <3>3. Ceiling + Gates!Overshoot(Cardinality(Here(p))) \in Int
      BY <1>1, <3>2 DEF Gates!GatewayAssumption, Gates!Overshoot
    <3>4. QED
      BY <3>1, <3>2, <3>3 DEF Affordable
  <2>4. \A S : Gates!Cardinality(S) = Cardinality(S)
    BY DEF Gates!Cardinality, Cardinality
  <2>5. Gates!OverspendBounded
    BY <2>3, <2>4 DEF Gates!OverspendBounded, Here
  <2>6. QED
    BY <2>2, <2>5 DEF GatewayHolds, Gates!GatewayHolds, Gates!NoCannedAnswers
<1>5. QED
  BY <1>2, <1>3, <1>4, PTL DEF Gates!Spec

-----------------------------------------------------------------------------
(* The news crawl *)

Place == [pc : {"idle", "feed", "look", "text", "again", "insert", "announce"},
          feed : Feeds \union {0}, todo : SUBSET Articles, at : SUBSET Articles,
          fresh : SUBSET (Crawl!Agents \X Articles), cycle : 0 .. Cycles]

\* A crawl has a number, and is at a feed until it announces.
Placed(x) ==
    /\ x.pc \in {"feed", "look", "text", "again", "insert"} => x.feed \in Feeds
    /\ x.pc # "idle" => 1 <= x.cycle

\* What a replica is about to announce is stored for the agent it announces it for.
FreshIsStored(fresh) == \A m \in fresh : article[m[2]] = m[1]

\* And no notice has it, nor will another replica announce it.
FreshIsUntold(fresh) == \A m \in fresh : \A n \in notices : m[2] \notin n.told

Apart == \A v, w \in Crawlers : v # w => crawl[v].fresh \cap crawl[w].fresh = {}

NewsInv ==
    /\ Crawl!TypeOK
    /\ \A w \in Crawlers :
         Placed(crawl[w]) /\ FreshIsStored(crawl[w].fresh) /\ FreshIsUntold(crawl[w].fresh)
    /\ Apart
    /\ Crawl!AnnouncedOnceWhereRead

LEMMA NewsStart == Crawl!NewsAssumption /\ Crawl!Init => NewsInv
<1> SUFFICES ASSUME Crawl!NewsAssumption, Crawl!Init
             PROVE  NewsInv
  OBVIOUS
<1>1. Cycles \in Nat /\ 0 \in 0 .. Cycles
  BY DEF Crawl!NewsAssumption
<1>2. Crawl!Idle(0) \in Place /\ Placed(Crawl!Idle(0)) /\ Crawl!Idle(0).fresh = {}
  BY <1>1 DEF Crawl!Idle, Place, Placed
<1>3. Crawl!TypeOK
  BY <1>2 DEF Crawl!Init, Crawl!TypeOK, Place
<1>4. QED
  BY <1>2, <1>3 DEF Crawl!Init, NewsInv, FreshIsStored, FreshIsUntold, Apart, Crawl!AnnouncedOnceWhereRead

\* A replica goes on, with no news that it had not.
LEMMA CrawlStep ==
    ASSUME Crawl!NewsAssumption, NewsInv, NEW w \in Crawlers, NEW x \in Place,
           crawl' = [crawl EXCEPT ![w] = x], UNCHANGED <<article, notices>>,
           x.fresh \subseteq crawl[w].fresh, Placed(x)
    PROVE  NewsInv'
<1>1. crawl \in [Crawlers -> Place]
  BY DEF NewsInv, Crawl!TypeOK, Place
<1>2. /\ crawl' \in [Crawlers -> Place]
      /\ crawl'[w] = x /\ \A v \in Crawlers : v # w => crawl'[v] = crawl[v]
  BY <1>1
<1>3. Crawl!TypeOK'
  BY <1>2 DEF NewsInv, Crawl!TypeOK, Place
<1>4. \A v \in Crawlers : crawl'[v].fresh \subseteq crawl[v].fresh
  BY <1>2
<1>5. ASSUME NEW v \in Crawlers
      PROVE  /\ Placed(crawl[v])' /\ FreshIsStored(crawl[v].fresh)'
             /\ FreshIsUntold(crawl[v].fresh)'
  <2>1. FreshIsStored(crawl[v].fresh) /\ FreshIsUntold(crawl[v].fresh) /\ Placed(crawl[v])
    BY DEF NewsInv
  <2>2. Placed(crawl'[v])
    BY <1>2, <2>1
  <2>3. QED
    BY <1>4, <2>1, <2>2 DEF FreshIsStored, FreshIsUntold, Placed
<1>6. Apart'
  BY <1>4 DEF NewsInv, Apart
<1>7. Crawl!AnnouncedOnceWhereRead'
  BY DEF NewsInv, Crawl!AnnouncedOnceWhereRead, Crawl!FeedOf
<1>8. QED
  BY <1>3, <1>5, <1>6, <1>7 DEF NewsInv

LEMMA OnwardFacts ==
    ASSUME Crawl!NewsAssumption, NewsInv, NEW w \in Crawlers, crawl[w].pc # "idle"
    PROVE  Crawl!Onward(w) \in Place /\ Placed(Crawl!Onward(w)) /\ Crawl!Onward(w).fresh = crawl[w].fresh
<1>1. crawl[w] \in Place /\ Placed(crawl[w]) /\ crawl[w].cycle \in Int
  BY DEF NewsInv, Crawl!TypeOK, Place
<1>2. CASE crawl[w].feed + 1 \in Feeds
  BY <1>1, <1>2 DEF Crawl!Onward, Place, Placed
<1>3. CASE ~(crawl[w].feed + 1 \in Feeds)
  BY <1>1, <1>3 DEF Crawl!Onward, Place, Placed
<1>4. QED
  BY <1>2, <1>3

\* Only an article that nobody has stored is stored, so no crawl has it among its news.
LEMMA InsertStep ==
    ASSUME Crawl!NewsAssumption, NewsInv, NEW w \in Crawlers, crawl[w].pc = "insert",
           NEW a \in crawl[w].at, article[a] = Nobody,
           article' = [article EXCEPT ![a] = Agent[crawl[w].feed]],
           crawl' = [crawl EXCEPT ![w].pc = "look",
                        ![w].fresh = @ \union {<<Agent[crawl[w].feed], a>>}],
           UNCHANGED notices
    PROVE  NewsInv'
<1> DEFINE g == Agent[crawl[w].feed]
           x == [crawl[w] EXCEPT !.pc = "look", !.fresh = @ \union {<<g, a>>}]
<1>1. /\ crawl \in [Crawlers -> Place] /\ crawl[w] \in Place /\ Placed(crawl[w])
      /\ article \in [Articles -> Crawl!Agents \union {Nobody}] /\ Nobody \notin Crawl!Agents
  BY DEF NewsInv, Crawl!TypeOK, Place, Crawl!NewsAssumption, Crawl!Agents
<1>2. a \in Articles /\ g \in Crawl!Agents
  BY <1>1 DEF Place, Placed, Crawl!Agents
<1>3. x \in Place /\ Placed(x) /\ x.fresh = crawl[w].fresh \union {<<g, a>>}
  <2> HIDE DEF g
  <2>1. crawl[w].fresh \union {<<g, a>>} \in SUBSET (Crawl!Agents \X Articles)
    BY <1>1, <1>2 DEF Place
  <2>2. x \in Place /\ x.fresh = crawl[w].fresh \union {<<g, a>>}
    BY <1>1, <2>1 DEF Place
  <2>3. x.pc = "look" /\ x.feed = crawl[w].feed /\ x.cycle = crawl[w].cycle
    BY <1>1 DEF Place
  <2>4. QED
    BY <1>1, <2>2, <2>3 DEF Placed
<1>4. /\ article' \in [Articles -> Crawl!Agents \union {Nobody}] /\ article'[a] = g
      /\ \A b \in Articles : b # a => article'[b] = article[b]
  BY <1>1, <1>2
<1>5. crawl' = [crawl EXCEPT ![w] = x]
  BY <1>1
<1> HIDE DEF x, g
<1>6. /\ crawl' \in [Crawlers -> Place]
      /\ crawl'[w] = x /\ \A v \in Crawlers : v # w => crawl'[v] = crawl[v]
  BY <1>1, <1>3, <1>5
<1>7. Crawl!TypeOK'
  BY <1>4, <1>6 DEF NewsInv, Crawl!TypeOK, Place
<1>8. ASSUME NEW v \in Crawlers, NEW m \in crawl[v].fresh
      PROVE  m[1] \in Crawl!Agents /\ m[2] \in Articles /\ m = <<m[1], m[2]>> /\ m[2] # a
  <2>1. m \in Crawl!Agents \X Articles /\ article[m[2]] = m[1]
    BY <1>1 DEF Place, NewsInv, FreshIsStored
  <2>2. QED
    BY <1>1, <2>1
<1>9. ASSUME NEW n \in notices
      PROVE  n.agent \in Crawl!Agents /\ n.told \subseteq Articles /\ a \notin n.told
             /\ \A b \in n.told : article[b] = n.agent
  <2>1. n.agent \in Crawl!Agents /\ n.told \subseteq Articles
    BY DEF NewsInv, Crawl!TypeOK
  <2>2. n.told \subseteq Crawl!FeedOf(n.agent)
    BY DEF NewsInv, Crawl!AnnouncedOnceWhereRead
  <2>3. QED
    BY <1>1, <2>1, <2>2 DEF Crawl!FeedOf
<1>10. ASSUME NEW v \in Crawlers
       PROVE  /\ Placed(crawl[v])' /\ FreshIsStored(crawl[v].fresh)'
              /\ FreshIsUntold(crawl[v].fresh)'
  <2>1. FreshIsStored(crawl[v].fresh) /\ FreshIsUntold(crawl[v].fresh) /\ Placed(crawl[v])
    BY DEF NewsInv
  <2>2. Placed(crawl'[v])
    BY <1>3, <1>6, <2>1
  <2>3. \A m \in crawl'[v].fresh : m \in crawl[v].fresh \/ m = <<g, a>>
    BY <1>3, <1>6
  <2>4. \A m \in crawl[v].fresh : article'[m[2]] = m[1]
    BY <1>4, <1>8, <2>1 DEF FreshIsStored
  <2>5. \A m \in crawl'[v].fresh : article'[m[2]] = m[1]
    BY <1>4, <2>3, <2>4
  <2>6. \A m \in crawl'[v].fresh : \A n \in notices' : m[2] \notin n.told
    BY <1>9, <2>1, <2>3 DEF FreshIsUntold
  <2>7. QED
    BY <2>2, <2>5, <2>6 DEF FreshIsStored, FreshIsUntold, Placed
<1>11. Apart'
  <2>1. ASSUME NEW v \in Crawlers, v # w
        PROVE  crawl'[v].fresh \cap crawl'[w].fresh = {}
    <3>1. crawl[v].fresh \cap crawl[w].fresh = {}
      BY <2>1 DEF NewsInv, Apart
    <3>2. <<g, a>> \notin crawl[v].fresh
      BY <1>8
    <3>3. QED
      BY <1>3, <1>6, <2>1, <3>1, <3>2
  <2>2. ASSUME NEW u \in Crawlers, NEW v \in Crawlers, u # v, u # w, v # w
        PROVE  crawl'[u].fresh \cap crawl'[v].fresh = {}
    BY <1>6, <2>2 DEF NewsInv, Apart
  <2>3. QED
    BY <2>1, <2>2 DEF Apart
<1>12. Crawl!AnnouncedOnceWhereRead'
  <2>1. ASSUME NEW n \in notices'
        PROVE  n.told \subseteq Crawl!FeedOf(n.agent)'
    BY <1>4, <1>9 DEF Crawl!FeedOf
  <2>2. \A m, n \in notices' : m # n => m.told \intersect n.told = {}
    BY DEF NewsInv, Crawl!AnnouncedOnceWhereRead
  <2>3. QED
    BY <2>1, <2>2 DEF Crawl!AnnouncedOnceWhereRead
<1>13. QED
  BY <1>7, <1>10, <1>11, <1>12 DEF NewsInv

\* A notice tells news of one agent, which the replica then no longer has.
LEMMA AnnounceStep ==
    ASSUME Crawl!NewsAssumption, NewsInv, NEW w \in Crawlers, crawl[w].pc = "announce",
           NEW g \in Crawl!Agents, NEW told1 \in SUBSET Articles,
           \A a \in told1 : <<g, a>> \in crawl[w].fresh,
           crawl' = [crawl EXCEPT ![w].fresh = @ \ ({g} \X told1)],
           notices' = notices \union
               {[by |-> w, cycle |-> crawl[w].cycle, agent |-> g, told |-> told1]},
           UNCHANGED article
    PROVE  NewsInv'
<1> DEFINE x == [crawl[w] EXCEPT !.fresh = @ \ ({g} \X told1)]
           k == [by |-> w, cycle |-> crawl[w].cycle, agent |-> g, told |-> told1]
<1>1. crawl \in [Crawlers -> Place] /\ crawl[w] \in Place /\ Placed(crawl[w])
  BY DEF NewsInv, Crawl!TypeOK, Place
<1>2. x \in Place /\ Placed(x) /\ x.fresh = crawl[w].fresh \ ({g} \X told1)
  BY <1>1 DEF Place, Placed
<1>3. crawl' = [crawl EXCEPT ![w] = x]
  BY <1>1
<1>4. /\ k \in [by : Crawlers, cycle : 1 .. Cycles, agent : Crawl!Agents, told : SUBSET Articles]
      /\ k.told = told1 /\ k.agent = g
  <2>1. crawl[w].cycle \in 1 .. Cycles
    BY <1>1 DEF Place, Placed, Crawl!NewsAssumption
  <2>2. QED
    BY <2>1
<1>5. notices' = notices \union {k}
  OBVIOUS
<1> HIDE DEF x, k
<1>6. /\ crawl' \in [Crawlers -> Place]
      /\ crawl'[w] = x /\ \A v \in Crawlers : v # w => crawl'[v] = crawl[v]
  BY <1>1, <1>2, <1>3
<1>7. Crawl!TypeOK'
  <2>1. notices' \subseteq [by : Crawlers, cycle : 1 .. Cycles, agent : Crawl!Agents,
                            told : SUBSET Articles]
    BY <1>4, <1>5 DEF NewsInv, Crawl!TypeOK
  <2>2. QED
    BY <1>6, <2>1 DEF NewsInv, Crawl!TypeOK, Place
<1>8. \A a \in told1 : article[a] = g
  <2>1. ASSUME NEW a \in told1
        PROVE  article[a] = g
    <3>1. <<g, a>> \in crawl[w].fresh /\ FreshIsStored(crawl[w].fresh)
      BY DEF NewsInv
    <3>2. QED
      BY <3>1 DEF FreshIsStored
  <2>2. QED
    BY <2>1
<1>9. ASSUME NEW v \in Crawlers, NEW m \in crawl'[v].fresh
      PROVE  m \in crawl[v].fresh /\ m[2] \notin told1
  <2>1. m \in crawl[v].fresh
    BY <1>2, <1>6
  <2>2. m \in Crawl!Agents \X Articles /\ article[m[2]] = m[1]
    BY <1>1, <2>1 DEF Place, NewsInv, FreshIsStored
  <2>3. ASSUME m[2] \in told1
        PROVE  FALSE
    <3>1. m = <<g, m[2]>> /\ <<g, m[2]>> \in crawl[w].fresh
      BY <1>8, <2>2, <2>3
    <3>2. m \in crawl[w].fresh /\ m \in {g} \X told1
      BY <2>3, <3>1
    <3>3. v # w
      BY <1>2, <1>6, <3>2
    <3>4. QED
      BY <2>1, <3>2, <3>3 DEF NewsInv, Apart
  <2>4. QED
    BY <2>1, <2>3
<1>10. ASSUME NEW v \in Crawlers
       PROVE  /\ Placed(crawl[v])' /\ FreshIsStored(crawl[v].fresh)'
              /\ FreshIsUntold(crawl[v].fresh)'
  <2>1. FreshIsStored(crawl[v].fresh) /\ FreshIsUntold(crawl[v].fresh) /\ Placed(crawl[v])
    BY DEF NewsInv
  <2>2. Placed(crawl'[v])
    BY <1>2, <1>6, <2>1
  <2>3. FreshIsStored(crawl[v].fresh)'
    BY <1>9, <2>1 DEF FreshIsStored
  <2>4. \A m \in crawl'[v].fresh : \A n \in notices' : m[2] \notin n.told
    BY <1>4, <1>5, <1>9, <2>1 DEF FreshIsUntold
  <2>5. QED
    BY <2>2, <2>3, <2>4 DEF FreshIsUntold, Placed
<1>11. Apart'
  BY <1>9 DEF NewsInv, Apart
<1>12. ASSUME NEW n \in notices
       PROVE  n.told \cap told1 = {} /\ n.told \subseteq Crawl!FeedOf(n.agent)
  <2>1. ASSUME NEW a \in told1
        PROVE  a \notin n.told
    <3>1. <<g, a>> \in crawl[w].fresh /\ FreshIsUntold(crawl[w].fresh) /\ <<g, a>>[2] = a
      BY DEF NewsInv
    <3>2. QED
      BY <3>1 DEF FreshIsUntold
  <2>2. QED
    BY <2>1 DEF NewsInv, Crawl!AnnouncedOnceWhereRead
<1>13. Crawl!AnnouncedOnceWhereRead'
  <2>1. ASSUME NEW n \in notices'
        PROVE  n.told \subseteq Crawl!FeedOf(n.agent)'
    <3>1. CASE n \in notices
      BY <1>12, <3>1 DEF Crawl!FeedOf
    <3>2. CASE n = k
      BY <1>4, <1>8, <3>2 DEF Crawl!FeedOf
    <3>3. QED
      BY <1>5, <3>1, <3>2
  <2>2. ASSUME NEW m \in notices', NEW n \in notices', m # n
        PROVE  m.told \intersect n.told = {}
    <3>1. CASE m \in notices /\ n \in notices
      BY <2>2, <3>1 DEF NewsInv, Crawl!AnnouncedOnceWhereRead
    <3>2. CASE m = k
      BY <1>4, <1>5, <1>12, <2>2, <3>2
    <3>3. CASE n = k
      BY <1>4, <1>5, <1>12, <2>2, <3>3
    <3>4. QED
      BY <1>5, <3>1, <3>2, <3>3
  <2>3. QED
    BY <2>1, <2>2 DEF Crawl!AnnouncedOnceWhereRead
<1>14. QED
  BY <1>7, <1>10, <1>11, <1>13 DEF NewsInv

LEMMA NewsStep ==
    ASSUME Crawl!NewsAssumption, NewsInv, [Crawl!Next]_(Crawl!newsVars)
    PROVE  NewsInv'
<1>1. CASE UNCHANGED Crawl!newsVars
  BY <1>1 DEF NewsInv, Crawl!TypeOK, Placed, FreshIsStored, FreshIsUntold, Apart,
     Crawl!AnnouncedOnceWhereRead, Crawl!FeedOf, Crawl!newsVars
<1>2. CASE Crawl!Next
  <2>1. PICK w \in Crawlers :
          \/ Crawl!Begin(w) \/ Crawl!FetchFeed(w) \/ Crawl!Look(w) \/ Crawl!FetchText(w) \/ Crawl!LookAgain(w) \/ Crawl!Insert(w)
          \/ Crawl!Announce(w) \/ Crawl!Stop(w)
    BY <1>2 DEF Crawl!Next
  <2> DEFINE c == crawl[w]
  <2>2. /\ crawl \in [Crawlers -> Place] /\ c \in Place /\ Placed(c)
        /\ c.cycle \in 0 .. Cycles /\ Cycles \in Nat
        /\ 1 \in Feeds /\ Lists \in [Feeds -> SUBSET Articles]
    BY DEF NewsInv, Crawl!TypeOK, Place, Crawl!NewsAssumption
  <2>3. ASSUME NEW x \in Place, crawl' = [crawl EXCEPT ![w] = x], x.fresh \subseteq c.fresh,
               Placed(x), UNCHANGED <<article, notices>>
        PROVE  NewsInv'
    BY <2>3, CrawlStep
  <2>4. \A n \in 0 .. Cycles : Crawl!Idle(n) \in Place /\ Placed(Crawl!Idle(n)) /\ Crawl!Idle(n).fresh = {}
    BY DEF Crawl!Idle, Place, Placed
  <2>5. ASSUME crawl' = [crawl EXCEPT ![w] = Crawl!Idle(@.cycle)], UNCHANGED <<article, notices>>
        PROVE  NewsInv'
    <3>1. crawl' = [crawl EXCEPT ![w] = Crawl!Idle(c.cycle)]
      BY <2>2, <2>5
    <3>2. QED
      BY <2>2, <2>3, <2>4, <2>5, <3>1
  <2>6. ASSUME NEW next \in {"look", "again", "insert"}, c.pc \in {"text", "again", "insert"},
               crawl' = [crawl EXCEPT ![w].pc = next], UNCHANGED <<article, notices>>
        PROVE  NewsInv'
    <3> DEFINE x == [c EXCEPT !.pc = next]
    <3>1. x \in Place /\ x.pc = next /\ x.feed = c.feed /\ x.cycle = c.cycle /\ x.fresh = c.fresh
      BY <2>2 DEF Place
    <3>2. crawl' = [crawl EXCEPT ![w] = x]
      BY <2>2, <2>6
    <3> HIDE DEF x
    <3>3. Placed(x)
      BY <2>2, <2>6, <3>1 DEF Placed
    <3>4. QED
      BY <2>3, <2>6, <3>1, <3>2, <3>3
  <2>7. ASSUME crawl' = [crawl EXCEPT ![w] = Crawl!Onward(w)], c.pc # "idle",
               UNCHANGED <<article, notices>>
        PROVE  NewsInv'
    BY <2>3, <2>7, OnwardFacts
  <2>8. CASE Crawl!Begin(w)
    <3> DEFINE x == [Crawl!Idle(c.cycle + 1) EXCEPT !.pc = "feed", !.feed = 1]
    <3>1. crawl' = [crawl EXCEPT ![w] = x] /\ c.cycle < Cycles /\ UNCHANGED <<article, notices>>
      BY <2>8 DEF Crawl!Begin
    <3>2. c.cycle + 1 \in 0 .. Cycles /\ 1 <= c.cycle + 1
      BY <2>2, <3>1
    <3>3. /\ x \in Place /\ x.pc = "feed" /\ x.feed = 1 /\ x.cycle = c.cycle + 1
          /\ x.fresh = {}
      BY <2>2, <3>2 DEF Crawl!Idle, Place
    <3> HIDE DEF x
    <3>4. Placed(x)
      BY <2>2, <3>2, <3>3 DEF Placed
    <3>5. QED
      BY <2>3, <3>1, <3>3, <3>4
  <2>9. CASE Crawl!FetchFeed(w)
    <3>1. c.pc = "feed" /\ UNCHANGED <<article, notices>>
      BY <2>9 DEF Crawl!FetchFeed
    <3>2. CASE crawl' = [crawl EXCEPT ![w] = Crawl!Onward(w)]
      BY <2>7, <3>1, <3>2
    <3>3. ASSUME NEW listed \in SUBSET Lists[c.feed],
                 crawl' = [crawl EXCEPT ![w].pc = "look", ![w].todo = listed]
          PROVE  NewsInv'
      <4> DEFINE x == [c EXCEPT !.pc = "look", !.todo = listed]
      <4>1. listed \in SUBSET Articles
        BY <2>2, <3>1, <3>3 DEF Placed
      <4>2. /\ x \in Place /\ x.pc = "look" /\ x.feed = c.feed /\ x.cycle = c.cycle
            /\ x.fresh = c.fresh
        BY <2>2, <4>1 DEF Place
      <4>3. crawl' = [crawl EXCEPT ![w] = x]
        BY <2>2, <3>3
      <4> HIDE DEF x
      <4>4. Placed(x)
        BY <2>2, <3>1, <4>2 DEF Placed
      <4>5. QED
        BY <2>3, <3>1, <4>2, <4>3, <4>4
    <3>4. QED
      BY <2>9, <3>2, <3>3 DEF Crawl!FetchFeed
  <2>10. CASE Crawl!Look(w)
    <3>1. c.pc = "look" /\ UNCHANGED <<article, notices>>
      BY <2>10 DEF Crawl!Look
    <3>2. CASE crawl' = [crawl EXCEPT ![w] = Crawl!Onward(w)]
      BY <2>7, <3>1, <3>2
    <3>3. ASSUME NEW a \in c.todo, NEW next \in {"text", "look"},
                 crawl' = [crawl EXCEPT ![w].todo = @ \ {a}, ![w].at = {a}, ![w].pc = next]
          PROVE  NewsInv'
      <4> DEFINE x == [c EXCEPT !.todo = @ \ {a}, !.at = {a}, !.pc = next]
      <4>1. c.todo \ {a} \in SUBSET Articles /\ {a} \in SUBSET Articles
        BY <2>2, <3>3 DEF Place
      <4>2. /\ x \in Place /\ x.pc = next /\ x.feed = c.feed /\ x.cycle = c.cycle
            /\ x.fresh = c.fresh
        BY <2>2, <4>1 DEF Place
      <4>3. crawl' = [crawl EXCEPT ![w] = x]
        BY <2>2, <3>3
      <4> HIDE DEF x
      <4>4. Placed(x)
        BY <2>2, <3>1, <4>2 DEF Placed
      <4>5. QED
        BY <2>3, <3>1, <4>2, <4>3, <4>4
    <3>4. QED
      BY <2>10, <3>2, <3>3 DEF Crawl!Look
  <2>11. CASE Crawl!FetchText(w)
    BY <2>6, <2>11 DEF Crawl!FetchText
  <2>12. CASE Crawl!LookAgain(w)
    <3>1. c.pc = "again" /\ UNCHANGED <<article, notices>>
      BY <2>12 DEF Crawl!LookAgain
    <3>2. PICK a \in c.at :
            crawl' = [crawl EXCEPT ![w].pc = IF article[a] = Nobody THEN "insert" ELSE "look"]
      BY <2>12 DEF Crawl!LookAgain
    <3>3. QED
      BY <2>6, <3>1, <3>2
  <2>13. CASE Crawl!Insert(w)
    <3>1. c.pc = "insert" /\ UNCHANGED notices
      BY <2>13 DEF Crawl!Insert
    <3>2. PICK a \in c.at :
            \/ /\ article[a] = Nobody
               /\ article' = [article EXCEPT ![a] = Agent[crawl[w].feed]]
               /\ crawl' = [crawl EXCEPT ![w].pc = "look",
                       ![w].fresh = @ \union {<<Agent[crawl[w].feed], a>>}]
            \/ /\ crawl' = [crawl EXCEPT ![w].pc = "look"]
               /\ UNCHANGED article
      BY <2>13 DEF Crawl!Insert
    <3>3. CASE crawl' = [crawl EXCEPT ![w].pc = "look"] /\ UNCHANGED article
      BY <2>6, <3>1, <3>3
    <3>4. QED
      BY <3>1, <3>2, <3>3, InsertStep
  <2>14. CASE Crawl!Announce(w)
    <3>1. c.pc = "announce" /\ UNCHANGED article
      BY <2>14 DEF Crawl!Announce
    <3>2. CASE crawl' = [crawl EXCEPT ![w] = Crawl!Idle(@.cycle)] /\ UNCHANGED notices
      BY <2>5, <3>1, <3>2
    <3>3. ASSUME NEW g \in Crawl!Agents, NEW told1 \in SUBSET Articles, NEW posted \in BOOLEAN,
                 told1 \subseteq {a \in Articles : <<g, a>> \in crawl[w].fresh},
                 crawl' = [crawl EXCEPT ![w].fresh = @ \ ({g} \X told1)],
                 notices' = IF posted
                    THEN notices \union
                           {[by |-> w, cycle |-> crawl[w].cycle, agent |-> g, told |-> told1]}
                    ELSE notices
          PROVE  NewsInv'
      <4>1. CASE posted
        BY <3>1, <3>3, <4>1, AnnounceStep
      <4>2. CASE ~posted
        <5> DEFINE x == [c EXCEPT !.fresh = @ \ ({g} \X told1)]
        <5>1. c.fresh \ ({g} \X told1) \in SUBSET (Crawl!Agents \X Articles)
          BY <2>2 DEF Place
        <5>2. /\ x \in Place /\ x.pc = c.pc /\ x.feed = c.feed /\ x.cycle = c.cycle
              /\ x.fresh \subseteq c.fresh
          BY <2>2, <5>1 DEF Place
        <5>3. crawl' = [crawl EXCEPT ![w] = x]
          BY <2>2, <3>3
        <5> HIDE DEF x
        <5>4. Placed(x)
          BY <2>2, <5>2 DEF Placed
        <5>5. QED
          BY <2>3, <3>1, <3>3, <4>2, <5>2, <5>3, <5>4
      <4>3. QED
        BY <4>1, <4>2
    <3>4. QED
      BY <2>14, <3>2, <3>3 DEF Crawl!Announce
  <2>15. CASE Crawl!Stop(w)
    BY <2>5, <2>15 DEF Crawl!Stop
  <2>16. QED
    BY <2>1, <2>8, <2>9, <2>10, <2>11, <2>12, <2>13, <2>14, <2>15
<1>3. QED
  BY <1>1, <1>2

\* No article is announced twice, and each is found in the feed of the agent it was
\* announced for, for any replicas, feeds that overlap, crawls and stops in between
\* (news_ingester.py:640).
THEOREM NewsToldOnce == Crawl!Spec => []AnnouncedOnceWhereRead
<1>1. Crawl!NewsAssumption
  BY ExecutionAssumption
<1>2. Crawl!Init => NewsInv
  BY <1>1, NewsStart
<1>3. NewsInv /\ [Crawl!Next]_(Crawl!newsVars) => NewsInv'
  BY <1>1, NewsStep
<1>4. NewsInv => AnnouncedOnceWhereRead
  BY DEF NewsInv, AnnouncedOnceWhereRead
<1>5. QED
  BY <1>2, <1>3, <1>4, PTL DEF Crawl!Spec

-----------------------------------------------------------------------------
(* Citations *)

\* An identifier or what is printed for one.
Word == Seq(Nat)

LEMMA Beginning ==
    ASSUME NEW w \in Word, NEW n \in 0 .. Len(w)
    PROVE  /\ SubSeq(w, 1, n) \in Word /\ Len(SubSeq(w, 1, n)) = n
           /\ Paper!IsPrefix(SubSeq(w, 1, n), w)
           /\ n = Len(w) => SubSeq(w, 1, n) = w
<1> DEFINE b == SubSeq(w, 1, n)
<1>1. Len(w) \in Nat /\ n \in Nat /\ \A i \in 1 .. n : w[i] \in Nat
  BY LenProperties DEF Word
<1>2. b \in Seq(Nat) /\ Len(b) = n
  BY <1>1, SubSeqProperties
<1>3. SubSeq(b, 1, Len(b)) = b
  BY <1>2, SubSeqFull
<1>4. Paper!IsPrefix(b, w)
  BY <1>1, <1>2, <1>3 DEF Paper!IsPrefix
<1>5. n = Len(w) => b = w
  BY SubSeqFull DEF Word
<1>6. QED
  BY <1>2, <1>4, <1>5 DEF Word

LEMMA PrefixPoint ==
    ASSUME NEW v \in Word, NEW w \in Word
    PROVE  Paper!IsPrefix(v, w) <=> Len(v) <= Len(w) /\ \A i \in 1 .. Len(v) : v[i] = w[i]
<1>1. /\ Len(v) \in Nat /\ Len(w) \in Nat
      /\ \A i \in 1 .. Len(v) : v[i] \in Nat
      /\ \A i \in 1 .. Len(w) : w[i] \in Nat
  BY LenProperties DEF Word
<1>2. SubSeq(v, 1, Len(v)) = v
  BY SubSeqFull DEF Word
<1>3. ASSUME Len(v) <= Len(w)
      PROVE  /\ SubSeq(w, 1, Len(v)) \in Seq(Nat) /\ Len(SubSeq(w, 1, Len(v))) = Len(v)
             /\ \A i \in 1 .. Len(v) : SubSeq(w, 1, Len(v))[i] = w[i]
  <2>1. \A i \in 1 .. Len(v) : w[i] \in Nat
    BY <1>1, <1>3
  <2>2. QED
    BY <1>1, <2>1, SubSeqProperties
<1>4. ASSUME Len(v) <= Len(w), \A i \in 1 .. Len(v) : v[i] = w[i]
      PROVE  v = SubSeq(w, 1, Len(v))
  BY <1>1, <1>3, <1>4, SeqEqual DEF Word
<1>5. QED
  BY <1>2, <1>3, <1>4 DEF Paper!IsPrefix

LEMMA PrefixOrder ==
    ASSUME NEW u \in Word, NEW v \in Word, NEW w \in Word
    PROVE  /\ Paper!IsPrefix(w, w)
           /\ Paper!IsPrefix(u, v) /\ Paper!IsPrefix(v, w) => Paper!IsPrefix(u, w)
<1>1. Len(u) \in Nat /\ Len(v) \in Nat /\ Len(w) \in Nat
  BY LenProperties DEF Word
<1>2. QED
  BY <1>1, PrefixPoint

LEMMA SameCounts ==
    \A S : Paper!Cardinality(S) = Cardinality(S) /\ (Paper!IsFiniteSet(S) <=> IsFiniteSet(S))
  BY DEF Paper!Cardinality, Cardinality, Paper!IsFiniteSet, IsFiniteSet

LEMMA One ==
    ASSUME NEW S, IsFiniteSet(S)
    PROVE  Cardinality(S) = 1 <=> \E x : S = {x}
  BY FS_Singleton

\* What a token is resolved to begins with it.
LEMMA ResolvesToMatch ==
    ASSUME NEW ids, IsFiniteSet(ids), ids \subseteq Word, Paper!NoId \notin ids, NEW token \in Word
    PROVE  /\ Paper!Resolve(token, ids) \in ids \cup {Paper!NoId}
           /\ Paper!Resolve(token, ids) \in ids => Paper!IsPrefix(token, Paper!Resolve(token, ids))
<1> DEFINE matches == {v \in ids : Paper!IsPrefix(token, v)}
<1>1. CASE token \in ids
  BY <1>1, PrefixOrder DEF Paper!Resolve
<1>2. CASE token \notin ids /\ Cardinality(matches) = 1
  <2>1. IsFiniteSet(matches)
    BY FS_Subset
  <2>2. PICK x : matches = {x}
    BY <1>2, <2>1, One
  <2>3. (CHOOSE v \in matches : TRUE) \in matches
    BY <2>2
  <2>4. Paper!Resolve(token, ids) = CHOOSE v \in matches : TRUE
    BY <1>2, SameCounts DEF Paper!Resolve
  <2>5. QED
    BY <2>3, <2>4
<1>3. CASE token \notin ids /\ Cardinality(matches) # 1
  BY <1>3, SameCounts DEF Paper!Resolve
<1>4. QED
  BY <1>1, <1>2, <1>3

\* A token is as short as it may be.
LEMMA FormatIsBeginning ==
    ASSUME Least \in Nat, NEW id \in Word, NEW ids
    PROVE  \E n \in 0 .. Len(id) :
             /\ Paper!Format(id, ids) = SubSeq(id, 1, n)
             /\ n = Len(id) \/ ~Paper!Shared(id, n, ids)
<1> DEFINE T == {n \in Paper!Lengths(id) : n = Len(id) \/ ~Paper!Shared(id, n, ids)}
           P(n) == /\ n = Len(id) \/ ~Paper!Shared(id, n, ids)
                   /\ \A k \in Paper!Lengths(id) : k < n => Paper!Shared(id, k, ids)
           least == CHOOSE n \in Paper!Lengths(id) : P(n)
<1>1. Len(id) \in Nat /\ Paper!Lengths(id) \subseteq 0 .. Len(id) /\ Len(id) \in Paper!Lengths(id)
  BY LenProperties DEF Word, Paper!Lengths
<1>2. T \subseteq Nat /\ T # {}
  BY <1>1
<1>3. PICK n \in T : \A k \in T : <<k, n>> \notin OpToRel(<, Nat)
  BY <1>2, WFMin, NatLessThanWellFounded
<1>4. ASSUME NEW k \in Paper!Lengths(id), k < n
      PROVE  Paper!Shared(id, k, ids)
  <2>1. k \in Nat /\ n \in Nat
    BY <1>1
  <2>2. <<k, n>> \in OpToRel(<, Nat)
    BY <1>4, <2>1 DEF OpToRel
  <2>3. QED
    BY <1>3, <2>2
<1>5. n \in Paper!Lengths(id) /\ P(n)
  BY <1>4
<1>6. least \in Paper!Lengths(id) /\ P(least)
  BY <1>5
<1>7. Paper!Format(id, ids) = SubSeq(id, 1, least)
  BY DEF Paper!Format
<1> HIDE DEF least
<1>8. QED
  BY <1>1, <1>6, <1>7

LEMMA FormatBegins ==
    ASSUME Least \in Nat, NEW id \in Word, NEW ids
    PROVE  Paper!Format(id, ids) \in Word /\ Paper!IsPrefix(Paper!Format(id, ids), id)
<1>1. PICK n \in 0 .. Len(id) : Paper!Format(id, ids) = SubSeq(id, 1, n)
  BY FormatIsBeginning
<1>2. QED
  BY <1>1, Beginning

\* A token stands for what its identifier stands for, be it of a row or not.
LEMMA FormatResolves ==
    ASSUME Least \in Nat, NEW id \in Word, NEW ids, ids \subseteq Word
    PROVE  Paper!Resolve(Paper!Format(id, ids), ids) = Paper!Resolve(id, ids)
<1>1. PICK n \in 0 .. Len(id) : /\ Paper!Format(id, ids) = SubSeq(id, 1, n)
                                /\ n = Len(id) \/ ~Paper!Shared(id, n, ids)
  BY FormatIsBeginning
<1>2. CASE n = Len(id)
  BY <1>1, <1>2, Beginning
<1>3. CASE ~Paper!Shared(id, n, ids)
  <2> DEFINE text == SubSeq(id, 1, n)
             matches == {v \in ids : Paper!IsPrefix(text, v)}
  <2>1. \A v \in ids : v # id => ~Paper!IsPrefix(text, v)
    BY <1>3 DEF Paper!Shared
  <2>2. text \in Word /\ Paper!IsPrefix(text, id) /\ Paper!IsPrefix(text, text)
    BY Beginning, PrefixOrder
  <2> HIDE DEF text
  <2>3. text \in ids => text = id
    BY <2>1, <2>2
  <2>4. CASE id \in ids
    <3>1. matches = {id}
      BY <2>1, <2>2, <2>4
    <3>2. Cardinality(matches) = 1 /\ (CHOOSE v \in matches : TRUE) = id
      BY <3>1, FS_Singleton
    <3>3. Paper!Resolve(text, ids) = id
      BY <2>3, <3>2, SameCounts DEF Paper!Resolve
    <3>4. QED
      BY <1>1, <2>4, <3>3 DEF Paper!Resolve, text
  <2>5. CASE id \notin ids
    <3>1. text \notin ids
      BY <2>3, <2>5
    <3>2. matches = {}
      BY <2>1, <2>5
    <3>3. {v \in ids : Paper!IsPrefix(id, v)} = {}
      BY <2>1, <2>2, <2>5, PrefixOrder
    <3>4. Cardinality({}) # 1
      BY FS_EmptySet
    <3>5. Paper!Resolve(text, ids) = Paper!NoId
      BY <3>1, <3>2, <3>4, SameCounts DEF Paper!Resolve
    <3>6. Paper!Resolve(id, ids) = Paper!NoId
      BY <2>5, <3>3, <3>4, SameCounts DEF Paper!Resolve
    <3>7. QED
      BY <1>1, <3>5, <3>6 DEF text
  <2>6. QED
    BY <2>4, <2>5
<1>4. QED
  BY <1>1, <1>2, <1>3

Rows == [run : Runs, source : SourceIds, status : {"ACTIVE", "DISPUTED"}]

Numbered ==
    /\ claim \in [ClaimIds -> {Paper!NoRow, Paper!Purged} \cup Rows]
    /\ source = [s \in SourceIds |-> source[s]]
    /\ report = [r \in Runs |-> report[r]]
    /\ finding = [r \in Runs |-> finding[r]]
    /\ \A r \in Runs : UNION finding[r] \subseteq Word

\* Every token of a report stands for one of the rows it was rendered from, and what its
\* findings cite of them has one.
NamesRows(rep) ==
    /\ \A t \in rep.tokens :
         /\ t.meant # Paper!NoId
         /\ Paper!Resolve(t.text, IF t.kind = "C" THEN rep.claims ELSE rep.sources) = t.meant
    /\ \A c \in rep.cited \cap rep.claims : \E t \in rep.tokens : t.kind = "C" /\ t.meant = c

\* A report of something cites something.
CitesSome(rep) ==
    /\ rep.claims # {} => \E t \in rep.tokens : t.kind = "C"
    /\ rep.sources # {} => \E t \in rep.tokens : t.kind = "S"

\* A token is the beginning of the identifier it stands for.
Abbreviates(t) ==
    /\ t.text \in Word
    /\ t.meant \in ClaimIds \cup SourceIds => Paper!IsPrefix(t.text, t.meant)

\* What the strike left in the prose stands for what it names among the run's rows.
StandsForRows(rep) ==
    \A t \in rep.left : /\ t.kind \in {"C", "S"}
                        /\ Paper!Resolve(t.text, IF t.kind = "C" THEN rep.claims ELSE rep.sources)
                                = t.meant

CitationInv ==
    /\ Numbered
    /\ \A r \in Runs : report[r].made =>
            NamesRows(report[r]) /\ CitesSome(report[r]) /\ StandsForRows(report[r])
    /\ \A t \in printed : Abbreviates(t)

LEMMA CitationsStart == Paper!Init => CitationInv
  BY DEF Paper!Init, CitationInv, Numbered, Paper!NoReport

LEMMA RowsOfRun ==
    ASSUME Paper!ReportsAssumption, Numbered, NEW r
    PROVE  /\ Paper!ClaimsOf(r) \subseteq ClaimIds /\ Paper!SourcesOf(r) \subseteq SourceIds
           /\ IsFiniteSet(Paper!ClaimsOf(r)) /\ IsFiniteSet(Paper!SourcesOf(r))
           /\ Paper!ClaimsOf(r) \subseteq Word /\ Paper!SourcesOf(r) \subseteq Word
           /\ Paper!NoId \notin Paper!ClaimsOf(r) \cup Paper!SourcesOf(r)
           /\ \A c \in Paper!ClaimsOf(r) : claim[c].source \in SourceIds
<1>1. Paper!ClaimsOf(r) \subseteq ClaimIds /\ Paper!SourcesOf(r) \subseteq SourceIds
  BY DEF Paper!ClaimsOf, Paper!Claims, Paper!SourcesOf, Paper!Sources
<1>2. IsFiniteSet(Paper!ClaimsOf(r)) /\ IsFiniteSet(Paper!SourcesOf(r))
  BY <1>1, FS_Subset, SameCounts DEF Paper!ReportsAssumption
<1>3. \A c \in Paper!ClaimsOf(r) : claim[c] \in Rows
  BY DEF Paper!ClaimsOf, Paper!Claims, Numbered
<1>4. \A c \in Paper!ClaimsOf(r) : claim[c].source \in SourceIds
  BY <1>3 DEF Rows
<1>5. QED
  BY <1>1, <1>2, <1>4 DEF Paper!ReportsAssumption, Word, Paper!NoId

\* What a token says that was made for some rows.
LEMMA TokenSays ==
    ASSUME Paper!ReportsAssumption, NEW kind, NEW id \in Word, NEW ids, ids \subseteq Word,
           Paper!NoId \notin ids, IsFiniteSet(ids)
    PROVE  LET t == Paper!Token(kind, id, ids)
           IN  /\ t.kind = kind /\ t.meant = Paper!Resolve(id, ids)
               /\ Paper!Resolve(t.text, ids) = t.meant
               /\ t.text \in Word /\ t.meant \in ids \cup {Paper!NoId}
               /\ t.meant \in ids => Paper!IsPrefix(t.text, t.meant)
<1> DEFINE t == Paper!Token(kind, id, ids)
<1>1. t.kind = kind /\ t.text = Paper!Format(id, ids) /\ t.meant = Paper!Resolve(id, ids)
  BY DEF Paper!Token
<1>2. t.text \in Word
  BY <1>1, FormatBegins DEF Paper!ReportsAssumption
<1>3. Paper!Resolve(t.text, ids) = t.meant
  BY <1>1, FormatResolves DEF Paper!ReportsAssumption
<1> HIDE DEF t
<1>4. /\ Paper!Resolve(t.text, ids) \in ids \cup {Paper!NoId}
      /\ Paper!Resolve(t.text, ids) \in ids => Paper!IsPrefix(t.text, Paper!Resolve(t.text, ids))
  BY <1>2, ResolvesToMatch
<1>5. QED
  BY <1>1, <1>2, <1>3, <1>4 DEF t

LEMMA RenderedForRows ==
    ASSUME Paper!ReportsAssumption, Numbered, NEW r, NEW g, UNION g \subseteq Word
    PROVE  \A t \in Paper!Rendered(r, g) :
             \/ \E id \in Word : t = Paper!Token("C", id, Paper!ClaimsOf(r))
             \/ \E id \in Word : t = Paper!Token("S", id, Paper!SourcesOf(r))
<1> DEFINE all == UNION g
           doubted == {c \in Paper!ClaimsOf(r) : claim[c].status = "DISPUTED"}
<1>1. /\ Paper!ClaimsOf(r) \subseteq Word /\ Paper!SourcesOf(r) \subseteq Word /\ Unknown \in Word
      /\ \A c \in Paper!ClaimsOf(r) : claim[c].source \in Word
  BY RowsOfRun DEF Paper!ReportsAssumption, Word
<1>2. all \subseteq Word /\ doubted \subseteq Word
  BY <1>1
<1>3. \A cited : Paper!SourceOf(cited, r) \in Word
  BY <1>1 DEF Paper!SourceOf
<1>4. Paper!Rendered(r, g) = {Paper!Token("C", cited, Paper!ClaimsOf(r)) : cited \in all \cup doubted}
                       \cup {Paper!Token("S", Paper!SourceOf(cited, r), Paper!SourcesOf(r)) : cited \in all \cup doubted}
                       \cup {Paper!Token("S", s, Paper!SourcesOf(r)) : s \in Paper!SourcesOf(r)}
  BY DEF Paper!Rendered
<1> HIDE DEF all, doubted
<1>5. QED
  BY <1>1, <1>2, <1>3, <1>4

\* The findings of a run with claims cite something that resolves.
LEMMA GroundedCite ==
    ASSUME Paper!ReportsAssumption, Numbered, NEW r, NEW drafts \in SUBSET Drafts,
           NEW first \in Paper!Firsts(r), Paper!ClaimsOf(r) # {}
    PROVE  /\ UNION Paper!GroundedFindings(drafts, r, first) \subseteq Word
           /\ \E id \in UNION Paper!GroundedFindings(drafts, r, first) : Paper!Resolve(id, Paper!ClaimsOf(r)) # Paper!NoId
<1> DEFINE grounded == {f \in drafts : Paper!IsGrounded(f, r)}
<1>1. Paper!ClaimsOf(r) \subseteq Word /\ IsFiniteSet(Paper!ClaimsOf(r)) /\ Paper!NoId \notin Paper!ClaimsOf(r)
  BY RowsOfRun
<1>2. \A f \in drafts : f \subseteq Word
  BY DEF Paper!ReportsAssumption, Word
<1>3. CASE grounded = {}
  <2>1. Paper!GroundedFindings(drafts, r, first) = {{c} : c \in first}
    BY <1>3 DEF Paper!GroundedFindings
  <2>2. first \subseteq Paper!ClaimsOf(r)
    BY DEF Paper!Firsts
  <2>3. first # {}
    <3>1. Cardinality(Paper!ClaimsOf(r)) \in Nat /\ Cardinality(Paper!ClaimsOf(r)) # 0
      BY <1>1, FS_EmptySet, FS_CardinalityType
    <3>2. Cardinality(first) # 0
      BY <3>1, SameCounts DEF Paper!Firsts, Paper!ReportsAssumption
    <3>3. QED
      BY <3>2, FS_EmptySet
  <2>4. PICK c : c \in first
    BY <2>3
  <2>5. c \in UNION {{d} : d \in first} /\ Paper!Resolve(c, Paper!ClaimsOf(r)) = c
    BY <2>2, <2>4 DEF Paper!Resolve
  <2>6. UNION {{d} : d \in first} \subseteq Word
    BY <1>1, <2>2
  <2>7. QED
    BY <1>1, <2>1, <2>2, <2>4, <2>5, <2>6
<1>4. CASE grounded # {}
  <2>1. Paper!GroundedFindings(drafts, r, first) = grounded
    BY <1>4 DEF Paper!GroundedFindings
  <2>2. PICK f \in drafts : Paper!IsGrounded(f, r)
    BY <1>4
  <2>3. PICK id \in f : Paper!Resolve(id, Paper!ClaimsOf(r)) # Paper!NoId
    BY <2>2 DEF Paper!IsGrounded
  <2>4. f \in grounded /\ id \in UNION grounded
    BY <2>2, <2>3
  <2>5. UNION grounded \subseteq Word
    BY <1>2
  <2>6. QED
    BY <2>1, <2>3, <2>4, <2>5
<1>5. QED
  BY <1>3, <1>4

\* What a report of r says when it is made.
LEMMA MadeReport ==
    ASSUME Paper!ReportsAssumption, Numbered, NEW r, NEW g, UNION g \subseteq Word,
           Paper!ClaimsOf(r) # {} => \E id \in UNION g : Paper!Resolve(id, Paper!ClaimsOf(r)) # Paper!NoId,
           NEW prose \in SUBSET Prose, NEW rep,
           rep.tokens = Paper!Validated(Paper!Rendered(r, g) \cup Paper!Written(r, prose, FALSE),
                                        Paper!ClaimsOf(r), Paper!SourcesOf(r)),
           rep.left = Paper!Written(r, prose, TRUE), rep.cited = UNION g, rep.claims = Paper!ClaimsOf(r), rep.sources = Paper!SourcesOf(r)
    PROVE  /\ NamesRows(rep) /\ CitesSome(rep) /\ StandsForRows(rep)
           /\ \A t \in rep.tokens : Abbreviates(t)
<1> DEFINE C(id) == Paper!Token("C", id, Paper!ClaimsOf(r))
           S(id) == Paper!Token("S", id, Paper!SourcesOf(r))
           of(t) == IF t.kind = "C" THEN rep.claims ELSE rep.sources
           doubted == {c \in Paper!ClaimsOf(r) : claim[c].status = "DISPUTED"}
<1>1. /\ Paper!ClaimsOf(r) \subseteq ClaimIds /\ Paper!SourcesOf(r) \subseteq SourceIds
      /\ Paper!ClaimsOf(r) \subseteq Word /\ Paper!SourcesOf(r) \subseteq Word
      /\ IsFiniteSet(Paper!ClaimsOf(r)) /\ IsFiniteSet(Paper!SourcesOf(r))
      /\ Paper!NoId \notin Paper!ClaimsOf(r) /\ Paper!NoId \notin Paper!SourcesOf(r)
  BY RowsOfRun
<1>2. ASSUME NEW id \in Word
      PROVE  /\ C(id).kind = "C" /\ C(id).meant = Paper!Resolve(id, Paper!ClaimsOf(r))
             /\ Paper!Resolve(C(id).text, Paper!ClaimsOf(r)) = C(id).meant
             /\ C(id).text \in Word /\ C(id).meant \in Paper!ClaimsOf(r) \cup {Paper!NoId}
             /\ C(id).meant \in Paper!ClaimsOf(r) => Paper!IsPrefix(C(id).text, C(id).meant)
  BY <1>1, TokenSays
<1>3. ASSUME NEW id \in Word
      PROVE  /\ S(id).kind = "S" /\ S(id).meant = Paper!Resolve(id, Paper!SourcesOf(r))
             /\ Paper!Resolve(S(id).text, Paper!SourcesOf(r)) = S(id).meant
             /\ S(id).text \in Word /\ S(id).meant \in Paper!SourcesOf(r) \cup {Paper!NoId}
             /\ S(id).meant \in Paper!SourcesOf(r) => Paper!IsPrefix(S(id).text, S(id).meant)
  BY <1>1, TokenSays
<1> DEFINE Wrote(t) == /\ t.kind \in {"C", "S"} /\ t.text \in Word
                       /\ t.meant = Paper!Resolve(t.text, of(t))
<1>4. ASSUME NEW left, NEW t \in Paper!Written(r, prose, left)
       PROVE  Wrote(t)
  <2>1. PICK p \in prose : t = [kind |-> p.kind, text |-> p.text,
                               meant |-> Paper!Resolve(p.text, IF p.kind = "C" THEN Paper!ClaimsOf(r)
                                                                 ELSE Paper!SourcesOf(r))]
    BY <1>4 DEF Paper!Written
  <2>2. p.kind \in {"C", "S"} /\ p.text \in Word
    BY DEF Paper!ReportsAssumption, Word
  <2>3. /\ t.kind = p.kind /\ t.text = p.text
        /\ t.meant = Paper!Resolve(p.text, IF p.kind = "C" THEN Paper!ClaimsOf(r) ELSE Paper!SourcesOf(r))
    BY <2>1
  <2>4. QED
    BY <2>2, <2>3
<1>5. \A t \in rep.tokens :
        /\ (\E id \in Word : t = C(id)) \/ (\E id \in Word : t = S(id)) \/ Wrote(t)
        /\ Paper!Resolve(t.text, of(t)) # Paper!NoId
  BY <1>4, RenderedForRows DEF Paper!Validated
<1>6. /\ \A id \in UNION g : C(id) \in Paper!Rendered(r, g)
      /\ \A s \in Paper!SourcesOf(r) : S(s) \in Paper!Rendered(r, g)
  BY DEF Paper!Rendered
<1>7. \A t \in Paper!Rendered(r, g) : Paper!Resolve(t.text, of(t)) # Paper!NoId => t \in rep.tokens
  BY DEF Paper!Validated
<1> HIDE DEF C, S
<1>8. ASSUME NEW t \in rep.tokens
      PROVE  /\ t.meant # Paper!NoId /\ Paper!Resolve(t.text, of(t)) = t.meant
             /\ t.text \in Word /\ Paper!IsPrefix(t.text, t.meant)
  <2>1. CASE \E id \in Word : t = C(id)
    BY <1>2, <1>5, <2>1
  <2>2. CASE \E id \in Word : t = S(id)
    BY <1>3, <1>5, <2>2
  <2>3. CASE Wrote(t)
    BY <1>1, <1>5, <2>3, ResolvesToMatch
  <2>4. QED
    BY <1>5, <2>1, <2>2, <2>3
<1>9. ASSUME NEW id \in UNION g, Paper!Resolve(id, Paper!ClaimsOf(r)) # Paper!NoId
      PROVE  C(id) \in rep.tokens /\ C(id).kind = "C" /\ C(id).meant = Paper!Resolve(id, Paper!ClaimsOf(r))
  BY <1>2, <1>6, <1>7, <1>9
<1>10. \A c \in rep.cited \cap rep.claims : \E t \in rep.tokens : t.kind = "C" /\ t.meant = c
  <2> SUFFICES ASSUME NEW c \in rep.cited \cap rep.claims
               PROVE  \E t \in rep.tokens : t.kind = "C" /\ t.meant = c
    OBVIOUS
  <2>1. Paper!Resolve(c, Paper!ClaimsOf(r)) = c
    BY DEF Paper!Resolve
  <2>2. QED
    BY <1>1, <1>9, <2>1
<1>11. NamesRows(rep)
  BY <1>8, <1>10 DEF NamesRows
<1>12. rep.claims # {} => \E t \in rep.tokens : t.kind = "C"
  BY <1>9
<1>13. ASSUME NEW s \in Paper!SourcesOf(r)
       PROVE  S(s) \in rep.tokens /\ S(s).kind = "S"
  <2>1. Paper!Resolve(s, Paper!SourcesOf(r)) = s
    BY DEF Paper!Resolve
  <2>2. QED
    BY <1>1, <1>3, <1>6, <1>7, <2>1
<1>14. CitesSome(rep)
  BY <1>12, <1>13 DEF CitesSome
<1>15. \A t \in rep.tokens : Abbreviates(t)
  BY <1>8 DEF Abbreviates
<1>16. StandsForRows(rep)
  BY <1>4 DEF StandsForRows
<1>17. QED
  BY <1>11, <1>14, <1>15, <1>16

LEMMA SynthesizeStep ==
    ASSUME Paper!ReportsAssumption, CitationInv, NEW r \in Runs, NEW drafts \in SUBSET Drafts,
           NEW prose \in SUBSET Prose, Paper!Synthesize(r, drafts, prose)
    PROVE  CitationInv'
<1>1. Numbered
  BY DEF CitationInv
<1>2. PICK first \in Paper!Firsts(r) :
        LET grounded == IF Paper!ClaimsOf(r) = {} THEN {} ELSE Paper!GroundedFindings(drafts, r, first)
            unverified == IF Paper!ClaimsOf(r) = {} THEN {} ELSE {f \in drafts : ~Paper!IsGrounded(f, r)}
            tokens == Paper!Validated(Paper!Rendered(r, grounded) \union Paper!Written(r, prose, FALSE),
                                      Paper!ClaimsOf(r), Paper!SourcesOf(r))
        IN  /\ report' = [report EXCEPT ![r] = [made |-> TRUE, tokens |-> tokens,
                                left |-> Paper!Written(r, prose, TRUE), cited |-> UNION grounded,
                                claims |-> Paper!ClaimsOf(r), sources |-> Paper!SourcesOf(r)]]
            /\ finding' = [finding EXCEPT ![r] = grounded \union unverified]
            /\ printed' = printed \union tokens
  BY DEF Paper!Synthesize
<1> DEFINE g == IF Paper!ClaimsOf(r) = {} THEN {} ELSE Paper!GroundedFindings(drafts, r, first)
           unverified == IF Paper!ClaimsOf(r) = {} THEN {} ELSE {f \in drafts : ~Paper!IsGrounded(f, r)}
           tokens == Paper!Validated(Paper!Rendered(r, g) \union Paper!Written(r, prose, FALSE),
                                     Paper!ClaimsOf(r), Paper!SourcesOf(r))
           rep == [made |-> TRUE, tokens |-> tokens, left |-> Paper!Written(r, prose, TRUE),
                   cited |-> UNION g,
                   claims |-> Paper!ClaimsOf(r), sources |-> Paper!SourcesOf(r)]
<1>3. /\ report' = [report EXCEPT ![r] = rep]
      /\ finding' = [finding EXCEPT ![r] = g \cup unverified]
      /\ printed' = printed \cup tokens
      /\ UNCHANGED <<claim, source>>
  BY <1>2 DEF Paper!Synthesize
<1>4. /\ UNION g \subseteq Word
      /\ Paper!ClaimsOf(r) # {} => \E id \in UNION g : Paper!Resolve(id, Paper!ClaimsOf(r)) # Paper!NoId
  BY <1>1, GroundedCite
<1>5. UNION unverified \subseteq Word
  BY DEF Paper!ReportsAssumption, Word
<1>6. /\ rep.tokens = tokens /\ rep.left = Paper!Written(r, prose, TRUE) /\ rep.cited = UNION g
      /\ rep.claims = Paper!ClaimsOf(r) /\ rep.sources = Paper!SourcesOf(r)
  OBVIOUS
<1>7. tokens = Paper!Validated(Paper!Rendered(r, g) \cup Paper!Written(r, prose, FALSE),
                               Paper!ClaimsOf(r), Paper!SourcesOf(r))
  OBVIOUS
<1> HIDE DEF g, unverified, tokens, rep
<1>8. /\ NamesRows(rep) /\ CitesSome(rep) /\ StandsForRows(rep)
      /\ \A t \in tokens : Abbreviates(t)
  BY <1>1, <1>4, <1>6, <1>7, MadeReport
<1>9. Numbered'
  <2>1. \A q \in Runs : UNION finding'[q] \subseteq Word
    BY <1>1, <1>3, <1>4, <1>5 DEF Numbered
  <2>2. QED
    BY <1>1, <1>3, <2>1 DEF Numbered
<1>10. \A q \in Runs : report'[q].made =>
          NamesRows(report'[q]) /\ CitesSome(report'[q]) /\ StandsForRows(report'[q])
  BY <1>1, <1>3, <1>8 DEF CitationInv, Numbered
<1>11. \A t \in printed' : Abbreviates(t)
  BY <1>3, <1>8 DEF CitationInv
<1>12. QED
  BY <1>9, <1>10, <1>11 DEF CitationInv

LEMMA ExportStep ==
    ASSUME Paper!ReportsAssumption, CitationInv, NEW r \in Runs, NEW hits, Paper!Export(r, hits)
    PROVE  CitationInv'
<1> DEFINE all == UNION finding[r]
           C(id) == [Paper!Token("C", id, all) EXCEPT !.meant = Paper!Resolve(id, Paper!ClaimsOf(r))]
<1>1. /\ Numbered /\ all \subseteq Word /\ hits \subseteq Paper!SourcesOf(r)
      /\ printed' = printed \cup {C(id) : id \in all} \cup {Paper!Token("S", s, hits) : s \in hits}
      /\ UNCHANGED <<claim, source, report, finding>>
  BY DEF CitationInv, Numbered, Paper!Export
<1>2. /\ Paper!ClaimsOf(r) \subseteq Word /\ IsFiniteSet(Paper!ClaimsOf(r)) /\ Paper!NoId \notin Paper!ClaimsOf(r)
      /\ hits \subseteq Word /\ IsFiniteSet(hits) /\ Paper!NoId \notin hits
      /\ Paper!NoId \notin ClaimIds \cup SourceIds
  BY <1>1, RowsOfRun, FS_Subset DEF Paper!ReportsAssumption, Paper!NoId
<1>3. ASSUME NEW id \in all
      PROVE  Abbreviates(C(id))
  <2>1. C(id).text = Paper!Format(id, all) /\ C(id).meant = Paper!Resolve(id, Paper!ClaimsOf(r)) /\ id \in Word
    BY <1>1 DEF Paper!Token
  <2> HIDE DEF C, all
  <2>2. C(id).text \in Word /\ Paper!IsPrefix(C(id).text, id)
    BY <2>1, FormatBegins DEF Paper!ReportsAssumption
  <2>3. CASE C(id).meant = Paper!NoId
    BY <1>2, <2>2, <2>3 DEF Abbreviates
  <2>4. CASE C(id).meant \in Paper!ClaimsOf(r) /\ Paper!IsPrefix(id, C(id).meant)
    BY <1>2, <2>1, <2>2, <2>4, PrefixOrder DEF Abbreviates
  <2>5. QED
    BY <1>2, <2>1, <2>3, <2>4, ResolvesToMatch
<1>4. ASSUME NEW s \in hits
      PROVE  Abbreviates(Paper!Token("S", s, hits))
  <2> DEFINE t == Paper!Token("S", s, hits)
  <2>1. t.text \in Word /\ t.meant \in hits \cup {Paper!NoId} /\ (t.meant \in hits => Paper!IsPrefix(t.text, t.meant))
    BY <1>2, TokenSays
  <2> HIDE DEF t
  <2>2. Abbreviates(t)
    BY <1>2, <2>1 DEF Abbreviates
  <2>3. QED
    BY <2>2 DEF t
<1> HIDE DEF C, all
<1>5. \A t \in printed' : Abbreviates(t)
  BY <1>1, <1>3, <1>4 DEF CitationInv
<1>6. QED
  BY <1>1, <1>5 DEF CitationInv, Numbered

LEMMA CitationsStep == Paper!ReportsAssumption /\ CitationInv /\ [Paper!Next]_(Paper!reportVars) => CitationInv'
<1> SUFFICES ASSUME Paper!ReportsAssumption, CitationInv, [Paper!Next]_(Paper!reportVars)
             PROVE  CitationInv'
  OBVIOUS
<1>1. CASE UNCHANGED Paper!reportVars
  BY <1>1 DEF Paper!reportVars, CitationInv, Numbered
<1>2. ASSUME Numbered', UNCHANGED <<report, printed>>
      PROVE  CitationInv'
  BY <1>2 DEF CitationInv
<1>3. ASSUME NEW r \in Runs, NEW s \in SourceIds, Paper!StoreSource(r, s)
      PROVE  CitationInv'
  BY <1>2, <1>3 DEF Paper!StoreSource, CitationInv, Numbered
<1>4. ASSUME NEW r \in Runs, NEW c \in ClaimIds, NEW s \in SourceIds, Paper!StoreClaim(r, c, s)
      PROVE  CitationInv'
  <2> DEFINE x == [run |-> r, source |-> s, status |-> "ACTIVE"]
  <2>1. x \in Rows
    BY DEF Rows
  <2>2. claim' = [claim EXCEPT ![c] = x] /\ UNCHANGED <<source, report, finding, printed>>
    BY <1>4 DEF Paper!StoreClaim
  <2> HIDE DEF x
  <2>3. QED
    BY <1>2, <2>1, <2>2 DEF CitationInv, Numbered
<1>5. ASSUME NEW c \in ClaimIds, Paper!Dispute(c)
      PROVE  CitationInv'
  <2> DEFINE x == [claim[c] EXCEPT !.status = "DISPUTED"]
  <2>1. claim[c] \in Rows
    BY <1>5 DEF Paper!Dispute, Paper!Claims, CitationInv, Numbered
  <2>2. x \in Rows
    BY <2>1 DEF Rows
  <2>3. claim' = [claim EXCEPT ![c] = x] /\ UNCHANGED <<source, report, finding, printed>>
    BY <1>5 DEF Paper!Dispute, CitationInv, Numbered
  <2> HIDE DEF x
  <2>4. QED
    BY <1>2, <2>2, <2>3 DEF CitationInv, Numbered
<1>6. ASSUME NEW r \in Runs, Paper!Purge(r)
      PROVE  CitationInv'
  <2>1. claim' = [c \in ClaimIds |-> IF c \in Paper!ClaimsOf(r) THEN Paper!Purged ELSE claim[c]]
    BY <1>6 DEF Paper!Purge
  <2>2. claim' \in [ClaimIds -> {Paper!NoRow, Paper!Purged} \cup Rows]
    BY <2>1 DEF CitationInv, Numbered
  <2>3. \A q \in Runs : UNION finding'[q] \subseteq Word
    BY <1>6 DEF Paper!Purge, CitationInv, Numbered
  <2>4. QED
    BY <1>2, <1>6, <2>2, <2>3 DEF Paper!Purge, CitationInv, Numbered
<1>7. QED
  BY <1>1, <1>3, <1>4, <1>5, <1>6, SynthesizeStep, ExportStep DEF Paper!Next

\* What is printed opens its row or nothing.
LEMMA OpensItsRow ==
    ASSUME Paper!ReportsAssumption, NEW token \in Word, NEW table, NEW of \in {ClaimIds, SourceIds},
           table \subseteq of, NEW meant \in table, Paper!IsPrefix(token, meant)
    PROVE  Paper!Resolve(token, table) \in {meant, Paper!NoId}
<1> DEFINE matches == {v \in table : Paper!IsPrefix(token, v)}
<1>1. IsFiniteSet(matches)
  BY FS_Subset, SameCounts DEF Paper!ReportsAssumption
<1>2. CASE token \in table
  BY <1>2 DEF Paper!Resolve, Paper!ReportsAssumption
<1>3. CASE token \notin table /\ Cardinality(matches) = 1
  <2>1. PICK x : matches = {x}
    BY <1>1, <1>3, One
  <2>2. meant \in matches
    OBVIOUS
  <2>3. (CHOOSE v \in matches : TRUE) = meant
    BY <2>1, <2>2
  <2>4. QED
    BY <1>3, <2>3, SameCounts DEF Paper!Resolve
<1>4. CASE token \notin table /\ Cardinality(matches) # 1
  BY <1>4, SameCounts DEF Paper!Resolve
<1>5. QED
  BY <1>2, <1>3, <1>4

\* Every citation of a report names a row of its run, the gate objects to nothing but tokens
\* its prose keeps and that name no row, and a token opens the row that was cited or none, for
\* any runs, drafts, prose and lengths of tokens, and any identifiers of which none begins
\* another (report.py:69, report_gate.py:37, web/routes.py:426).
THEOREM CitationsOpen == Paper!Spec => []CitationsHold
<1>1. Paper!ReportsAssumption
  BY ExecutionAssumption
<1>2. CitationInv /\ [Paper!Next]_(Paper!reportVars) => CitationInv'
  BY <1>1, CitationsStep
<1>3. ASSUME CitationInv
      PROVE  CitationsHold
  <2>1. Paper!CitationsNameTheirRows
    BY <1>3 DEF CitationInv, NamesRows, Paper!CitationsNameTheirRows
  <2>2. ASSUME NEW rep, NamesRows(rep), CitesSome(rep), StandsForRows(rep),
               rep.claims # {}, rep.sources # {}
        PROVE  Paper!GateReasons(rep) =
                    IF \E t \in rep.left : t.meant = Paper!NoId THEN {"dangling"} ELSE {}
    <3> DEFINE resolved(kind, ids) ==
                  {Paper!Resolve(t.text, ids) : t \in {x \in rep.tokens \cup rep.left : x.kind = kind}}
               missing(kind, ids) == Paper!NoId \in resolved(kind, ids)
               stray == \E t \in rep.left : t.meant = Paper!NoId
    <3>1. /\ \A t \in rep.tokens :
              /\ t.kind = "C" => Paper!Resolve(t.text, rep.claims) # Paper!NoId
              /\ t.kind = "S" => Paper!Resolve(t.text, rep.sources) # Paper!NoId
          /\ \A t \in rep.left :
              /\ t.kind = "C" => Paper!Resolve(t.text, rep.claims) = t.meant
              /\ t.kind = "S" => Paper!Resolve(t.text, rep.sources) = t.meant
              /\ t.kind \in {"C", "S"}
      BY <2>2 DEF NamesRows, StandsForRows
    <3>2. stray <=> missing("S", rep.sources) \/ missing("C", rep.claims)
      BY <3>1
    <3>3. resolved("C", rep.claims) \ {Paper!NoId} # {}
      BY <2>2, <3>1 DEF CitesSome
    <3>4. resolved("S", rep.sources) \ {Paper!NoId} # {}
      BY <2>2, <3>1 DEF CitesSome
    <3>5. Paper!GateReasons(rep) =
            (IF rep.sources = {} THEN {"sources"} ELSE {})
            \cup (IF missing("S", rep.sources) \/ missing("C", rep.claims) THEN {"dangling"} ELSE {})
            \cup (IF rep.sources # {} /\ resolved("S", rep.sources) \ {Paper!NoId} = {}
                  THEN {"no source cited"} ELSE {})
            \cup (IF rep.claims # {} /\ resolved("C", rep.claims) \ {Paper!NoId} = {}
                  THEN {"no claim cited"} ELSE {})
      BY DEF Paper!GateReasons
    <3>6. (\E t \in rep.left : t.meant = Paper!NoId) <=> stray
      OBVIOUS
    <3> HIDE DEF resolved, missing, stray
    <3>7. QED
      BY <2>2, <3>2, <3>3, <3>4, <3>5, <3>6
  <2>3. Paper!ReportPassesGate
    BY <1>3, <2>2 DEF CitationInv, Paper!ReportPassesGate
  <2>4. Paper!TokensOpenTheirRow
    <3> SUFFICES ASSUME NEW t \in printed, t.meant \in (IF t.kind = "C" THEN Paper!Claims ELSE Paper!Sources)
                 PROVE  Paper!Opened(t) \in {t.meant, Paper!NoId}
      BY DEF Paper!TokensOpenTheirRow
    <3>1. Paper!Claims \subseteq ClaimIds /\ Paper!Sources \subseteq SourceIds
      BY DEF Paper!Claims, Paper!Sources
    <3>2. t.text \in Word /\ Paper!IsPrefix(t.text, t.meant)
      BY <1>3, <3>1 DEF CitationInv, Abbreviates
    <3>3. CASE t.kind = "C"
      BY <1>1, <3>1, <3>2, <3>3, OpensItsRow DEF Paper!Opened
    <3>4. CASE t.kind # "C"
      BY <1>1, <3>1, <3>2, <3>4, OpensItsRow DEF Paper!Opened
    <3>5. QED
      BY <3>3, <3>4
  <2>5. QED
    BY <2>1, <2>3, <2>4 DEF CitationsHold, Paper!CitationsHold
<1>4. QED
  BY <1>2, <1>3, CitationsStart, PTL DEF Paper!Spec
-----------------------------------------------------------------------------
(* The primitives of the library *)

\* The reservations are what is held, and a ledger beyond its ceiling has told someone.
LedgerInv ==
    /\ ledger \in [cost : Nat, reserved : Nat]
    /\ held \in [Tasks -> 0 .. Most]
    /\ ledger.reserved = Cardinality(Tools!Outstanding)
    /\ ledger.cost > MaxCost => exceeded # {}

\* Versions are kept in their order, and the latest is one of them.
SavedInv ==
    /\ saved = [history |-> saved.history, latest |-> saved.latest]
    /\ saved.history \in Seq([version : Nat, phase : Phases])
    /\ Tools!LatestIsKept

\* A key's history is within its limit, and what it has lost is older than the window.
Remembers(k) ==
    /\ logs[k] \subseteq DOMAIN grants[k] /\ Cardinality(logs[k]) <= Limit
    /\ k \notin dropped => \A i \in DOMAIN grants[k] : grants[k][i] > clock - Window => i \in logs[k]

GrantsSince(k, at) == {i \in DOMAIN grants[k] : grants[k][i] > at}

\* What a key was granted and what is left in its bucket stay together below the capacity
\* and the refill until the bucket was last looked at.
Filled(k) ==
    /\ buckets[k] \in [tokens : 0 .. Limit, at : Nat] /\ buckets[k].at <= clock
    /\ k \notin dropped =>
         /\ \A i \in DOMAIN grants[k] : grants[k][i] <= buckets[k].at
         /\ \A at \in Int : at < buckets[k].at =>
              Cardinality(GrantsSince(k, at)) + buckets[k].tokens <= Limit + (buckets[k].at - at - 1)

LimitsInv ==
    /\ clock \in Nat
    /\ grants \in [Keys -> Seq(Nat)]
    /\ tool = "window" => logs = [k \in Keys |-> logs[k]] /\ \A k \in Keys : Remembers(k)
    /\ tool = "bucket" => buckets = [k \in Keys |-> buckets[k]] /\ \A k \in Keys : Filled(k)

ToolsInv == LedgerInv /\ SavedInv /\ LimitsInv

LEMMA ToolCounts ==
    \A S : Tools!Cardinality(S) = Cardinality(S) /\ (Tools!IsFiniteSet(S) <=> IsFiniteSet(S))
  BY DEF Tools!Cardinality, Cardinality, Tools!IsFiniteSet, IsFiniteSet

LEMMA ToolParameters ==
    /\ IsFiniteSet(Tasks) /\ IsFiniteSet(Keys)
    /\ {MaxCost, Most, Versions, Horizon, Retries} \subseteq Nat
    /\ {Kept, MaxKeys, Limit, Window, Threshold, Successes, Slots} \subseteq Nat \ {0}
  BY ExecutionAssumption, ToolCounts DEF Tools!LibraryAssumption

LEMMA OutstandingFinite == IsFiniteSet(Tools!Outstanding)
<1>1. IsFiniteSet(1 .. Most)
  BY ToolParameters, FS_Interval
<1>2. IsFiniteSet(Tasks \X (1 .. Most))
  BY <1>1, ToolParameters, FS_Product
<1>3. QED
  BY <1>2, FS_Subset DEF Tools!Outstanding

\* What one caller holds, dollar by dollar.
Dollars(t, n) == {t} \X (1 .. n)

LEMMA DollarsCount ==
    ASSUME NEW t, NEW n \in Nat
    PROVE  IsFiniteSet(Dollars(t, n)) /\ Cardinality(Dollars(t, n)) = n
<1>1. IsFiniteSet({t}) /\ Cardinality({t}) = 1
  BY FS_Singleton
<1>2. IsFiniteSet(1 .. n) /\ Cardinality(1 .. n) = n
  BY FS_Interval
<1>3. IsFiniteSet({t} \X (1 .. n)) /\ Cardinality({t} \X (1 .. n)) = Cardinality({t}) * Cardinality(1 .. n)
  BY <1>1, <1>2, FS_Product, Zenon
<1>4. 1 * n = n
  OBVIOUS
<1>5. QED
  BY <1>1, <1>2, <1>3, <1>4 DEF Dollars

\* The reservation of one caller comes to the others' or goes.
LEMMA HoldingChanges ==
    ASSUME held \in [Tasks -> 0 .. Most], NEW t \in Tasks, NEW n \in 0 .. Most,
           held' = [held EXCEPT ![t] = n]
    PROVE  Cardinality(Tools!Outstanding') + held[t] = Cardinality(Tools!Outstanding) + n
<1> DEFINE rest == {d \in Tasks \X (1 .. Most) : d[1] # t /\ d[2] <= held[d[1]]}
<1>1. /\ held[t] \in Nat /\ held[t] <= Most /\ n \in Nat /\ n <= Most /\ Most \in Nat
  BY ToolParameters
<1>2. Tools!Outstanding = rest \cup Dollars(t, held[t])
  BY <1>1 DEF Tools!Outstanding, Dollars
<1>3. Tools!Outstanding' = rest \cup Dollars(t, n)
  BY <1>1 DEF Tools!Outstanding, Dollars
<1>4. IsFiniteSet(rest)
  <2>1. rest \subseteq Tools!Outstanding
    BY DEF Tools!Outstanding
  <2>2. QED
    BY <2>1, OutstandingFinite, FS_Subset
<1>5. ASSUME NEW m \in Nat
      PROVE  Cardinality(rest \cup Dollars(t, m)) = Cardinality(rest) + m
  <2>1. rest \cap Dollars(t, m) = {}
    BY DEF Dollars
  <2>2. Cardinality(rest \cap Dollars(t, m)) = 0
    BY <2>1, FS_EmptySet
  <2>3. Cardinality(rest) \in Nat
    BY <1>4, FS_CardinalityType
  <2>4. IsFiniteSet(Dollars(t, m)) /\ Cardinality(Dollars(t, m)) = m
    BY DollarsCount
  <2> HIDE DEF rest
  <2>5. Cardinality(rest \cup Dollars(t, m))
          = Cardinality(rest) + Cardinality(Dollars(t, m)) - Cardinality(rest \cap Dollars(t, m))
    BY <1>4, <2>4, FS_Union
  <2>6. QED
    BY <2>2, <2>3, <2>4, <2>5
<1> HIDE DEF rest
<1>6. Cardinality(rest) \in Nat
  BY <1>4, FS_CardinalityType
<1>7. QED
  BY <1>1, <1>2, <1>3, <1>5, <1>6

LEMMA LedgerStart ==
    ASSUME Tools!Init
    PROVE  LedgerInv
<1>1. /\ ledger = [cost |-> 0, reserved |-> 0]
      /\ held = [t \in Tasks |-> 0]
  BY DEF Tools!Init
<1>2. Tools!Outstanding = {}
  BY <1>1, ToolParameters DEF Tools!Outstanding
<1>3. Cardinality(Tools!Outstanding) = 0
  BY <1>2, FS_EmptySet
<1>4. QED
  BY <1>1, <1>3, ToolParameters DEF LedgerInv

LEMMA LedgerKept ==
    ASSUME LedgerInv, UNCHANGED Tools!ledgerVars
    PROVE  LedgerInv'
<1>1. Tools!Outstanding' = Tools!Outstanding
  BY DEF Tools!Outstanding, Tools!ledgerVars
<1>2. QED
  BY <1>1 DEF LedgerInv, Tools!ledgerVars

LEMMA LedgerKeeps ==
    ASSUME LedgerInv, Tools!LedgerStep
    PROVE  LedgerInv'
<1>0. /\ ledger.cost \in Nat /\ ledger.reserved \in Nat /\ {Most, MaxCost} \subseteq Nat
      /\ ledger.reserved = Cardinality(Tools!Outstanding)
      /\ \A t \in Tasks : held[t] \in Nat /\ held[t] <= Most
  BY ToolParameters DEF LedgerInv
<1> DEFINE grid == Tasks \X (1 .. Most)
<1>11. IsFiniteSet(1 .. Most)
  BY <1>0, FS_Interval
<1>12. IsFiniteSet(grid)
  BY <1>11, ToolParameters, FS_Product
<1>13. Tools!Outstanding' \subseteq grid
  BY DEF Tools!Outstanding
<1> HIDE DEF grid
<1>1. Cardinality(Tools!Outstanding') \in Nat
  BY <1>12, <1>13, FS_Subset, FS_CardinalityType
<1>10. held \in [Tasks -> 0 .. Most]
  BY DEF LedgerInv
<1>14. ASSUME NEW t \in Tasks, NEW n \in 0 .. Most, held' = [held EXCEPT ![t] = n]
      PROVE  Cardinality(Tools!Outstanding') + held[t] = ledger.reserved + n
  <2>1. Cardinality(Tools!Outstanding') + held[t] = Cardinality(Tools!Outstanding) + n
    BY <1>10, <1>14, HoldingChanges
  <2>2. QED
    BY <1>0, <2>1
<1>15. 0 \in 0 .. Most
  BY <1>0
<1>2. ASSUME NEW t \in Tasks, NEW usd \in 1 .. Most, Tools!Reserve(t, usd)
      PROVE  LedgerInv'
  <2>1. CASE ledger.cost + ledger.reserved + usd > MaxCost
    <3>1. Tools!Outstanding' = Tools!Outstanding
      BY <1>2, <2>1 DEF Tools!Reserve, Tools!Outstanding
    <3>2. QED
      BY <1>2, <2>1, <3>1 DEF LedgerInv, Tools!Reserve
  <2>2. CASE ~(ledger.cost + ledger.reserved + usd > MaxCost)
    <3>1. /\ ledger' = [ledger EXCEPT !.reserved = @ + usd]
          /\ held' = [held EXCEPT ![t] = usd] /\ held[t] = 0 /\ exceeded' = exceeded
      BY <1>2, <2>2 DEF Tools!Reserve
    <3>2. usd \in 0 .. Most /\ usd \in Nat
      BY <1>0
    <3>3. Cardinality(Tools!Outstanding') + held[t] = ledger.reserved + usd
      BY <1>14, <3>1, <3>2
    <3>4. Cardinality(Tools!Outstanding') = ledger.reserved + usd
      BY <1>0, <1>1, <3>1, <3>2, <3>3
    <3>5. held' \in [Tasks -> 0 .. Most]
      BY <1>10, <3>1, <3>2
    <3>6. QED
      BY <1>0, <3>1, <3>2, <3>4, <3>5 DEF LedgerInv
  <2>3. QED
    BY <2>1, <2>2
<1>3. ASSUME NEW t \in Tasks, NEW usd \in 1 .. Most, Tools!Charge(t, usd)
      PROVE  LedgerInv'
  <2>1. Tools!Outstanding' = Tools!Outstanding
    BY <1>3 DEF Tools!Charge, Tools!Outstanding
  <2>2. QED
    BY <1>0, <1>3, <2>1 DEF LedgerInv, Tools!Charge
<1>4. ASSUME NEW t \in Tasks, NEW usd \in 0 .. Most + 1, Tools!Commit(t, usd)
      PROVE  LedgerInv'
  <2>1. /\ ledger' = [cost |-> ledger.cost + usd, reserved |-> ledger.reserved - held[t]]
        /\ held' = [held EXCEPT ![t] = 0]
        /\ ledger'.cost > MaxCost => exceeded' # {}
        /\ usd \in Nat
    BY <1>0, <1>4 DEF Tools!Commit
  <2>2. Cardinality(Tools!Outstanding') + held[t] = ledger.reserved + 0
    BY <1>14, <1>15, <2>1
  <2>3. Cardinality(Tools!Outstanding') = ledger.reserved - held[t]
    BY <1>0, <1>1, <2>2
  <2>4. held' \in [Tasks -> 0 .. Most]
    BY <1>10, <1>15, <2>1
  <2>5. QED
    BY <1>0, <1>1, <2>1, <2>3, <2>4 DEF LedgerInv
<1>5. ASSUME NEW t \in Tasks, Tools!Rollback(t)
      PROVE  LedgerInv'
  <2>1. /\ ledger' = [ledger EXCEPT !.reserved = @ - held[t]]
        /\ held' = [held EXCEPT ![t] = 0] /\ exceeded' = exceeded
    BY <1>5 DEF Tools!Rollback
  <2>2. Cardinality(Tools!Outstanding') + held[t] = ledger.reserved + 0
    BY <1>14, <1>15, <2>1
  <2>3. Cardinality(Tools!Outstanding') = ledger.reserved - held[t]
    BY <1>0, <1>1, <2>2
  <2>4. held' \in [Tasks -> 0 .. Most]
    BY <1>10, <1>15, <2>1
  <2>5. QED
    BY <1>0, <1>1, <2>1, <2>3, <2>4 DEF LedgerInv
<1>6. QED
  BY <1>2, <1>3, <1>4, <1>5 DEF Tools!LedgerStep

LEMMA SavedStart ==
    ASSUME Tools!Init
    PROVE  SavedInv
<1>1. saved = [history |-> <<>>, latest |-> 0]
  BY DEF Tools!Init
<1>2. /\ saved.history = <<>> /\ saved.latest = 0
      /\ saved.history \in Seq([version : Nat, phase : Phases]) /\ DOMAIN saved.history = {}
  BY <1>1
<1>3. Tools!LatestIsKept
  BY <1>2 DEF Tools!LatestIsKept
<1>4. QED
  BY <1>1, <1>2, <1>3 DEF SavedInv

LEMMA SavedKept ==
    ASSUME SavedInv, UNCHANGED saved
    PROVE  SavedInv'
  BY DEF SavedInv, Tools!LatestIsKept

\* A checkpoint of a newer version than all that are kept comes last.
LEMMA CheckpointSaved ==
    ASSUME SavedInv, NEW v \in 1 .. Versions, NEW p \in Phases, Tools!Save(v, p)
    PROVE  SavedInv'
<1> DEFINE old == saved.history
           h == Append(old, [version |-> v, phase |-> p])
           Entry == [version : Nat, phase : Phases]
<1>1. old \in Seq(Entry) /\ Versions \in Nat /\ Kept \in Nat \ {0}
  BY ToolParameters DEF SavedInv
<1>2. v \in Nat /\ [version |-> v, phase |-> p] \in Entry /\ [version |-> v, phase |-> p].version = v
  BY <1>1
<1>3. \A i, j \in DOMAIN old : i < j => old[i].version < old[j].version
  BY DEF SavedInv, Tools!LatestIsKept
<1>4. Len(old) \in Nat /\ DOMAIN old = 1 .. Len(old) /\ \A i \in DOMAIN old : old[i].version \in Nat
  <2>1. Len(old) \in Nat /\ DOMAIN old = 1 .. Len(old) /\ \A i \in DOMAIN old : old[i] \in Entry
    BY <1>1, ElementOfSeq, LenProperties
  <2>2. QED
    BY <2>1
<1>5. ASSUME NEW i \in DOMAIN old
      PROVE  old[i].version < v
  <2>1. Tools!Newest = old[Len(old)].version
    <3>1. old # <<>>
      BY <1>4
    <3>2. QED
      BY <3>1 DEF Tools!Newest, Tools!Last
  <2>2. old[Len(old)].version < v
    BY <2>1 DEF Tools!Save
  <2>3. Len(old) \in DOMAIN old /\ old[Len(old)].version \in Nat /\ old[i].version \in Nat
    BY <1>4
  <2>4. CASE i = Len(old)
    BY <2>2, <2>4
  <2>5. CASE i < Len(old)
    <3>1. old[i].version < old[Len(old)].version
      BY <1>3, <2>3, <2>5
    <3>2. QED
      BY <1>2, <2>2, <2>3, <3>1
  <2>6. QED
    BY <1>4, <2>4, <2>5
<1>6. /\ h \in Seq(Entry) /\ Len(h) = Len(old) + 1 /\ DOMAIN h = 1 .. Len(old) + 1
      /\ h[Len(old) + 1].version = v
      /\ \A i \in 1 .. Len(old) : h[i] = old[i]
  BY <1>1, <1>2, <1>4
<1> HIDE DEF h, Entry
<1>7. \A i, j \in DOMAIN h : i < j => h[i].version < h[j].version
  <2> SUFFICES ASSUME NEW i \in DOMAIN h, NEW j \in DOMAIN h, i < j
               PROVE  h[i].version < h[j].version
    OBVIOUS
  <2>1. i \in DOMAIN old /\ h[i] = old[i]
    BY <1>4, <1>6
  <2>2. CASE j = Len(old) + 1
    BY <1>5, <1>6, <2>1, <2>2
  <2>3. CASE j # Len(old) + 1
    <3>1. j \in DOMAIN old /\ h[j] = old[j]
      BY <1>4, <1>6, <2>3
    <3>2. QED
      BY <1>3, <2>1, <3>1
  <2>4. QED
    BY <2>2, <2>3
<1>8. saved' = [history |-> IF Len(h) > Kept THEN Tail(h) ELSE h, latest |-> v]
  BY DEF Tools!Save, h
<1>9. CASE Len(h) > Kept
  <2> DEFINE new == Tail(h)
  <2>1. saved'.history = new /\ saved'.latest = v /\ saved' = [history |-> new, latest |-> v]
    BY <1>8, <1>9
  <2>2. /\ new \in Seq(Entry) /\ DOMAIN new = 1 .. Len(old) /\ Len(old) \in DOMAIN new
        /\ \A i \in DOMAIN new : new[i] = h[i + 1] /\ i + 1 \in DOMAIN h
    BY <1>1, <1>4, <1>6, <1>9
  <2> HIDE DEF new
  <2>3. \A i, j \in DOMAIN new : i < j => new[i].version < new[j].version
    <3> SUFFICES ASSUME NEW i \in DOMAIN new, NEW j \in DOMAIN new, i < j
                 PROVE  new[i].version < new[j].version
      OBVIOUS
    <3>1. i + 1 \in DOMAIN h /\ j + 1 \in DOMAIN h /\ i + 1 < j + 1
      BY <1>4, <2>2
    <3>2. QED
      BY <1>7, <2>2, <3>1
  <2>4. new[Len(old)].version = v
    BY <1>6, <2>2
  <2>5. Tools!LatestIsKept'
    BY <2>1, <2>2, <2>3, <2>4 DEF Tools!LatestIsKept
  <2>6. QED
    BY <2>1, <2>2, <2>5 DEF SavedInv, Entry
<1>10. CASE ~(Len(h) > Kept)
  <2>1. saved'.history = h /\ saved'.latest = v /\ saved' = [history |-> h, latest |-> v]
    BY <1>8, <1>10
  <2>2. Len(old) + 1 \in DOMAIN h
    BY <1>4, <1>6
  <2>3. Tools!LatestIsKept'
    BY <1>6, <1>7, <2>1, <2>2 DEF Tools!LatestIsKept
  <2>4. QED
    BY <1>6, <2>1, <2>3 DEF SavedInv, Entry
<1>11. QED
  BY <1>9, <1>10

LEMMA SavedKeeps ==
    ASSUME SavedInv, Tools!CheckpointStep
    PROVE  SavedInv'
<1>1. ASSUME NEW v \in 1 .. Versions, NEW p \in Phases, Tools!Save(v, p)
      PROVE  SavedInv'
  BY <1>1, CheckpointSaved
<1>2. ASSUME NEW p \in Phases, Tools!RollbackTo(p)
      PROVE  SavedInv'
  <2>1. PICK i \in DOMAIN saved.history : saved' = [saved EXCEPT !.latest = saved.history[i].version]
    BY <1>2 DEF Tools!RollbackTo
  <2>2. /\ saved' = [history |-> saved.history, latest |-> saved.history[i].version]
        /\ saved'.history = saved.history /\ saved'.latest = saved.history[i].version
    BY <2>1 DEF SavedInv
  <2>3. Tools!LatestIsKept'
    BY <2>2 DEF SavedInv, Tools!LatestIsKept
  <2>4. QED
    BY <2>2, <2>3 DEF SavedInv
<1>3. CASE Tools!Invalidate
  <2>1. saved' = [history |-> <<>>, latest |-> 0]
    BY <1>3 DEF Tools!Invalidate
  <2>2. /\ saved'.history = <<>> /\ saved'.latest = 0
        /\ saved'.history \in Seq([version : Nat, phase : Phases]) /\ DOMAIN saved'.history = {}
    BY <2>1
  <2>3. Tools!LatestIsKept'
    BY <2>2 DEF Tools!LatestIsKept
  <2>4. QED
    BY <2>1, <2>2, <2>3 DEF SavedInv
<1>4. QED
  BY <1>1, <1>2, <1>3 DEF Tools!CheckpointStep

LEMMA LimitsStart ==
    ASSUME Tools!Init
    PROVE  LimitsInv
<1>1. /\ clock = 0 /\ grants = [k \in Keys |-> <<>>]
      /\ logs = [k \in Keys |-> {}] /\ buckets = [k \in Keys |-> [tokens |-> Limit, at |-> 0]]
  BY DEF Tools!Init
<1>2. Limit \in Nat
  BY ToolParameters
<1>3. clock \in Nat /\ grants \in [Keys -> Seq(Nat)]
  BY <1>1
<1>4. ASSUME NEW k \in Keys
      PROVE  Remembers(k) /\ Filled(k)
  <2>1. grants[k] = <<>> /\ DOMAIN grants[k] = {} /\ logs[k] = {} /\ clock = 0
    BY <1>1
  <2>2. Cardinality(logs[k]) = 0
    BY <2>1, FS_EmptySet
  <2>3. buckets[k] = [tokens |-> Limit, at |-> 0]
    BY <1>1
  <2>4. ASSUME NEW at \in Int, at < 0
        PROVE  Cardinality(GrantsSince(k, at)) + Limit <= Limit + (0 - at - 1)
    <3>1. GrantsSince(k, at) = {}
      BY <2>1 DEF GrantsSince
    <3>2. Cardinality(GrantsSince(k, at)) = 0
      BY <3>1, FS_EmptySet
    <3>3. QED
      BY <1>2, <2>4, <3>2
  <2>5. Remembers(k)
    BY <1>2, <2>1, <2>2 DEF Remembers
  <2>6. Filled(k)
    BY <1>2, <2>1, <2>3, <2>4 DEF Filled
  <2>7. QED
    BY <2>5, <2>6
<1>5. QED
  BY <1>1, <1>3, <1>4 DEF LimitsInv

LEMMA LimitsKept ==
    ASSUME LimitsInv, UNCHANGED tool, UNCHANGED Tools!limiterVars
    PROVE  LimitsInv'
<1>1. UNCHANGED <<clock, grants, dropped, logs, buckets, tool>>
  BY DEF Tools!limiterVars
<1>2. ASSUME NEW k \in Keys
      PROVE  (Remembers(k) => Remembers(k)') /\ (Filled(k) => Filled(k)')
  BY <1>1 DEF Remembers, Filled, GrantsSince
<1>3. QED
  BY <1>1, <1>2 DEF LimitsInv

\* A grant counts once in every window that reaches it.
LEMMA GrantCounted ==
    ASSUME grants \in [Keys -> Seq(Nat)], clock \in Nat, NEW k \in Keys, Tools!Granted(k)
    PROVE  /\ grants' \in [Keys -> Seq(Nat)] /\ clock' = clock
           /\ \A j \in Keys \ {k} : grants'[j] = grants[j]
           /\ grants'[k] = Append(grants[k], clock)
           /\ Len(grants[k]) \in Nat /\ DOMAIN grants[k] = 1 .. Len(grants[k])
           /\ DOMAIN grants'[k] = 1 .. Len(grants[k]) + 1
           /\ grants'[k][Len(grants[k]) + 1] = clock
           /\ \A i \in DOMAIN grants[k] : grants'[k][i] = grants[k][i]
           /\ \A at \in Int : at < clock =>
                Cardinality(GrantsSince(k, at)') = Cardinality(GrantsSince(k, at)) + 1
<1> DEFINE s == grants[k]
<1>1. grants' = [grants EXCEPT ![k] = Append(s, clock)] /\ clock' = clock
  BY DEF Tools!Granted
<1>2. s \in Seq(Nat) /\ Append(s, clock) \in Seq(Nat)
  OBVIOUS
<1>3. /\ grants' \in [Keys -> Seq(Nat)] /\ grants'[k] = Append(s, clock)
      /\ \A j \in Keys \ {k} : grants'[j] = grants[j]
  BY <1>1, <1>2
<1>4. /\ Len(s) \in Nat /\ DOMAIN s = 1 .. Len(s)
      /\ DOMAIN Append(s, clock) = 1 .. Len(s) + 1
      /\ Append(s, clock)[Len(s) + 1] = clock
      /\ \A i \in DOMAIN s : Append(s, clock)[i] = s[i]
  BY <1>2
<1>5. ASSUME NEW at \in Int, at < clock
      PROVE  Cardinality(GrantsSince(k, at)') = Cardinality(GrantsSince(k, at)) + 1
  <2>1. GrantsSince(k, at) = {i \in 1 .. Len(s) : s[i] > at}
    BY <1>4 DEF GrantsSince
  <2>2. GrantsSince(k, at)' = {i \in 1 .. Len(s) + 1 : Append(s, clock)[i] > at}
    BY <1>3, <1>4 DEF GrantsSince
  <2>3. GrantsSince(k, at)' = GrantsSince(k, at) \cup {Len(s) + 1}
    BY <1>4, <1>5, <2>1, <2>2
  <2>4. Len(s) + 1 \notin GrantsSince(k, at)
    BY <1>4, <2>1
  <2>5. IsFiniteSet(GrantsSince(k, at))
    <3>1. IsFiniteSet(1 .. Len(s))
      BY <1>4, FS_Interval
    <3>2. QED
      BY <2>1, <3>1, FS_Subset
  <2>6. QED
    BY <2>3, <2>4, <2>5, FS_AddElement
<1>6. QED
  BY <1>1, <1>3, <1>4, <1>5

-----------------------------------------------------------------------------
(* The window *)

\* What a key remembers is finite, and the part that is recent is no more of it.
LEMMA RecentCounts ==
    ASSUME grants \in [Keys -> Seq(Nat)], NEW k \in Keys, Remembers(k)
    PROVE  /\ IsFiniteSet(logs[k]) /\ IsFiniteSet(Tools!Recent(k))
           /\ Tools!Recent(k) \subseteq logs[k]
           /\ Cardinality(Tools!Recent(k)) \in Nat
           /\ Cardinality(Tools!Recent(k)) <= Cardinality(logs[k])
<1>1. Len(grants[k]) \in Nat /\ DOMAIN grants[k] = 1 .. Len(grants[k])
  OBVIOUS
<1>2. IsFiniteSet(DOMAIN grants[k])
  BY <1>1, FS_Interval
<1>3. IsFiniteSet(logs[k])
  BY <1>2, FS_Subset DEF Remembers
<1>4. Tools!Recent(k) \subseteq logs[k]
  BY DEF Tools!Recent
<1>5. QED
  BY <1>3, <1>4, FS_Subset, FS_CardinalityType

LEMMA WindowTick ==
    ASSUME LimitsInv, tool = "window", UNCHANGED tool, Tools!Tick
    PROVE  LimitsInv'
<1>1. clock' = clock + 1 /\ UNCHANGED <<grants, dropped, logs, buckets>>
  BY DEF Tools!Tick
<1>2. clock \in Nat /\ clock' \in Nat /\ Window \in Nat /\ grants \in [Keys -> Seq(Nat)]
  BY <1>1, ToolParameters DEF LimitsInv
<1>3. ASSUME NEW k \in Keys
      PROVE  Remembers(k)'
  <2>1. Remembers(k)
    BY DEF LimitsInv
  <2>2. ASSUME NEW i \in DOMAIN grants[k], grants[k][i] > clock + 1 - Window
        PROVE  grants[k][i] > clock - Window
    <3>1. grants[k][i] \in Nat
      BY <1>2
    <3>2. QED
      BY <1>2, <2>2, <3>1
  <2>3. ASSUME k \notin dropped', NEW i \in DOMAIN grants'[k], grants'[k][i] > clock' - Window
        PROVE  i \in logs'[k]
    <3>1. k \notin dropped /\ i \in DOMAIN grants[k] /\ grants[k][i] > clock + 1 - Window
      <4>1. clock' - Window = clock + 1 - Window
        BY <1>1, <1>2
      <4>2. QED
        BY <1>1, <2>3, <4>1, Zenon
    <3>2. grants[k][i] > clock - Window
      BY <2>2, <3>1
    <3>3. QED
      BY <1>1, <2>1, <3>1, <3>2 DEF Remembers
  <2>4. logs[k] \subseteq DOMAIN grants[k] /\ Cardinality(logs[k]) <= Limit
    BY <2>1 DEF Remembers
  <2>5. QED
    BY <1>1, <2>3, <2>4 DEF Remembers
<1>4. QED
  BY <1>1, <1>2, <1>3 DEF LimitsInv

LEMMA WindowCleanup ==
    ASSUME LimitsInv, tool = "window", UNCHANGED tool, Tools!Cleanup
    PROVE  LimitsInv'
<1> DEFINE idle == {k \in Tools!Tracked : Tools!Recent(k) = {}}
<1>1. /\ UNCHANGED <<clock, grants, dropped, buckets>>
      /\ logs' = [k \in Keys |-> IF k \in idle THEN {} ELSE logs[k]]
  BY DEF Tools!Cleanup
<1>2. ASSUME NEW k \in Keys
      PROVE  Remembers(k)'
  <2>1. Remembers(k)
    BY DEF LimitsInv
  <2>2. CASE k \in idle
    <3>1. logs'[k] = {} /\ Tools!Recent(k) = {}
      BY <1>1, <2>2
    <3>2. Cardinality(logs'[k]) = 0 /\ Limit \in Nat
      BY <3>1, FS_EmptySet, ToolParameters
    <3>3. k \notin dropped => \A i \in DOMAIN grants[k] : ~(grants[k][i] > clock - Window)
      BY <2>1, <3>1 DEF Remembers, Tools!Recent
    <3>4. QED
      BY <1>1, <3>1, <3>2, <3>3 DEF Remembers
  <2>3. CASE k \notin idle
    <3>1. logs'[k] = logs[k]
      BY <1>1, <2>3
    <3>2. QED
      BY <1>1, <2>1, <3>1 DEF Remembers
  <2>4. QED
    BY <2>2, <2>3
<1> HIDE DEF idle
<1>3. logs' = [k \in Keys |-> logs'[k]]
  BY <1>1
<1>4. QED
  BY <1>1, <1>2, <1>3 DEF LimitsInv

LEMMA WindowRefuses ==
    ASSUME LimitsInv, tool = "window", UNCHANGED tool, NEW k \in Keys, Tools!Refuse(k)
    PROVE  LimitsInv'
<1>1. UNCHANGED <<clock, grants, dropped>> /\ logs' = [logs EXCEPT ![k] = Tools!Recent(k)]
  BY DEF Tools!Refuse
<1>2. /\ logs = [j \in Keys |-> logs[j]] /\ \A j \in Keys : Remembers(j)
      /\ grants \in [Keys -> Seq(Nat)] /\ Limit \in Nat
  BY ToolParameters DEF LimitsInv
<1>3. ASSUME NEW j \in Keys
      PROVE  Remembers(j)'
  <2>1. CASE j = k
    <3>1. logs'[k] = Tools!Recent(k)
      BY <1>1, <1>2
    <3>2. Tools!Recent(k) \subseteq logs[k] /\ Cardinality(Tools!Recent(k)) <= Limit
      <4>1. Cardinality(logs[k]) \in Nat /\ Cardinality(logs[k]) <= Limit
        BY <1>2, RecentCounts, FS_CardinalityType DEF Remembers
      <4>2. QED
        BY <1>2, <4>1, RecentCounts
    <3>3. QED
      BY <1>1, <1>2, <2>1, <3>1, <3>2 DEF Remembers, Tools!Recent
  <2>2. CASE j # k
    <3>1. logs'[j] = logs[j]
      BY <1>1, <1>2, <2>2
    <3>2. QED
      BY <1>1, <1>2, <3>1 DEF Remembers
  <2>3. QED
    BY <2>1, <2>2
<1>4. logs' = [j \in Keys |-> logs'[j]]
  BY <1>1, <1>2
<1>5. QED
  BY <1>1, <1>3, <1>4 DEF LimitsInv

LEMMA WindowLetsIn ==
    ASSUME LimitsInv, tool = "window", UNCHANGED tool, NEW k \in Keys,
           ~(Cardinality(Tools!Recent(k)) >= Limit), Tools!LetIn(k)
    PROVE  LimitsInv'
<1>1. PICK gone :
        /\ logs' = [j \in Keys |-> IF j = k THEN Tools!Recent(k) \cup {Len(grants[k]) + 1}
                                   ELSE IF j \in gone THEN {} ELSE logs[j]]
        /\ dropped' = dropped \cup gone
        /\ Tools!Granted(k)
  BY DEF Tools!LetIn
<1>2. /\ \A j \in Keys : Remembers(j)
      /\ grants \in [Keys -> Seq(Nat)] /\ clock \in Nat /\ Limit \in Nat /\ Window \in Nat
  BY ToolParameters DEF LimitsInv
<1>3. /\ grants' \in [Keys -> Seq(Nat)] /\ clock' = clock
      /\ \A j \in Keys \ {k} : grants'[j] = grants[j]
      /\ Len(grants[k]) \in Nat /\ DOMAIN grants[k] = 1 .. Len(grants[k])
      /\ DOMAIN grants'[k] = 1 .. Len(grants[k]) + 1
      /\ grants'[k][Len(grants[k]) + 1] = clock
      /\ \A i \in DOMAIN grants[k] : grants'[k][i] = grants[k][i]
  BY <1>1, <1>2, GrantCounted
<1>4. Remembers(k)'
  <2>1. logs'[k] = Tools!Recent(k) \cup {Len(grants[k]) + 1}
    BY <1>1
  <2>2. Tools!Recent(k) \subseteq DOMAIN grants[k]
    BY <1>2 DEF Remembers, Tools!Recent
  <2>3. Len(grants[k]) + 1 \notin Tools!Recent(k)
    BY <1>3, <2>2
  <2>4. Cardinality(logs'[k]) = Cardinality(Tools!Recent(k)) + 1
    BY <1>2, <2>1, <2>3, RecentCounts, FS_AddElement
  <2>5. Cardinality(Tools!Recent(k)) \in Nat
    BY <1>2, RecentCounts
  <2>6. Cardinality(logs'[k]) <= Limit
    BY <1>2, <2>4, <2>5
  <2>7. ASSUME k \notin dropped', NEW i \in DOMAIN grants'[k], grants'[k][i] > clock - Window
        PROVE  i \in logs'[k]
    <3>1. CASE i = Len(grants[k]) + 1
      BY <2>1, <3>1
    <3>2. CASE i # Len(grants[k]) + 1
      <4>1. i \in DOMAIN grants[k] /\ grants[k][i] > clock - Window
        BY <1>3, <2>7, <3>2
      <4>2. i \in Tools!Recent(k)
        BY <1>1, <1>2, <2>7, <4>1 DEF Remembers, Tools!Recent
      <4>3. QED
        BY <2>1, <4>2
    <3>3. QED
      BY <3>1, <3>2
  <2>8. logs'[k] \subseteq DOMAIN grants'[k]
    BY <1>3, <2>1, <2>2
  <2>9. QED
    BY <1>3, <2>6, <2>7, <2>8 DEF Remembers
<1>5. ASSUME NEW j \in Keys, j # k
      PROVE  Remembers(j)'
  <2>1. grants'[j] = grants[j] /\ clock' = clock /\ Remembers(j)
    BY <1>2, <1>3, <1>5
  <2>2. CASE j \in gone
    <3>1. logs'[j] = {} /\ j \in dropped'
      BY <1>1, <1>5, <2>2
    <3>2. Cardinality(logs'[j]) = 0
      BY <3>1, FS_EmptySet
    <3>3. QED
      BY <1>2, <3>1, <3>2 DEF Remembers
  <2>3. CASE j \notin gone
    <3>1. logs'[j] = logs[j] /\ (j \notin dropped' => j \notin dropped)
      BY <1>1, <1>5, <2>3
    <3>2. QED
      BY <2>1, <3>1 DEF Remembers
  <2>4. QED
    BY <2>2, <2>3
<1>6. logs' = [j \in Keys |-> logs'[j]]
  BY <1>1
<1>7. QED
  BY <1>2, <1>3, <1>4, <1>5, <1>6 DEF LimitsInv

-----------------------------------------------------------------------------
(* The bucket *)

LEMMA BucketTick ==
    ASSUME LimitsInv, tool = "bucket", UNCHANGED tool, Tools!Tick
    PROVE  LimitsInv'
<1>1. clock' = clock + 1 /\ UNCHANGED <<grants, dropped, logs, buckets>>
  BY DEF Tools!Tick
<1>2. clock \in Nat /\ clock' \in Nat
  BY <1>1 DEF LimitsInv
<1>3. ASSUME NEW k \in Keys
      PROVE  Filled(k)'
  <2>1. Filled(k)
    BY DEF LimitsInv
  <2>2. buckets[k].at \in Nat /\ buckets[k].at <= clock
    BY <2>1 DEF Filled
  <2>3. buckets[k].at <= clock + 1
    BY <1>2, <2>2
  <2>4. \A at \in Int : GrantsSince(k, at)' = GrantsSince(k, at)
    BY <1>1 DEF GrantsSince
  <2>5. QED
    BY <1>1, <2>1, <2>3, <2>4 DEF Filled
<1>4. QED
  BY <1>1, <1>2, <1>3 DEF LimitsInv

LEMMA RefillSum ==
    ASSUME NEW c \in Nat, NEW tokens \in Nat, NEW since \in Nat, NEW r \in Nat, NEW limit \in Nat,
           NEW now \in Nat, NEW at \in Int,
           c + tokens <= limit + (since - at - 1), r <= tokens + (now - since)
    PROVE  c + r <= limit + (now - at - 1)
  OBVIOUS

\* What the refill leaves in a bucket, before anything is taken from it.
LEMMA RefillBounded ==
    ASSUME LimitsInv, tool = "bucket", NEW k \in Keys
    PROVE  /\ Tools!Refilled(k) \in Nat /\ Tools!Refilled(k) <= Limit
           /\ Tools!Refilled(k) <= buckets[k].tokens + (clock - buckets[k].at)
           /\ k \notin dropped =>
                \A at \in Int : at < clock =>
                  /\ Cardinality(GrantsSince(k, at)) \in Nat
                  /\ Cardinality(GrantsSince(k, at)) + Tools!Refilled(k) <= Limit + (clock - at - 1)
<1>1. Filled(k) /\ clock \in Nat /\ Limit \in Nat /\ grants \in [Keys -> Seq(Nat)]
  BY ToolParameters DEF LimitsInv
<1>2. /\ buckets[k].tokens \in Nat /\ buckets[k].tokens <= Limit
      /\ buckets[k].at \in Nat /\ buckets[k].at <= clock
  BY <1>1 DEF Filled
<1>3. /\ Tools!Refilled(k) \in Nat /\ Tools!Refilled(k) <= Limit
      /\ Tools!Refilled(k) <= buckets[k].tokens + (clock - buckets[k].at)
  BY <1>1, <1>2 DEF Tools!Refilled, Tools!Fewer
<1>4. ASSUME k \notin dropped, NEW at \in Int, at < clock
      PROVE  /\ Cardinality(GrantsSince(k, at)) \in Nat
             /\ Cardinality(GrantsSince(k, at)) + Tools!Refilled(k) <= Limit + (clock - at - 1)
  <2>1. Len(grants[k]) \in Nat /\ DOMAIN grants[k] = 1 .. Len(grants[k])
        /\ \A i \in DOMAIN grants[k] : grants[k][i] \in Nat
    BY <1>1
  <2>2. Cardinality(GrantsSince(k, at)) \in Nat
    <3>1. IsFiniteSet(1 .. Len(grants[k]))
      BY <2>1, FS_Interval
    <3>2. GrantsSince(k, at) \subseteq 1 .. Len(grants[k])
      BY <2>1 DEF GrantsSince
    <3>3. QED
      BY <3>1, <3>2, FS_Subset, FS_CardinalityType
  <2>3. CASE at < buckets[k].at
    <3>1. Cardinality(GrantsSince(k, at)) + buckets[k].tokens <= Limit + (buckets[k].at - at - 1)
      BY <1>1, <1>4, <2>3 DEF Filled
    <3>2. QED
      BY <1>1, <1>2, <1>3, <2>2, <3>1, RefillSum
  <2>4. CASE ~(at < buckets[k].at)
    <3>1. \A i \in DOMAIN grants[k] : grants[k][i] <= buckets[k].at
      BY <1>1, <1>4 DEF Filled
    <3>2. GrantsSince(k, at) = {}
      BY <1>2, <2>1, <2>4, <3>1 DEF GrantsSince
    <3>3. Cardinality(GrantsSince(k, at)) = 0
      BY <3>2, FS_EmptySet
    <3>4. QED
      BY <1>1, <1>3, <1>4, <3>3
  <2>5. QED
    BY <2>2, <2>3, <2>4
<1>5. QED
  BY <1>3, <1>4

LEMMA BucketRefuses ==
    ASSUME LimitsInv, tool = "bucket", UNCHANGED tool, NEW k \in Keys,
           buckets' = [buckets EXCEPT ![k] = [tokens |-> Tools!Refilled(k), at |-> clock]],
           UNCHANGED <<clock, grants, dropped>>
    PROVE  LimitsInv'
<1>1. /\ buckets = [j \in Keys |-> buckets[j]] /\ \A j \in Keys : Filled(j)
      /\ grants \in [Keys -> Seq(Nat)] /\ clock \in Nat /\ Limit \in Nat
  BY ToolParameters DEF LimitsInv
<1>2. ASSUME NEW j \in Keys, NEW at \in Int
      PROVE  GrantsSince(j, at)' = GrantsSince(j, at)
  BY DEF GrantsSince
<1>3. Filled(k)'
  <2> DEFINE r == Tools!Refilled(k)
  <2>1. buckets'[k] = [tokens |-> r, at |-> clock]
    BY <1>1
  <2>2. r \in 0 .. Limit
    BY <1>1, RefillBounded
  <2>3. k \notin dropped =>
          \A at \in Int : at < clock => Cardinality(GrantsSince(k, at)) + r <= Limit + (clock - at - 1)
    BY RefillBounded
  <2>4. k \notin dropped => \A i \in DOMAIN grants[k] : grants[k][i] <= clock
    <3>1. ASSUME k \notin dropped, NEW i \in DOMAIN grants[k]
          PROVE  grants[k][i] <= clock
      <4>1. grants[k][i] <= buckets[k].at /\ buckets[k].at <= clock /\ buckets[k].at \in Nat
        BY <1>1, <3>1 DEF Filled
      <4>2. grants[k][i] \in Nat
        BY <1>1
      <4>3. QED
        BY <1>1, <4>1, <4>2
    <3>2. QED
      BY <3>1
  <2> HIDE DEF r
  <2>5. /\ buckets'[k].tokens = r /\ buckets'[k].at = clock
        /\ buckets'[k] \in [tokens : 0 .. Limit, at : Nat] /\ clock <= clock
    BY <1>1, <2>1, <2>2
  <2>6. QED
    BY <1>2, <2>3, <2>4, <2>5 DEF Filled
<1>4. ASSUME NEW j \in Keys, j # k
      PROVE  Filled(j)'
  <2>1. buckets'[j] = buckets[j]
    BY <1>1, <1>4
  <2>2. QED
    BY <1>1, <1>2, <2>1 DEF Filled
<1>5. buckets' = [j \in Keys |-> buckets'[j]]
  BY <1>1
<1>6. QED
  BY <1>1, <1>3, <1>4, <1>5 DEF LimitsInv

LEMMA BucketGives ==
    ASSUME LimitsInv, tool = "bucket", UNCHANGED tool, NEW k \in Keys, NEW gone,
           Tools!Refilled(k) >= 1, Tools!Granted(k), dropped' = dropped \cup gone,
           buckets' = [j \in Keys |->
               IF j = k THEN [tokens |-> Tools!Refilled(k) - 1, at |-> clock]
               ELSE IF j \in gone THEN [tokens |-> Limit, at |-> 0] ELSE buckets[j]]
    PROVE  LimitsInv'
<1>1. /\ \A j \in Keys : Filled(j)
      /\ grants \in [Keys -> Seq(Nat)] /\ clock \in Nat /\ Limit \in Nat
  BY ToolParameters DEF LimitsInv
<1>2. /\ grants' \in [Keys -> Seq(Nat)] /\ clock' = clock
      /\ \A j \in Keys \ {k} : grants'[j] = grants[j]
      /\ Len(grants[k]) \in Nat /\ DOMAIN grants[k] = 1 .. Len(grants[k])
      /\ DOMAIN grants'[k] = 1 .. Len(grants[k]) + 1
      /\ grants'[k][Len(grants[k]) + 1] = clock
      /\ \A i \in DOMAIN grants[k] : grants'[k][i] = grants[k][i]
      /\ \A at \in Int : at < clock =>
           Cardinality(GrantsSince(k, at)') = Cardinality(GrantsSince(k, at)) + 1
  BY <1>1, GrantCounted
<1>3. Filled(k)'
  <2> DEFINE r == Tools!Refilled(k)
  <2>1. buckets'[k] = [tokens |-> r - 1, at |-> clock]
    OBVIOUS
  <2>2. r \in Nat /\ r <= Limit /\ r >= 1
    BY RefillBounded
  <2>3. k \notin dropped =>
          \A at \in Int : at < clock =>
            /\ Cardinality(GrantsSince(k, at)) \in Nat
            /\ Cardinality(GrantsSince(k, at)) + r <= Limit + (clock - at - 1)
    BY RefillBounded
  <2> HIDE DEF r
  <2>4. ASSUME k \notin dropped', NEW i \in DOMAIN grants'[k]
        PROVE  grants'[k][i] <= clock
    <3>1. CASE i = Len(grants[k]) + 1
      BY <1>1, <1>2, <3>1
    <3>2. CASE i # Len(grants[k]) + 1
      <4>1. i \in DOMAIN grants[k] /\ grants'[k][i] = grants[k][i]
        BY <1>2, <3>2
      <4>2. grants[k][i] <= buckets[k].at /\ buckets[k].at <= clock /\ buckets[k].at \in Nat
        BY <1>1, <2>4, <4>1 DEF Filled
      <4>3. grants[k][i] \in Nat
        BY <1>1, <4>1
      <4>4. QED
        BY <1>1, <4>1, <4>2, <4>3
    <3>3. QED
      BY <3>1, <3>2
  <2>5. ASSUME k \notin dropped', NEW at \in Int, at < clock
        PROVE  Cardinality(GrantsSince(k, at)') + (r - 1) <= Limit + (clock - at - 1)
    <3>1. /\ Cardinality(GrantsSince(k, at)) \in Nat
          /\ Cardinality(GrantsSince(k, at)) + r <= Limit + (clock - at - 1)
      BY <2>3, <2>5
    <3>2. Cardinality(GrantsSince(k, at)') = Cardinality(GrantsSince(k, at)) + 1
      BY <1>2, <2>5
    <3>3. QED
      BY <1>1, <2>2, <3>1, <3>2
  <2>6. /\ buckets'[k].tokens = r - 1 /\ buckets'[k].at = clock
        /\ buckets'[k] \in [tokens : 0 .. Limit, at : Nat] /\ clock <= clock
    BY <1>1, <2>1, <2>2
  <2>7. QED
    BY <1>2, <2>4, <2>5, <2>6 DEF Filled
<1>4. ASSUME NEW j \in Keys, j # k
      PROVE  Filled(j)'
  <2>1. clock' = clock /\ grants'[j] = grants[j]
    BY <1>2, <1>4
  <2>2. ASSUME NEW at \in Int
        PROVE  GrantsSince(j, at)' = GrantsSince(j, at)
    BY <2>1 DEF GrantsSince
  <2>3. CASE j \in gone
    <3>1. j \in dropped' /\ buckets'[j] = [tokens |-> Limit, at |-> 0]
      BY <1>4, <2>3
    <3>2. QED
      BY <1>1, <2>1, <3>1 DEF Filled
  <2>4. CASE j \notin gone
    <3>1. (j \notin dropped' => j \notin dropped) /\ buckets'[j] = buckets[j]
      BY <1>4, <2>4
    <3>2. QED
      BY <1>1, <2>1, <2>2, <3>1 DEF Filled
  <2>5. QED
    BY <2>3, <2>4
<1>5. buckets' = [j \in Keys |-> buckets'[j]]
  OBVIOUS
<1>6. QED
  BY <1>1, <1>2, <1>3, <1>4, <1>5 DEF LimitsInv

LEMMA WindowKeeps ==
    ASSUME LimitsInv, UNCHANGED tool, tool = "window", Tools!WindowStep
    PROVE  LimitsInv'
<1>1. CASE Tools!Tick
  BY <1>1, WindowTick
<1>2. CASE Tools!Cleanup
  BY <1>2, WindowCleanup
<1>3. ASSUME NEW k \in Keys, Tools!Allow(k)
      PROVE  LimitsInv'
  <2>1. CASE Cardinality(Tools!Recent(k)) >= Limit
    <3>1. Tools!Refuse(k)
      BY <1>3, <2>1, ToolCounts DEF Tools!Allow
    <3>2. QED
      BY <3>1, WindowRefuses
  <2>2. CASE ~(Cardinality(Tools!Recent(k)) >= Limit)
    <3>1. Tools!LetIn(k)
      BY <1>3, <2>2, ToolCounts DEF Tools!Allow
    <3>2. QED
      BY <2>2, <3>1, WindowLetsIn
  <2>3. QED
    BY <2>1, <2>2
<1>4. QED
  BY <1>1, <1>2, <1>3 DEF Tools!WindowStep

LEMMA BucketKeeps ==
    ASSUME LimitsInv, UNCHANGED tool, tool = "bucket", Tools!BucketStep
    PROVE  LimitsInv'
<1>1. CASE Tools!Tick
  BY <1>1, BucketTick
<1>2. ASSUME NEW k \in Keys, Tools!Take(k)
      PROVE  LimitsInv'
  <2>1. CASE Tools!Refilled(k) >= 1
    <3>1. PICK gone :
            /\ buckets' = [j \in Keys |->
                 IF j = k THEN [tokens |-> Tools!Refilled(k) - 1, at |-> clock]
                 ELSE IF j \in gone THEN [tokens |-> Limit, at |-> 0] ELSE buckets[j]]
            /\ dropped' = dropped \cup gone
            /\ Tools!Granted(k)
      BY <1>2, <2>1 DEF Tools!Take
    <3>2. QED
      BY <2>1, <3>1, BucketGives
  <2>2. CASE ~(Tools!Refilled(k) >= 1)
    <3>1. /\ buckets' = [buckets EXCEPT ![k] = [tokens |-> Tools!Refilled(k), at |-> clock]]
          /\ UNCHANGED <<clock, grants, dropped>>
      BY <1>2, <2>2 DEF Tools!Take
    <3>2. QED
      BY <3>1, BucketRefuses
  <2>3. QED
    BY <2>1, <2>2
<1>3. QED
  BY <1>1, <1>2 DEF Tools!BucketStep

LEMMA LimitsFollow ==
    ASSUME LimitsInv
    PROVE  Tools!LimitsHold
<1>1. clock \in Nat /\ Limit \in Nat \ {0} /\ grants \in [Keys -> Seq(Nat)]
  BY ToolParameters DEF LimitsInv
<1>2. ASSUME NEW k \in Keys, NEW at
      PROVE  Tools!GrantedSince(k, at) = Cardinality(GrantsSince(k, at))
  BY ToolCounts DEF Tools!GrantedSince, GrantsSince
<1>3. ASSUME NEW k \in Keys, k \notin dropped, tool = "window"
      PROVE  Tools!GrantedSince(k, clock - Window) <= Limit
  <2>1. Remembers(k)
    BY <1>3 DEF LimitsInv
  <2>2. GrantsSince(k, clock - Window) \subseteq logs[k]
    BY <1>3, <2>1 DEF Remembers, GrantsSince
  <2>3. IsFiniteSet(logs[k])
    BY <1>1, <2>1, RecentCounts
  <2>4. /\ Cardinality(GrantsSince(k, clock - Window)) <= Cardinality(logs[k])
        /\ Cardinality(GrantsSince(k, clock - Window)) \in Nat /\ Cardinality(logs[k]) \in Nat
    BY <2>2, <2>3, FS_Subset, FS_CardinalityType
  <2>5. Cardinality(logs[k]) <= Limit
    BY <2>1 DEF Remembers
  <2>6. QED
    BY <1>1, <1>2, <2>4, <2>5
<1>4. ASSUME NEW k \in Keys, k \notin dropped, tool = "bucket", NEW at \in -1 .. clock
      PROVE  Tools!GrantedSince(k, at) <= Limit + (clock - at - 1)
  <2>1. at \in Int /\ at <= clock
    BY <1>1
  <2>2. CASE at < clock
    <3>1. /\ Cardinality(GrantsSince(k, at)) \in Nat
          /\ Cardinality(GrantsSince(k, at)) + Tools!Refilled(k) <= Limit + (clock - at - 1)
          /\ Tools!Refilled(k) \in Nat
      BY <1>4, <2>1, <2>2, RefillBounded
    <3>2. QED
      BY <1>1, <1>2, <2>1, <3>1
  <2>3. CASE at = clock
    <3>1. Filled(k)
      BY <1>4 DEF LimitsInv
    <3>2. buckets[k].at \in Nat /\ buckets[k].at <= clock
          /\ \A i \in DOMAIN grants[k] : grants[k][i] \in Nat /\ grants[k][i] <= buckets[k].at
      BY <1>1, <1>4, <3>1 DEF Filled
    <3>3. GrantsSince(k, at) = {}
      BY <1>1, <2>3, <3>2 DEF GrantsSince
    <3>4. Cardinality(GrantsSince(k, at)) = 0
      BY <3>3, FS_EmptySet
    <3>5. QED
      BY <1>1, <1>2, <2>3, <3>4
  <2>4. QED
    BY <1>1, <2>1, <2>2, <2>3
<1>5. QED
  BY <1>3, <1>4 DEF Tools!LimitsHold

\* The primitives keep their promises for any callers, sums, keys, limits and windows:
\* the reserved sum is what is held, the latest checkpoint is one that is kept, and no key
\* is let through above its limit (budget.py:142, checkpoint.py:137, rate_limit.py:87).
THEOREM PrimitivesKept == Tools!Spec => []PrimitivesHold
<1>1. Tools!Init => ToolsInv
  BY LedgerStart, SavedStart, LimitsStart DEF ToolsInv
<1>2. ToolsInv /\ [Tools!Next]_Tools!libraryVars => ToolsInv'
  <2> SUFFICES ASSUME ToolsInv, [Tools!Next]_Tools!libraryVars
               PROVE  LedgerInv' /\ SavedInv' /\ LimitsInv'
    BY DEF ToolsInv
  <2>0. LedgerInv /\ SavedInv /\ LimitsInv
    BY DEF ToolsInv
  <2>1. CASE UNCHANGED Tools!libraryVars
    <3>1. UNCHANGED <<Tools!ledgerVars, saved, tool, Tools!limiterVars>>
      BY <2>1 DEF Tools!libraryVars, Tools!ledgerVars, Tools!limiterVars
    <3>2. QED
      BY <2>0, <3>1, LedgerKept, SavedKept, LimitsKept
  <2>2. CASE Tools!Next
    <3>1. CASE Tools!LedgerStep /\ UNCHANGED <<tool, saved, Tools!limiterVars>>
      BY <2>0, <3>1, LedgerKeeps, SavedKept, LimitsKept
    <3>2. CASE Tools!CheckpointStep /\ UNCHANGED <<tool, Tools!ledgerVars, Tools!limiterVars>>
      BY <2>0, <3>2, LedgerKept, SavedKeeps, LimitsKept
    <3>3. CASE UNCHANGED <<tool, Tools!ledgerVars, saved, Tools!limiterVars>>
      BY <2>0, <3>3, LedgerKept, SavedKept, LimitsKept
    <3>4. CASE tool = "ledger"
      BY <2>2, <3>1, <3>4 DEF Tools!Next
    <3>5. CASE tool = "checkpoints"
      BY <2>2, <3>2, <3>5 DEF Tools!Next
    <3>6. CASE tool \in {"store", "breaker", "scheduler"}
      BY <2>2, <3>3, <3>6 DEF Tools!Next
    <3>7. CASE tool = "window"
      <4>1. Tools!WindowStep /\ UNCHANGED <<tool, Tools!ledgerVars, saved>>
        BY <2>2, <3>7 DEF Tools!Next
      <4>2. LimitsInv'
        BY <2>0, <3>7, <4>1, WindowKeeps
      <4>3. QED
        BY <2>0, <4>1, <4>2, LedgerKept, SavedKept
    <3>8. CASE tool = "bucket"
      <4>1. Tools!BucketStep /\ UNCHANGED <<tool, Tools!ledgerVars, saved>>
        BY <2>2, <3>8 DEF Tools!Next
      <4>2. LimitsInv'
        BY <2>0, <3>8, <4>1, BucketKeeps
      <4>3. QED
        BY <2>0, <4>1, <4>2, LedgerKept, SavedKept
    <3>9. QED
      BY <2>2, <3>4, <3>5, <3>6, <3>7, <3>8 DEF Tools!Next
  <2>3. QED
    BY <2>1, <2>2
<1>3. ToolsInv => PrimitivesHold
  BY ToolCounts, LimitsFollow
  DEF ToolsInv, LedgerInv, SavedInv, PrimitivesHold, Tools!PrimitivesHold, Tools!LedgerBalances
<1>4. QED
  BY <1>1, <1>2, <1>3, PTL DEF Tools!Spec

-----------------------------------------------------------------------------
(* The registry of propositions *)

\* The principle of the least number and induction over the naturals, stated of sets.
Lower == {ss \in Nat \X Nat : ss[1] < ss[2]}

LEMMA LeastNatural ==
    ASSUME NEW T \in SUBSET Nat, T # {}
    PROVE  \E x \in T : \A y \in T : x <= y
<1>1. IsWellFoundedOn(Lower, Nat)
  BY NatLessThanWellFounded DEF OpToRel, Lower
<1>2. PICK x \in T : \A y \in T : ~ (<<y, x>> \in Lower)
  BY <1>1, WFMin
<1>3. ASSUME NEW y \in T
      PROVE  x <= y
  <2>1. ~(<<y, x>> \in Lower) /\ x \in Nat /\ y \in Nat
    BY <1>2
  <2>2. QED
    BY <2>1 DEF Lower
<1>4. QED
  BY <1>3

LEMMA NaturalSteps ==
    ASSUME NEW S \in SUBSET Nat, 0 \in S, \A n \in S : n + 1 \in S
    PROVE  S = Nat
<1> SUFFICES ASSUME Nat \ S # {}
             PROVE  FALSE
  OBVIOUS
<1>1. PICK x \in Nat \ S : \A y \in Nat \ S : x <= y
  BY LeastNatural
<1>2. x # 0 /\ x - 1 \in Nat /\ x - 1 < x
  BY <1>1
<1>3. x - 1 \in S
  BY <1>1, <1>2
<1>4. QED
  BY <1>1, <1>2, <1>3

\* The discount for further clashes is a function over the number of clashes.
Decay(x, n, f) == f = [k \in 0 .. n |-> IF k = 0 THEN x ELSE (f[k - 1] * 85) \div 100]

LEMMA DecayDefined ==
    ASSUME NEW x, NEW n \in Nat
    PROVE  \E f : Decay(x, n, f)
<1> DEFINE S == {m \in Nat : \E f : Decay(x, m, f)}
<1>1. 0 \in S
  <2>1. Decay(x, 0, [k \in 0 .. 0 |-> x])
    BY DEF Decay
  <2>2. QED
    BY <2>1
<1>2. ASSUME NEW m \in S
      PROVE  m + 1 \in S
  <2>1. PICK f : Decay(x, m, f)
    OBVIOUS
  <2> DEFINE g == [k \in 0 .. m + 1 |-> IF k = m + 1 THEN (f[m] * 85) \div 100 ELSE f[k]]
  <2>2. \A k \in 0 .. m : g[k] = f[k]
    OBVIOUS
  <2>3. ASSUME NEW k \in 0 .. m + 1
        PROVE  g[k] = IF k = 0 THEN x ELSE (g[k - 1] * 85) \div 100
    <3>1. CASE k = m + 1
      BY <2>2, <3>1
    <3>2. CASE k # m + 1
      <4>1. k \in 0 .. m /\ (k # 0 => k - 1 \in 0 .. m)
        BY <3>2
      <4>2. f[k] = IF k = 0 THEN x ELSE (f[k - 1] * 85) \div 100
        BY <2>1, <4>1 DEF Decay
      <4>3. QED
        BY <2>2, <4>1, <4>2
    <3>3. QED
      BY <3>1, <3>2
  <2>4. g = [k \in 0 .. m + 1 |-> g[k]]
    OBVIOUS
  <2> HIDE DEF g
  <2>5. Decay(x, m + 1, g)
    BY <2>3, <2>4 DEF Decay
  <2>6. QED
    BY <2>5
<1>3. S \in SUBSET Nat
  OBVIOUS
<1> HIDE DEF S
<1>4. S = Nat
  BY <1>1, <1>2, <1>3, NaturalSteps
<1>5. QED
  BY <1>4 DEF S

LEMMA DecayedIs ==
    ASSUME NEW x, NEW n \in Nat
    PROVE  \E f : Decay(x, n, f) /\ Register!Decayed(x, n) = f[n]
<1>1. PICK f : Decay(x, n, f)
  BY DecayDefined
<1> DEFINE h == CHOOSE g : g = [k \in 0 .. n |-> IF k = 0 THEN x ELSE (g[k - 1] * 85) \div 100]
<1>2. h = [k \in 0 .. n |-> IF k = 0 THEN x ELSE (h[k - 1] * 85) \div 100]
  BY <1>1 DEF Decay
<1>3. Register!Decayed(x, n) = h[n]
  BY DEF Register!Decayed
<1> HIDE DEF h
<1>4. QED
  BY <1>2, <1>3 DEF Decay

\* Each clash takes its share of what is left, so the discount never adds anything and keeps
\* the order of the scores.
LEMMA DecayLowers ==
    ASSUME NEW x \in Nat, NEW y \in Nat, x <= y, NEW n \in Nat,
           NEW f, Decay(x, n, f), NEW g, Decay(y, n, g)
    PROVE  /\ f[n] \in Nat /\ f[n] <= x
           /\ g[n] \in Nat /\ f[n] <= g[n]
<1> DEFINE Lowers(k) == /\ f[k] \in Nat /\ f[k] <= x
                        /\ g[k] \in Nat /\ f[k] <= g[k]
           S == {k \in Nat : k <= n => Lowers(k)}
<1>1. \A k \in 0 .. n : f[k] = IF k = 0 THEN x ELSE (f[k - 1] * 85) \div 100
  BY DEF Decay
<1>2. \A k \in 0 .. n : g[k] = IF k = 0 THEN y ELSE (g[k - 1] * 85) \div 100
  BY DEF Decay
<1>3. 0 \in S
  BY <1>1, <1>2
<1>4. ASSUME NEW k \in S
      PROVE  k + 1 \in S
  <2>1. CASE k + 1 <= n
    <3>1. Lowers(k)
      BY <2>1
    <3>2. f[k + 1] = (f[k] * 85) \div 100 /\ g[k + 1] = (g[k] * 85) \div 100
      BY <1>1, <1>2, <2>1
    <3>3. Lowers(k + 1)
      BY <3>1, <3>2
    <3>4. QED
      BY <3>3
  <2>2. CASE ~(k + 1 <= n)
    BY <2>2
  <2>3. QED
    BY <2>1, <2>2
<1>5. S \in SUBSET Nat
  OBVIOUS
<1> HIDE DEF S
<1>6. S = Nat
  BY <1>3, <1>4, <1>5, NaturalSteps
<1>7. QED
  BY <1>6 DEF S

LEMMA DecayedLowers ==
    ASSUME NEW x \in Nat, NEW y \in Nat, x <= y, NEW n \in Nat
    PROVE  /\ Register!Decayed(x, n) \in Nat /\ Register!Decayed(x, n) <= x
           /\ Register!Decayed(y, n) \in Nat /\ Register!Decayed(x, n) <= Register!Decayed(y, n)
<1>1. PICK f : Decay(x, n, f) /\ Register!Decayed(x, n) = f[n]
  BY DecayedIs
<1>2. PICK g : Decay(y, n, g) /\ Register!Decayed(y, n) = g[n]
  BY DecayedIs
<1>3. QED
  BY <1>1, <1>2, DecayLowers

\* A second reckoning of the conflicts leaves a score as low as the larger number of clashes
\* would have it.
LEMMA DiscountStays ==
    ASSUME NEW base, base \in Register!Scores, NEW n \in Nat \ {0}, NEW old \in Nat,
           old > 0 => base <= Register!Most2(500, Register!Decayed(3500, old - 1))
    PROVE  /\ Register!Discounted(base, n) \in Register!Scores
           /\ Register!Discounted(base, n)
                <= Register!Most2(500, Register!Decayed(3500, Register!Most2(old, n) - 1))
<1> DEFINE low == IF 3500 < base THEN 3500 ELSE base
           d == Register!Decayed(low, n - 1)
<1>1. low \in Nat /\ low <= 3500 /\ low <= base /\ n - 1 \in Nat
  BY DEF Register!Scores
<1> HIDE DEF low
<1>2. /\ d \in Nat /\ d <= low
      /\ Register!Decayed(3500, n - 1) \in Nat /\ d <= Register!Decayed(3500, n - 1)
  BY <1>1, DecayedLowers
<1>3. Register!Discounted(base, n) = IF 500 < d THEN d ELSE 500
  BY DEF Register!Discounted, Register!Most2, Register!Least2, low
<1> HIDE DEF d
<1>4. Register!Discounted(base, n) \in Register!Scores
  BY <1>1, <1>2, <1>3 DEF Register!Scores
<1>5. Register!Discounted(base, n)
        <= Register!Most2(500, Register!Decayed(3500, Register!Most2(old, n) - 1))
  <2>1. CASE Register!Most2(old, n) = n
    BY <1>2, <1>3, <2>1 DEF Register!Most2
  <2>2. CASE Register!Most2(old, n) = old /\ n <= old
    <3>1. old > 0 /\ old - 1 \in Nat
      BY <2>2
    <3>2. Register!Decayed(3500, old - 1) \in Nat
      BY <3>1, DecayedLowers
    <3>3. QED
      BY <1>1, <1>2, <1>3, <2>2, <3>1, <3>2 DEF Register!Most2, Register!Scores
  <2>3. QED
    BY <2>1, <2>2 DEF Register!Most2
<1>6. QED
  BY <1>4, <1>5

\* Scores are counted from 500 to 10000.
LEMMA ScoresBounded ==
    ASSUME NEW tier \in Tiers, NEW n \in 0 .. Corroborated, NEW stale, NEW opinion,
           NEW cred \in Credibilities, NEW debate \in Debates
    PROVE  Register!Score(tier, n, stale, opinion, cred, debate) \in Register!Scores
<1> DEFINE Clamped(x, low, high) == Register!Most2(low, Register!Least2(x, high))
           base == Register!TierBase(tier)
           raw == base + 1500 * Register!Least2(n, 3) - (IF stale THEN 2000 ELSE 0)
                    - (IF opinion THEN 2500 ELSE 0) + Register!CredibilityBonus(cred)
           weighed == IF debate = NoDebate THEN raw
                      ELSE (raw * Register!Clamp(debate, 1000, 10000)) \div 10000
<1>1. /\ Corroborated \in Nat /\ Tiers \subseteq {"TRUSTED", "STANDARD", "QUARANTINE", "BLOCKED"}
      /\ cred \in Int /\ (debate # NoDebate => debate \in Int)
  BY ExecutionAssumption DEF Register!LedgerAssumption
<1>2. base \in Int
  BY <1>1 DEF Register!TierBase
<1>3. ASSUME NEW x \in Int, NEW low \in Int, NEW high \in Int, low <= high
      PROVE  Register!Clamp(x, low, high) \in low .. high
  BY <1>3 DEF Register!Clamp, Register!Most2, Register!Least2
<1>4. Register!CredibilityBonus(cred) \in Int
  <2>1. (cred - 7000) \div 5 \in Int
    BY <1>1
  <2>2. QED
    BY <1>3, <2>1 DEF Register!CredibilityBonus
<1>5. Register!Least2(n, 3) \in Int
  BY <1>1 DEF Register!Least2
<1> HIDE DEF base
<1>6. raw \in Int
  BY <1>2, <1>4, <1>5
<1> HIDE DEF raw
<1>7. weighed \in Int
  <2>1. CASE debate = NoDebate
    BY <1>6, <2>1
  <2>2. CASE debate # NoDebate
    <3> DEFINE c == Register!Clamp(debate, 1000, 10000)
    <3>1. c \in Int
      BY <1>1, <1>3, <2>2
    <3> HIDE DEF c
    <3>2. raw * c \in Int
      BY <1>6, <3>1
    <3>3. (raw * c) \div 10000 \in Int
      BY <3>2
    <3>4. QED
      BY <2>2, <3>3 DEF c
  <2>3. QED
    BY <2>1, <2>2
<1> HIDE DEF weighed
<1>8. Register!Clamp(weighed, 500, 9500) \in 500 .. 9500
  BY <1>7 DEF Register!Clamp, Register!Most2, Register!Least2
<1>9. Register!Score(tier, n, stale, opinion, cred, debate) = Register!Clamp(weighed, 500, 9500)
  BY DEF Register!Score, weighed, raw, base
<1>10. QED
  BY <1>8, <1>9 DEF Register!Scores

LEMMA RegisterCounts ==
    \A S : Register!Cardinality(S) = Cardinality(S) /\ (Register!IsFiniteSet(S) <=> IsFiniteSet(S))
  BY DEF Register!Cardinality, Cardinality, Register!IsFiniteSet, IsFiniteSet

Present == Register!Present

Record == [statement : Statements, item : Items \cup {NoItem}, evidence : SUBSET Register!Entries,
           conf : Register!Scores, status : {"SUPPORTED", "DISPUTED"}]
Row == [statement : Statements, conf : Register!Scores, status : {"ACTIVE", "DISPUTED"}]

\* The records and the evidence they keep, each piece in one record.
RecordsInv ==
    /\ records = [c \in Register!Entries |-> records[c]]
    /\ \A c \in Present : records[c] \in Record
    /\ \A c \in Present : records[c].status = "DISPUTED" => records[c].conf <= 3500

EvidenceKept ==
    /\ IsFiniteSet(given)
    /\ \A g \in given : g[1] \in Nat /\ g[1] <= Cardinality(given)
    /\ \A c \in Present : c <= Cardinality(given)
    /\ \A c \in Present : \A e \in records[c].evidence : e \in Nat /\ e <= Cardinality(given)
    /\ \A c, d \in Present : c # d => records[c].evidence \cap records[d].evidence = {}
    /\ \A g \in given : \E c \in Present :
         /\ g[1] \in records[c].evidence
         /\ Register!Material(records[c].statement) = Register!Material(g[2])

\* Of a claim that clashed the score is as low as its largest number of clashes has it.
ClashesInv ==
    /\ rows = [c \in Register!Entries |-> rows[c]]
    /\ clashes \in [Register!Entries -> Nat]
    /\ \A c \in Register!Entries : rows[c] # Register!NoRow =>
         rows[c] \in Row
    /\ \A c \in Register!Entries : clashes[c] > 0 =>
         /\ rows[c] # Register!NoRow /\ rows[c].status = "DISPUTED"
         /\ rows[c].conf <= Register!Most2(500, Register!Decayed(3500, clashes[c] - 1))

PropositionsInv == RecordsInv /\ EvidenceKept /\ ClashesInv

LEMMA PropositionsStart ==
    ASSUME Register!Init
    PROVE  PropositionsInv
<1>1. /\ records = [c \in Register!Entries |-> Register!NoRow] /\ given = {}
      /\ rows = [c \in Register!Entries |-> Register!NoRow]
      /\ clashes = [c \in Register!Entries |-> 0]
  BY DEF Register!Init
<1>2. Present = {}
  BY <1>1 DEF Present, Register!Present, Register!NoRow
<1>3. RecordsInv
  BY <1>1, <1>2 DEF RecordsInv
<1>4. EvidenceKept
  BY <1>1, <1>2, FS_EmptySet DEF EvidenceKept
<1>5. ClashesInv
  BY <1>1 DEF ClashesInv
<1>6. QED
  BY <1>3, <1>4, <1>5 DEF PropositionsInv

LEMMA RecordsStay ==
    ASSUME RecordsInv, EvidenceKept, UNCHANGED <<records, given>>
    PROVE  RecordsInv' /\ EvidenceKept'
<1>1. Present' = Present
  BY DEF Present, Register!Present
<1>2. QED
  BY <1>1 DEF RecordsInv, EvidenceKept

LEMMA ClashesStay ==
    ASSUME ClashesInv, UNCHANGED <<rows, clashes>>
    PROVE  ClashesInv'
  BY DEF ClashesInv

LEMMA ScoreRange ==
    ASSUME NEW x, x \in Register!Scores
    PROVE  x \in Nat /\ x >= 500 /\ x <= 10000
  BY DEF Register!Scores

\* A new claim has a number of its own, and an evidence nobody else has.
LEMMA ClaimAdded ==
    ASSUME RecordsInv, EvidenceKept, NEW c \in Register!Entries, NEW s \in Statements,
           NEW item \in Items \cup {NoItem}, NEW sure \in Register!Scores,
           Register!Add(c, s, item, sure)
    PROVE  RecordsInv' /\ EvidenceKept'
<1> DEFINE new == [statement |-> s, item |-> item, evidence |-> {c}, conf |-> sure,
                   status |-> "SUPPORTED"]
<1>1. /\ c = Cardinality(given) + 1 /\ records' = [records EXCEPT ![c] = new]
      /\ given' = given \cup {<<c, s>>}
  BY RegisterCounts DEF Register!Add
<1>2. Cardinality(given) \in Nat /\ c \notin Present
  BY <1>1, FS_CardinalityType DEF EvidenceKept
<1>3. /\ new.statement = s /\ new.evidence = {c} /\ new.status = "SUPPORTED"
      /\ new \in Record
  BY DEF Record
<1> HIDE DEF new
<1>4. /\ records' = [d \in Register!Entries |-> records'[d]] /\ records'[c] = new
      /\ \A d \in Register!Entries : d # c => records'[d] = records[d]
  <2>1. records = [d \in Register!Entries |-> records[d]]
    BY DEF RecordsInv
  <2>2. QED
    BY <1>1, <2>1
<1>5. Present' = Present \cup {c} /\ Present \subseteq Register!Entries
  BY <1>3, <1>4 DEF Present, Register!Present
<1>6. \A d \in Present : d # c /\ records'[d] = records[d]
  BY <1>2, <1>4, <1>5
<1>7. RecordsInv'
  BY <1>3, <1>4, <1>5, <1>6 DEF RecordsInv
<1>8. IsFiniteSet(given') /\ Cardinality(given') = Cardinality(given) + 1
  <2>1. <<c, s>> \notin given
    BY <1>1, <1>2 DEF EvidenceKept
  <2>2. IsFiniteSet(given)
    BY DEF EvidenceKept
  <2>3. QED
    BY <1>1, <2>1, <2>2, FS_AddElement
<1>9. \A g \in given' : g[1] \in Nat /\ g[1] <= Cardinality(given')
  <2>1. ASSUME NEW g \in given'
        PROVE  g[1] \in Nat /\ g[1] <= Cardinality(given) + 1
    <3>1. CASE g \in given
      BY <1>2, <3>1 DEF EvidenceKept
    <3>2. CASE g = <<c, s>>
      BY <1>1, <1>2, <3>2
    <3>3. QED
      BY <1>1, <3>1, <3>2
  <2>2. QED
    BY <1>8, <2>1
<1>10. \A d \in Present' : d <= Cardinality(given')
  BY <1>1, <1>2, <1>5, <1>8 DEF EvidenceKept, Register!Entries
<1>11. \A d \in Present' : \A e \in records'[d].evidence : e \in Nat /\ e <= Cardinality(given')
  BY <1>1, <1>2, <1>3, <1>4, <1>5, <1>6, <1>8 DEF EvidenceKept
<1>12. ASSUME NEW d \in Present
       PROVE  records[d].evidence \cap {c} = {}
  BY <1>1, <1>2 DEF EvidenceKept
<1>13. \A d, e \in Present' : d # e => records'[d].evidence \cap records'[e].evidence = {}
  BY <1>3, <1>4, <1>5, <1>6, <1>12 DEF EvidenceKept
<1>14. ASSUME NEW g \in given'
       PROVE  \E d \in Present' :
                /\ g[1] \in records'[d].evidence
                /\ Register!Material(records'[d].statement) = Register!Material(g[2])
  <2>1. CASE g \in given
    <3>1. PICK d \in Present : /\ g[1] \in records[d].evidence
                               /\ Register!Material(records[d].statement) = Register!Material(g[2])
      BY <2>1 DEF EvidenceKept
    <3>2. d \in Present' /\ records'[d] = records[d]
      BY <1>5, <1>6
    <3>3. QED
      BY <3>1, <3>2
  <2>2. CASE g = <<c, s>>
    <3>1. c \in Present' /\ g[1] = c /\ g[2] = s
      BY <1>5, <2>2
    <3>2. c \in records'[c].evidence /\ records'[c].statement = s
      BY <1>3, <1>4
    <3>3. QED
      BY <3>1, <3>2
  <2>3. QED
    BY <1>1, <2>1, <2>2
<1>15. EvidenceKept'
  BY <1>8, <1>9, <1>10, <1>11, <1>13, <1>14 DEF EvidenceKept
<1>16. QED
  BY <1>7, <1>15

LEMMA ScoreLowered ==
    ASSUME NEW x, x \in Register!Scores
    PROVE  Register!Least2(x, 3500) \in Register!Scores /\ Register!Least2(x, 3500) <= 3500
  BY DEF Register!Least2, Register!Scores

LEMMA RecordParts ==
    ASSUME NEW r, r \in Record
    PROVE  /\ r.statement \in Statements /\ r.item \in Items \cup {NoItem}
           /\ r.evidence \subseteq Register!Entries /\ r.conf \in Register!Scores
           /\ r.status \in {"SUPPORTED", "DISPUTED"}
  BY DEF Record

LEMMA RecordMade ==
    ASSUME NEW s, s \in Statements, NEW item, item \in Items \cup {NoItem},
           NEW ev, ev \subseteq Register!Entries, NEW sure, sure \in Register!Scores,
           NEW status, status \in {"SUPPORTED", "DISPUTED"}
    PROVE  [statement |-> s, item |-> item, status |-> status, evidence |-> ev, conf |-> sure]
                \in Record
  BY DEF Record

LEMMA RecordDisputed ==
    ASSUME NEW r, r \in Record
    PROVE  LET new == [statement |-> r.statement, item |-> r.item, evidence |-> r.evidence,
                       status |-> "DISPUTED", conf |-> Register!Least2(r.conf, 3500)]
           IN  /\ new \in Record /\ new.status = "DISPUTED" /\ new.conf <= 3500
               /\ new.statement = r.statement /\ new.evidence = r.evidence
<1> DEFINE low == Register!Least2(r.conf, 3500)
           new == [statement |-> r.statement, item |-> r.item, evidence |-> r.evidence,
                   status |-> "DISPUTED", conf |-> low]
<1>1. /\ r.statement \in Statements /\ r.item \in Items \cup {NoItem}
      /\ r.evidence \subseteq Register!Entries /\ r.conf \in Register!Scores
  BY RecordParts
<1>2. low \in Register!Scores /\ low <= 3500
  BY <1>1, ScoreLowered
<1>3. /\ new \in Record /\ new.status = "DISPUTED" /\ new.conf <= 3500
      /\ new.statement = r.statement /\ new.evidence = r.evidence
  BY <1>1, <1>2 DEF Record
<1>4. QED
  BY <1>3

LEMMA ClaimDisputed ==
    ASSUME RecordsInv, EvidenceKept, NEW c \in Register!Entries, Register!DisputeClaim(c)
    PROVE  RecordsInv' /\ EvidenceKept'
<1> DEFINE old == records[c]
           new == [statement |-> old.statement, item |-> old.item, evidence |-> old.evidence,
                   status |-> "DISPUTED", conf |-> Register!Least2(old.conf, 3500)]
<1>1. c \in Present /\ records' = [records EXCEPT ![c] = new] /\ given' = given
  BY DEF Register!DisputeClaim, Present
<1>2. old \in Record
  BY <1>1 DEF RecordsInv
<1>3. /\ new \in Record
      /\ new.status = "DISPUTED" /\ new.conf <= 3500
      /\ new.statement = old.statement /\ new.evidence = old.evidence
  BY <1>2, RecordDisputed
<1> HIDE DEF new
<1>4. /\ records' = [d \in Register!Entries |-> records'[d]] /\ records'[c] = new
      /\ \A d \in Register!Entries : d # c => records'[d] = records[d]
  <2>1. records = [d \in Register!Entries |-> records[d]]
    BY DEF RecordsInv
  <2>2. QED
    BY <1>1, <2>1
<1>5. Present' = Present /\ Present \subseteq Register!Entries
  BY <1>1, <1>3, <1>4 DEF Present, Register!Present
<1>6. \A d \in Present : /\ records'[d].statement = records[d].statement
                         /\ records'[d].evidence = records[d].evidence
  BY <1>3, <1>4, <1>5
<1>7. RecordsInv'
  BY <1>3, <1>4, <1>5 DEF RecordsInv
<1>8. EvidenceKept'
  BY <1>1, <1>5, <1>6 DEF EvidenceKept
<1>9. QED
  BY <1>7, <1>8

\* Some records have a most certain one.
LEMMA SurestIs ==
    ASSUME NEW S, S # {}, \A d \in S : records[d].conf \in Register!Scores
    PROVE  Register!Surest(S) \in {records[d].conf : d \in S}
<1> DEFINE Confs == {records[d].conf : d \in S}
           Above == {n \in Nat : \A x \in Confs : x <= n}
<1>1. ASSUME NEW x \in Confs
      PROVE  x \in Nat /\ x >= 500 /\ x <= 10000
  <2>1. x \in Register!Scores
    OBVIOUS
  <2>2. QED
    BY <2>1, ScoreRange
<1>2. Above \in SUBSET Nat
  OBVIOUS
<1>3. 10000 \in Above
  BY <1>1
<1>4. PICK m \in Above : \A n \in Above : m <= n
  <2> HIDE DEF Above
  <2>1. QED
    BY <1>2, <1>3, LeastNatural
<1>5. m \in Confs
  <2> SUFFICES ASSUME m \notin Confs
               PROVE  FALSE
    OBVIOUS
  <2>1. PICK x \in Confs : TRUE
    OBVIOUS
  <2>2. m \in Nat /\ \A y \in Confs : y <= m /\ y # m /\ y \in Nat
    BY <1>1, <1>4
  <2>3. m # 0 /\ m - 1 \in Nat
    <3>1. x \in Nat /\ x >= 500 /\ x <= m
      BY <1>1, <2>2
    <3>2. QED
      BY <2>2, <3>1
  <2> HIDE DEF Confs
  <2>4. \A y \in Confs : y <= m - 1
    BY <2>2, <2>3
  <2>5. m - 1 \in Above
    BY <2>3, <2>4
  <2> HIDE DEF Above
  <2>6. m <= m - 1
    BY <1>4, <2>5
  <2>7. QED
    BY <2>2, <2>6
<1>6. \A d \in S : records[d].conf <= m
  BY <1>4
<1>7. QED
  BY <1>5, <1>6 DEF Register!Surest

\* What a record takes up is like it, comes later and is taken up by no other.
LEMMA TakenOnce ==
    ASSUME RecordsInv, NEW L, L \subseteq Present, NEW b \in L, NEW c \in L, b # c
    PROVE  (Register!TakenUp(L, b) \cup {b}) \cap (Register!TakenUp(L, c) \cup {c}) = {}
<1>1. \A e \in Present : e \in Nat
  BY DEF Present, Register!Present, Register!Entries
<1>2. b \in Nat /\ c \in Nat
  BY <1>1
<1>3. Register!TakenUp(L, b) \cap L = {} /\ Register!TakenUp(L, c) \cap L = {}
  BY DEF Register!TakenUp
<1>4. ASSUME NEW e \in Register!TakenUp(L, b), e \in Register!TakenUp(L, c)
      PROVE  FALSE
  <2>1. CASE b < c
    BY <1>4, <2>1 DEF Register!TakenUp
  <2>2. CASE c < b
    BY <1>4, <2>2 DEF Register!TakenUp
  <2>3. QED
    BY <1>2, <2>1, <2>2
<1>5. QED
  BY <1>3, <1>4

\* What does not stay is taken up by one that does, of the same proposition.
LEMMA TakenBySome ==
    ASSUME NEW L, L \subseteq Present, Register!Stay(L), NEW d \in Present, d \notin L
    PROVE  \E c \in L : /\ d \in Register!TakenUp(L, c)
                        /\ Register!Material(records[c].statement) = Register!Material(records[d].statement)
<1> DEFINE T == {b \in L : b < d /\ Register!Mergeable(records[b], records[d])}
<1>1. \A e \in Present : e \in Nat
  BY DEF Present, Register!Present, Register!Entries
<1>2. T # {}
  BY DEF Register!Stay, Present
<1>3. T \in SUBSET Nat
  BY <1>1
<1>4. PICK c \in T : \A b \in T : c <= b
  <2> HIDE DEF T
  <2>1. QED
    BY <1>2, <1>3, LeastNatural
<1>5. c \in L /\ c \in Nat /\ c < d /\ Register!Mergeable(records[c], records[d])
  BY <1>1, <1>4
<1>6. ASSUME NEW b \in L, b < c
      PROVE  ~Register!Mergeable(records[b], records[d])
  <2>1. b \in Nat /\ d \in Nat
    BY <1>1
  <2>2. b < d
    BY <1>5, <1>6, <2>1
  <2>3. ~(c <= b)
    BY <1>5, <1>6, <2>1
  <2>4. QED
    BY <1>4, <2>2, <2>3
<1>7. d \in Register!TakenUp(L, c)
  BY <1>5, <1>6 DEF Register!TakenUp, Present
<1>8. QED
  BY <1>5, <1>7 DEF Register!Mergeable

LEMMA Deduplicated ==
    ASSUME RecordsInv, EvidenceKept, Register!Deduplicate
    PROVE  RecordsInv' /\ EvidenceKept'
<1>1. PICK L : /\ L \subseteq Present /\ Register!Stay(L)
               /\ records' = [c \in Register!Entries |->
                      IF c \in L THEN Register!Merge(c, Register!TakenUp(L, c)) ELSE Register!NoRow]
  BY DEF Register!Deduplicate, Present
<1>2. given' = given /\ L \subseteq Register!Entries
  BY <1>1 DEF Register!Deduplicate, Present, Register!Present
<1> DEFINE Group(c) == Register!TakenUp(L, c) \cup {c}
<1>3. \A c \in L : c \in Group(c) /\ Group(c) \subseteq Present
  BY <1>1 DEF Register!TakenUp, Present
<1>4. \A c \in Present : records[c] \in Record
  BY DEF RecordsInv
<1>5. ASSUME NEW c \in L
      PROVE  /\ records'[c].statement = records[c].statement
             /\ records'[c].item = records[c].item
             /\ records'[c].status = records[c].status
             /\ records'[c].evidence = UNION {records[d].evidence : d \in Group(c)}
             /\ records'[c].conf = Register!Surest(Group(c))
             /\ records'[c] = [statement |-> records[c].statement, item |-> records[c].item,
                               status |-> records[c].status,
                               evidence |-> UNION {records[d].evidence : d \in Group(c)},
                               conf |-> Register!Surest(Group(c))]
  BY <1>1, <1>2 DEF Register!Merge
<1>6. \A c \in Register!Entries \ L : records'[c].status = "none"
  BY <1>1 DEF Register!NoRow
<1>7. \A c \in Present : records[c].status # "none"
  BY DEF Present, Register!Present
<1>8. Present' = L
  BY <1>1, <1>2, <1>5, <1>6, <1>7 DEF Present, Register!Present
<1>9. ASSUME NEW c \in L
      PROVE  Register!Surest(Group(c)) \in {records[d].conf : d \in Group(c)}
  <2>1. \A d \in Group(c) : records[d].conf \in Register!Scores
    <3>1. ASSUME NEW d \in Group(c)
          PROVE  records[d].conf \in Register!Scores
      <4>1. records[d] \in Record
        BY <1>3, <1>4
      <4>2. QED
        BY <4>1, RecordParts
    <3>2. QED
      BY <3>1
  <2>2. Group(c) # {}
    BY <1>3
  <2> HIDE DEF Group
  <2>3. QED
    BY <2>1, <2>2, SurestIs, Zenon
<1>10. ASSUME NEW c \in L
       PROVE  records'[c] \in Record
  <2>1. /\ records[c].statement \in Statements /\ records[c].item \in Items \cup {NoItem}
        /\ records[c].status \in {"SUPPORTED", "DISPUTED"}
    <3>1. records[c] \in Record
      BY <1>1, <1>4
    <3>2. QED
      BY <3>1, RecordParts
  <2>2. \A d \in Group(c) : records[d].evidence \subseteq Register!Entries
                            /\ records[d].conf \in Register!Scores
    <3>1. ASSUME NEW d \in Group(c)
          PROVE  records[d].evidence \subseteq Register!Entries /\ records[d].conf \in Register!Scores
      <4>1. records[d] \in Record
        BY <1>3, <1>4
      <4>2. QED
        BY <4>1, RecordParts
    <3>2. QED
      BY <3>1
  <2>3. UNION {records[d].evidence : d \in Group(c)} \subseteq Register!Entries
    BY <2>2
  <2>4. Register!Surest(Group(c)) \in Register!Scores
    BY <1>9, <2>2
  <2> DEFINE ev == UNION {records[d].evidence : d \in Group(c)}
             cf == Register!Surest(Group(c))
  <2>5. records'[c] = [statement |-> records[c].statement, item |-> records[c].item,
                       status |-> records[c].status, evidence |-> ev, conf |-> cf]
    BY <1>5
  <2>6. ev \subseteq Register!Entries /\ cf \in Register!Scores
    BY <2>3, <2>4
  <2> HIDE DEF ev, cf
  <2>7. QED
    BY <2>1, <2>5, <2>6, RecordMade
<1>11. ASSUME NEW c \in L, records'[c].status = "DISPUTED"
       PROVE  records'[c].conf <= 3500
  <2>1. records[c].status = "DISPUTED" /\ c \in Present
    BY <1>1, <1>5, <1>11
  <2>2. Group(c) = {c}
    BY <2>1 DEF Register!TakenUp, Register!Mergeable
  <2>3. records'[c].conf = records[c].conf
    BY <1>5, <1>9, <2>2
  <2>4. QED
    BY <2>1, <2>3 DEF RecordsInv
<1>12. records' = [c \in Register!Entries |-> records'[c]]
  BY <1>1
<1>13. RecordsInv'
  BY <1>8, <1>10, <1>11, <1>12 DEF RecordsInv
<1>14. ASSUME NEW c \in L, NEW e \in records'[c].evidence
       PROVE  \E d \in Group(c) : d \in Present /\ e \in records[d].evidence
  <2>1. e \in UNION {records[d].evidence : d \in Group(c)} /\ Group(c) \subseteq Present
    BY <1>3, <1>5, <1>14
  <2> HIDE DEF Group
  <2>2. QED
    BY <2>1
<1>15. \A c \in Present' : c <= Cardinality(given')
  BY <1>1, <1>2, <1>8 DEF EvidenceKept
<1>16. \A c \in Present' : \A e \in records'[c].evidence : e \in Nat /\ e <= Cardinality(given')
  <2> HIDE DEF Group
  <2>1. QED
    BY <1>2, <1>8, <1>14 DEF EvidenceKept
<1>17. ASSUME NEW b \in L, NEW c \in L, b # c
       PROVE  records'[b].evidence \cap records'[c].evidence = {}
  <2> SUFFICES ASSUME NEW e \in records'[b].evidence, e \in records'[c].evidence
               PROVE  FALSE
    OBVIOUS
  <2>1. PICK d \in Group(b) : d \in Present /\ e \in records[d].evidence
    BY <1>14
  <2>2. PICK f \in Group(c) : f \in Present /\ e \in records[f].evidence
    BY <1>14
  <2>3. d # f
    BY <1>1, <1>17, TakenOnce
  <2>4. QED
    BY <2>1, <2>2, <2>3 DEF EvidenceKept
<1>18. ASSUME NEW g \in given
       PROVE  \E c \in L :
                /\ g[1] \in records'[c].evidence
                /\ Register!Material(records'[c].statement) = Register!Material(g[2])
  <2>1. PICK d \in Present : /\ g[1] \in records[d].evidence
                             /\ Register!Material(records[d].statement) = Register!Material(g[2])
    BY DEF EvidenceKept
  <2>2. PICK c \in L : /\ d \in Group(c)
                       /\ Register!Material(records[c].statement) = Register!Material(records[d].statement)
    <3>1. CASE d \in L
      BY <1>3, <3>1
    <3>2. CASE d \notin L
      BY <1>1, <3>2, TakenBySome
    <3>3. QED
      BY <3>1, <3>2
  <2>3. g[1] \in records'[c].evidence
    BY <1>5, <2>1, <2>2
  <2>4. QED
    BY <1>5, <2>1, <2>2, <2>3
<1>19. EvidenceKept'
  BY <1>2, <1>8, <1>15, <1>16, <1>17, <1>18 DEF EvidenceKept
<1>20. QED
  BY <1>13, <1>19

LEMMA RowParts ==
    ASSUME NEW r, r \in Row
    PROVE  r.statement \in Statements /\ r.conf \in Register!Scores
  BY DEF Row

LEMMA RowMade ==
    ASSUME NEW s, s \in Statements, NEW sure, sure \in Register!Scores,
           NEW status, status \in {"ACTIVE", "DISPUTED"}
    PROVE  [statement |-> s, conf |-> sure, status |-> status] \in Row
  BY DEF Row

LEMMA RowAdded ==
    ASSUME ClashesInv, NEW c \in Register!Entries, NEW s \in Statements,
           NEW sure, sure \in Register!Scores, Register!AddRow(c, s, sure)
    PROVE  ClashesInv'
<1> DEFINE new == [statement |-> s, conf |-> sure, status |-> "ACTIVE"]
<1>1. rows[c] = Register!NoRow /\ rows' = [rows EXCEPT ![c] = new] /\ clashes' = clashes
  BY DEF Register!AddRow
<1>2. new \in Row
  BY RowMade
<1> HIDE DEF new
<1>3. /\ rows' = [d \in Register!Entries |-> rows'[d]] /\ rows'[c] = new
      /\ \A d \in Register!Entries : d # c => rows'[d] = rows[d]
  <2>1. rows = [d \in Register!Entries |-> rows[d]]
    BY DEF ClashesInv
  <2>2. QED
    BY <1>1, <2>1
<1>4. \A d \in Register!Entries : clashes[d] > 0 => d # c
  BY <1>1 DEF ClashesInv
<1>5. \A d \in Register!Entries : rows'[d] # Register!NoRow => rows'[d] \in Row
  BY <1>2, <1>3 DEF ClashesInv
<1>6. \A d \in Register!Entries : clashes'[d] > 0 =>
         /\ rows'[d] # Register!NoRow /\ rows'[d].status = "DISPUTED"
         /\ rows'[d].conf <= Register!Most2(500, Register!Decayed(3500, clashes'[d] - 1))
  BY <1>1, <1>3, <1>4 DEF ClashesInv
<1>7. clashes' \in [Register!Entries -> Nat]
  BY <1>1 DEF ClashesInv
<1>8. QED
  BY <1>3, <1>5, <1>6, <1>7 DEF ClashesInv

LEMMA ClashesCounted ==
    ASSUME NEW c
    PROVE  /\ Register!Cardinality(Register!Clashing(c)) \in Nat
           /\ Register!Clashing(c) = {} <=> Register!Cardinality(Register!Clashing(c)) = 0
<1>1. IsFiniteSet(Register!Entries)
  <2>1. MaxClaims \in Nat
    BY ExecutionAssumption DEF Register!LedgerAssumption
  <2>2. QED
    BY <2>1, FS_Interval DEF Register!Entries
<1>2. Register!Clashing(c) \subseteq Register!Entries
  BY DEF Register!Clashing
<1> DEFINE S == Register!Clashing(c)
<1> HIDE DEF S
<1>3. IsFiniteSet(S)
  BY <1>1, <1>2, FS_Subset DEF S
<1>4. Cardinality(S) \in Nat /\ (Cardinality(S) = 0 <=> S = {})
  BY <1>3, FS_CardinalityType, FS_EmptySet
<1>5. QED
  BY <1>4, RegisterCounts DEF S

\* Every claim in a conflict is left disputed, discounted for its clashes.
LEMMA ResolutionsApplied ==
    ASSUME ClashesInv, Register!ApplyResolutions
    PROVE  ClashesInv'
<1> DEFINE Count(c) == Register!Cardinality(Register!Clashing(c))
           Made(c) == [statement |-> rows[c].statement, status |-> "DISPUTED",
                       conf |-> Register!Discounted(rows[c].conf, Count(c))]
<1>1. /\ rows' = [c \in Register!Entries |->
                    IF Register!Clashing(c) = {} THEN rows[c] ELSE Made(c)]
      /\ clashes' = [c \in Register!Entries |-> Register!Most2(clashes[c], Count(c))]
  BY DEF Register!ApplyResolutions
<1>2. \A c : Count(c) \in Nat /\ (Register!Clashing(c) = {} <=> Count(c) = 0)
  BY ClashesCounted
<1> HIDE DEF Count
<1>3. ASSUME NEW c \in Register!Entries, Register!Clashing(c) = {}
      PROVE  rows'[c] = rows[c] /\ clashes'[c] = clashes[c]
  <2>1. clashes[c] \in Nat /\ Count(c) = 0
    BY <1>2, <1>3 DEF ClashesInv
  <2>2. Register!Most2(clashes[c], Count(c)) = clashes[c]
    BY <2>1 DEF Register!Most2
  <2>3. QED
    BY <1>1, <1>3, <2>2
<1>4. ASSUME NEW c \in Register!Entries, Register!Clashing(c) # {}
      PROVE  /\ rows'[c] \in Row /\ rows'[c] # Register!NoRow /\ rows'[c].status = "DISPUTED"
             /\ clashes'[c] \in Nat
             /\ rows'[c].conf <= Register!Most2(500, Register!Decayed(3500, clashes'[c] - 1))
  <2> DEFINE sure == Register!Discounted(rows[c].conf, Count(c))
  <2>1. rows[c] # Register!NoRow
    BY <1>4 DEF Register!Clashing
  <2>2. rows[c] \in Row
    BY <2>1 DEF ClashesInv
  <2>3. rows[c].statement \in Statements /\ rows[c].conf \in Register!Scores
    BY <2>2, RowParts
  <2>4. clashes[c] \in Nat /\ Count(c) \in Nat \ {0}
    BY <1>2, <1>4 DEF ClashesInv
  <2>5. clashes[c] > 0 =>
            rows[c].conf <= Register!Most2(500, Register!Decayed(3500, clashes[c] - 1))
    BY DEF ClashesInv
  <2>6. /\ sure \in Register!Scores
        /\ sure <= Register!Most2(500, Register!Decayed(3500, Register!Most2(clashes[c], Count(c)) - 1))
    BY <2>3, <2>4, <2>5, DiscountStays
  <2>7. rows'[c] = Made(c) /\ clashes'[c] = Register!Most2(clashes[c], Count(c))
    BY <1>1, <1>4
  <2> HIDE DEF sure
  <2>8. Made(c) = [statement |-> rows[c].statement, conf |-> sure, status |-> "DISPUTED"]
    BY DEF sure
  <2>9. Made(c) \in Row
    BY <2>3, <2>6, <2>8, RowMade
  <2>10. Made(c).status = "DISPUTED" /\ Made(c).conf = sure /\ Register!NoRow.status = "none"
    BY <2>8 DEF Register!NoRow
  <2>11. Register!Most2(clashes[c], Count(c)) \in Nat
    BY <2>4 DEF Register!Most2
  <2> HIDE DEF Made
  <2>12. Made(c) # Register!NoRow
    BY <2>10
  <2>13. QED
    BY <2>6, <2>7, <2>9, <2>10, <2>11, <2>12
<1>5. rows' = [c \in Register!Entries |-> rows'[c]]
  BY <1>1
<1>6. clashes' \in [Register!Entries -> Nat]
  <2>1. \A c \in Register!Entries : clashes'[c] \in Nat
    BY <1>3, <1>4 DEF ClashesInv
  <2>2. QED
    BY <1>1, <2>1
<1>7. \A c \in Register!Entries : rows'[c] # Register!NoRow => rows'[c] \in Row
  BY <1>3, <1>4 DEF ClashesInv
<1>8. \A c \in Register!Entries : clashes'[c] > 0 =>
         /\ rows'[c] # Register!NoRow /\ rows'[c].status = "DISPUTED"
         /\ rows'[c].conf <= Register!Most2(500, Register!Decayed(3500, clashes'[c] - 1))
  <2>1. ASSUME NEW c \in Register!Entries, clashes'[c] > 0
        PROVE  /\ rows'[c] # Register!NoRow /\ rows'[c].status = "DISPUTED"
               /\ rows'[c].conf <= Register!Most2(500, Register!Decayed(3500, clashes'[c] - 1))
    <3>1. CASE Register!Clashing(c) = {}
      BY <1>3, <2>1, <3>1 DEF ClashesInv
    <3>2. CASE Register!Clashing(c) # {}
      BY <1>4, <3>2
    <3>3. QED
      BY <3>1, <3>2
  <2>2. QED
    BY <2>1
<1>9. QED
  BY <1>5, <1>6, <1>7, <1>8 DEF ClashesInv

LEMMA RegistryStepped ==
    ASSUME PropositionsInv, Register!RegistryStep
    PROVE  PropositionsInv'
<1> USE DEF PropositionsInv
<1>1. UNCHANGED <<rows, clashes>>
  BY DEF Register!RegistryStep, Register!Add, Register!DisputeClaim, Register!Deduplicate
<1>2. ClashesInv'
  BY <1>1, ClashesStay
<1>3. CASE \E c \in Register!Entries, s \in Statements, item \in Items \cup {NoItem},
              sure \in Register!Scores : Register!Add(c, s, item, sure)
  BY <1>2, <1>3, ClaimAdded
<1>4. CASE \E c \in Register!Entries : Register!DisputeClaim(c)
  BY <1>2, <1>4, ClaimDisputed
<1>5. CASE Register!Deduplicate
  BY <1>2, <1>5, Deduplicated
<1>6. ASSUME NEW c \in Register!Entries, NEW s \in Statements, NEW item \in Items \cup {NoItem},
             NEW tier \in Tiers, NEW n \in 0 .. Corroborated, NEW penalty \in Penalties,
             NEW cred \in Credibilities, NEW debate \in Debates,
             Register!Add(c, s, item, Register!Score(tier, n, penalty[1], penalty[2], cred, debate))
      PROVE  \E sure \in Register!Scores : Register!Add(c, s, item, sure)
  BY <1>6, ScoresBounded
<1>7. QED
  BY <1>3, <1>4, <1>5, <1>6 DEF Register!RegistryStep

LEMMA ConflictStepped ==
    ASSUME PropositionsInv, Register!ConflictStep
    PROVE  PropositionsInv'
<1> USE DEF PropositionsInv
<1>1. UNCHANGED <<records, given>>
  BY DEF Register!ConflictStep, Register!AddRow, Register!ApplyResolutions
<1>2. RecordsInv' /\ EvidenceKept'
  BY <1>1, RecordsStay
<1>3. CASE \E c \in Register!Entries, s \in Statements, sure \in Register!Scores :
              Register!AddRow(c, s, sure)
  BY <1>2, <1>3, RowAdded
<1>4. CASE Register!ApplyResolutions
  BY <1>2, <1>4, ResolutionsApplied
<1>5. ASSUME NEW c \in Register!Entries, NEW s \in Statements, NEW tier \in Tiers,
             NEW debate \in Debates, NEW cred \in Credibilities,
             Register!AddRow(c, s, Register!Score(tier, 0, FALSE, FALSE, cred, debate))
      PROVE  \E sure \in Register!Scores : Register!AddRow(c, s, sure)
  <2>1. 0 \in 0 .. Corroborated
    BY ExecutionAssumption DEF Register!LedgerAssumption
  <2>2. QED
    BY <1>5, <2>1, ScoresBounded
<1>6. QED
  BY <1>3, <1>4, <1>5 DEF Register!ConflictStep

LEMMA PropositionsStepped ==
    ASSUME PropositionsInv, [Register!Next]_(Register!ledgerVars)
    PROVE  PropositionsInv'
<1>1. CASE Register!RegistryStep
  BY <1>1, RegistryStepped
<1>2. CASE Register!ConflictStep
  BY <1>2, ConflictStepped
<1>3. CASE UNCHANGED Register!ledgerVars
  <2>1. UNCHANGED <<records, given, rows, clashes>>
    BY <1>3 DEF Register!ledgerVars
  <2>2. QED
    BY <2>1, RecordsStay, ClashesStay DEF PropositionsInv
<1>4. QED
  BY <1>1, <1>2, <1>3 DEF Register!Next

LEMMA PropositionsFollow ==
    ASSUME PropositionsInv
    PROVE  PropositionsHold
<1>1. ASSUME NEW g \in given
      PROVE  \E c \in Present :
               /\ g[1] \in records[c].evidence
               /\ Register!Material(records[c].statement) = Register!Material(g[2])
               /\ \A d \in Present : g[1] \in records[d].evidence => d = c
  BY DEF PropositionsInv, EvidenceKept
<1>2. Register!EvidenceKeepsItsProposition
  BY <1>1 DEF Register!EvidenceKeepsItsProposition, Present
<1>3. Register!DisputedStaysLow
  BY DEF Register!DisputedStaysLow, PropositionsInv, RecordsInv, ClashesInv, Present
<1>4. QED
  BY <1>2, <1>3 DEF PropositionsHold, Register!PropositionsHold

\* Through every sequence of additions, disputes and deduplications each evidence stays with
\* one record of its own proposition, and what is disputed or was ever in a conflict keeps a
\* score at or below the discount for it, for every number of claims, statements, tiers,
\* penalties and similarity (claim_ledger.py 82-186, contradiction.py 256-359,
\* confidence.py).
THEOREM PropositionsKept == Register!Spec => []PropositionsHold
<1>1. Register!Init => PropositionsInv
  BY PropositionsStart
<1>2. PropositionsInv /\ [Register!Next]_(Register!ledgerVars) => PropositionsInv'
  BY PropositionsStepped
<1>3. PropositionsInv => PropositionsHold
  BY PropositionsFollow
<1>4. QED
  BY <1>1, <1>2, <1>3, PTL DEF Register!Spec
=============================================================================
