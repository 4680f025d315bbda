------------------------- MODULE SourceStoreProofs -------------------------
(***************************************************************************)
(* The safety of the source store for any retrievers, processes, crawlers, *)
(* locations, texts and number of faults.                                  *)
(***************************************************************************)
EXTENDS SourceStoreProps, SequenceTheorems, TLAPS

\* A retrieval about to store a plan.
Busy(x) == x \in Retrieval /\ x.plans # <<>>

\* What NextPlan leaves of a retrieval.
LEMMA NextPlanFacts ==
    ASSUME NEW x, Busy(x)
    PROVE  /\ NextPlan(x) \in Retrieval
           /\ NextPlan(x).pc \in {"look", "commit"}
           /\ NextPlan(x).pc = "look" => NextPlan(x).plans # <<>>
           /\ NextPlan(x).pending = x.pending
           /\ NextPlan(x).written = x.written
           /\ NextPlan(x).retrieved = x.retrieved
           /\ NextPlan(x).refused = x.refused
  <1>1. Tail(x.plans) \in Seq(Plan)
    BY HeadTailProperties DEF Busy, Retrieval
  <1>2. QED
    BY <1>1 DEF Busy, Retrieval, NextPlan

\* A refused plan leaves nothing in the transaction and itself among the failures.
LEMMA RefusedFacts ==
    ASSUME NEW x, Busy(x)
    PROVE  /\ Refused(x) \in Retrieval
           /\ Refused(x).pc \in {"look", "commit"}
           /\ Refused(x).pc = "look" => Refused(x).plans # <<>>
           /\ Refused(x).pending = {}
           /\ Refused(x).written = {}
           /\ Refused(x).refused # {}
  <1> DEFINE y == [x EXCEPT !.pending = {}, !.written = {},
                            !.refused = @ \cup {Head(x.plans)}]
  <1>1. Head(x.plans) \in Plan
    BY HeadTailProperties DEF Busy, Retrieval
  <1>2. /\ Busy(y)
        /\ y.pending = {} /\ y.written = {} /\ y.refused # {}
    BY <1>1 DEF Busy, Retrieval
  <1>3. Refused(x) = NextPlan(y)
    BY DEF Refused
  <1> HIDE DEF y
  <1>4. QED
    BY <1>2, <1>3, NextPlanFacts

LEMMA CurrentPlan ==
    ASSUME TypeOK, NEW r \in Retrievers, retriever[r].pc \in {"look", "insert", "store"}
    PROVE  Busy(retriever[r]) /\ Current(r) \in Plan
  <1>1. Busy(retriever[r])
    BY DEF TypeOK, Busy
  <1>2. QED
    BY <1>1, HeadTailProperties DEF Busy, Retrieval, Current

\* A step that gives a retriever a well-formed retrieval keeps the types of all.
LEMMA BecomeTyped ==
    ASSUME TypeOK, NEW r \in Retrievers, NEW x \in Retrieval, Become(r, x),
           x.pc \in {"wait", "look", "insert", "store"} => x.plans # <<>>
    PROVE  /\ retriever' \in [Retrievers -> Retrieval]
           /\ \A s \in Retrievers :
                retriever'[s].pc \in {"wait", "look", "insert", "store"}
                => retriever'[s].plans # <<>>
           /\ retriever'[r] = x
           /\ \A s \in Retrievers \ {r} : retriever'[s] = retriever[s]
  BY DEF TypeOK, Become

LEMMA StepTyped ==
    ASSUME TypeOK, NEW r \in Retrievers, Step(r) \/ Abort(r)
    PROVE  TypeOK'
  <1> USE StoreAssumption
  <1>a. retriever[r] \in Retrieval
    BY DEF TypeOK
  <1> DEFINE Typed(x) ==
        /\ x \in Retrieval
        /\ x.pc \in {"wait", "look", "insert", "store"} => x.plans # <<>>
  <1>b. ASSUME NEW x, Typed(x), Become(r, x),
               UNCHANGED <<source, document, article, crawler>>,
               lock' \in [Processes -> Retrievers \cup {None}],
               lost' \subseteq Retrievers \X Contents, faults' \in 0 .. MaxFaults
        PROVE  TypeOK'
    BY <1>b, BecomeTyped DEF TypeOK
  <1>c. ASSUME NEW x, Typed(x), Become(r, x),
               UNCHANGED <<source, document, article, crawler, lock, lost, faults>>
        PROVE  TypeOK'
    BY <1>b, <1>c DEF TypeOK
  <1>d. ASSUME retriever[r].left # <<>>
        PROVE  Head(retriever[r].left) \in Locations /\ Tail(retriever[r].left) \in Seq(Locations)
    BY <1>a, <1>d, HeadTailProperties DEF Retrieval
  <1>1. CASE FetchCached(r)
    <2>1. TextsAt(Head(retriever[r].left)) \subseteq Contents
      BY DEF TextsAt
    <2>2. Typed([retriever[r] EXCEPT !.left = Tail(@),
                     !.retrieved = @ \cup TextsAt(Head(retriever[r].left))])
      BY <1>1, <1>a, <1>d, <2>1 DEF FetchCached, Retrieval
    <2>3. QED
      BY <1>1, <1>c, <2>2 DEF FetchCached
  <1>2. ASSUME NEW c \in Contents, FetchNew(r, c)
        PROVE  TypeOK'
    <2> DEFINE p == [location |-> Head(retriever[r].left), content |-> c]
    <2>1. p \in Plan /\ Append(retriever[r].plans, p) \in Seq(Plan)
      BY <1>2, <1>a, <1>d DEF FetchNew, Retrieval, Plan
    <2>2. Typed([retriever[r] EXCEPT !.left = Tail(@), !.plans = Append(@, p)])
      BY <1>2, <1>a, <1>d, <2>1 DEF FetchNew, Retrieval
    <2>3. QED
      BY <1>2, <1>c, <2>2 DEF FetchNew
  <1>3. CASE FetchFailed(r)
    <2>1. Typed([retriever[r] EXCEPT !.left = Tail(@)])
      BY <1>3, <1>a, <1>d DEF FetchFailed, Retrieval
    <2>2. QED
      BY <1>3, <1>c, <2>1 DEF FetchFailed
  <1>4. CASE FetchRaises(r)
    <2>1. Typed([retriever[r] EXCEPT !.pc = "raised"])
      BY <1>a DEF Retrieval
    <2>2. QED
      BY <1>4, <1>c, <2>1 DEF FetchRaises
  <1>5. CASE FetchDone(r)
    <2>1. Typed([retriever[r] EXCEPT
                    !.pc = IF retriever[r].plans = <<>> THEN "done" ELSE "wait"])
      BY <1>a DEF Retrieval
    <2>2. QED
      BY <1>5, <1>c, <2>1 DEF FetchDone
  <1>6. CASE Acquire(r)
    <2>1. Typed([retriever[r] EXCEPT !.pc = "look"])
      BY <1>6, <1>a DEF Acquire, Retrieval, TypeOK
    <2>2. lock' \in [Processes -> Retrievers \cup {None}]
      BY <1>6 DEF Acquire, TypeOK
    <2>3. QED
      BY <1>6, <1>b, <2>1, <2>2 DEF Acquire, TypeOK
  <1>7. CASE Look(r)
    <2> DEFINE c == Current(r).content
               x == [retriever[r] EXCEPT !.retrieved = @ \cup {c}]
    <2>1. Busy(retriever[r]) /\ c \in Contents
      BY <1>7, CurrentPlan DEF Look, Plan
    <2>2. Busy(x)
      BY <2>1 DEF Busy, Retrieval
    <2>3. Typed(NextPlan(x))
      <3> HIDE DEF x
      <3>1. QED
        BY <2>2, NextPlanFacts
    <2>4. Typed([retriever[r] EXCEPT !.pc = "insert"])
      BY <2>1 DEF Busy, Retrieval
    <2>5. QED
      BY <1>7, <1>c, <2>3, <2>4 DEF Look
  <1>8. CASE Insert(r)
    <2>1. Busy(retriever[r]) /\ Current(r) \in Plan
      BY <1>8, CurrentPlan DEF Insert
    <2>2. Typed([retriever[r] EXCEPT !.pending = @ \cup {Current(r)}, !.pc = "store"])
      BY <2>1 DEF Busy, Retrieval
    <2>3. QED
      BY <1>8, <1>c, <2>2 DEF Insert
  <1>9. CASE InsertLost(r)
    <2>1. Busy(retriever[r]) /\ Current(r).content \in Contents
      BY <1>9, CurrentPlan DEF InsertLost, Plan
    <2>2. Typed(Refused(retriever[r]))
      BY <2>1, RefusedFacts
    <2>3. lost' \subseteq Retrievers \X Contents
      BY <1>9, <2>1 DEF InsertLost, TypeOK
    <2>4. QED
      BY <1>9, <1>b, <2>2, <2>3 DEF InsertLost, TypeOK
  <1>10. CASE InsertDeadlocked(r) \/ StoreRefused(r)
    <2>1. retriever[r].pc \in {"insert", "store"}
      BY <1>10 DEF InsertDeadlocked, Deadlocked, Blocks, StoreRefused
    <2>2. Typed(Refused(retriever[r]))
      BY <2>1, CurrentPlan, RefusedFacts
    <2>3. QED
      BY <1>10, <1>c, <2>2 DEF InsertDeadlocked, StoreRefused
  <1>11. CASE StoreDocument(r)
    <2> DEFINE c == Current(r).content
               x == [retriever[r] EXCEPT !.written = @ \cup {c}, !.retrieved = @ \cup {c}]
    <2>1. Busy(retriever[r]) /\ c \in Contents
      BY <1>11, CurrentPlan DEF StoreDocument, Plan
    <2>2. Busy(x)
      BY <2>1 DEF Busy, Retrieval
    <2>3. Typed(NextPlan(x))
      <3> HIDE DEF x
      <3>1. QED
        BY <2>2, NextPlanFacts
    <2>4. QED
      BY <1>11, <1>c, <2>3 DEF StoreDocument
  <1>12. CASE Commit(r)
    <2> DEFINE x == [retriever[r] EXCEPT !.pc = "done", !.pending = {}, !.written = {}]
    <2>1. Typed(x)
      BY <1>a DEF Retrieval
    <2>2. Committed(r) \in [Contents -> Entry \cup {NoEntry}]
      <3> SUFFICES ASSUME NEW c \in Contents
                   PROVE  Committed(r)[c] \in Entry \cup {NoEntry}
        BY DEF Committed
      <3>1. CASE c \in PendingContents(r)
        <4> DEFINE p == CHOOSE p \in retriever[r].pending : p.content = c
        <4>1. p \in retriever[r].pending
          BY <3>1 DEF PendingContents
        <4>2. p.location \in Locations
          BY <4>1, <1>a DEF Retrieval, Plan
        <4>3. Committed(r)[c] = [location |-> p.location, by |-> r]
          BY <3>1 DEF Committed
        <4>4. QED
          BY <4>2, <4>3 DEF Entry
      <3>2. CASE c \notin PendingContents(r)
        BY <3>2 DEF Committed, TypeOK
      <3>3. QED
        BY <3>1, <3>2
    <2>3. document' \subseteq Contents
      BY <1>12, <1>a DEF Commit, TypeOK, Retrieval
    <2>4. lock' \in [Processes -> Retrievers \cup {None}]
      BY <1>12 DEF Commit, TypeOK
    <2>5. Become(r, x)
      BY <1>12 DEF Commit
    <2> HIDE DEF x
    <2>6. QED
      BY <1>12, <2>1, <2>2, <2>3, <2>4, <2>5, BecomeTyped DEF Commit, TypeOK
  <1>13. CASE Abort(r)
    <2>1. Typed([retriever[r] EXCEPT !.pc = "aborted", !.pending = {}, !.written = {}])
      BY <1>a DEF Retrieval
    <2>2. lock' \in [Processes -> Retrievers \cup {None}]
      BY <1>13 DEF Abort, Released, TypeOK
    <2>3. faults' \in 0 .. MaxFaults
      BY <1>13 DEF Abort, TypeOK
    <2>4. QED
      BY <1>13, <1>b, <2>1, <2>2, <2>3 DEF Abort, TypeOK
  <1>14. QED
    BY <1>1, <1>2, <1>3, <1>4, <1>5, <1>6, <1>7, <1>8, <1>9, <1>10, <1>11, <1>12, <1>13
    DEF Step

LEMMA CrawlTyped ==
    ASSUME TypeOK, NEW w \in Crawlers,
           CrawlNew(w) \/ \E stored \in BOOLEAN : CrawlStore(w, stored)
    PROVE  TypeOK'
  BY StoreAssumption DEF TypeOK, CrawlNew, CrawlStore

LEMMA InitTyped == Init => TypeOK
  <1> SUFFICES ASSUME Init PROVE TypeOK
    OBVIOUS
  <1>1. \A r \in Retrievers : Batch[r] \in Seq(Locations)
    BY StoreAssumption
  <1>2. retriever \in [Retrievers -> Retrieval]
    BY <1>1 DEF Init, Retrieval
  <1>3. \A r \in Retrievers : retriever[r].pc = "fetch"
    BY DEF Init
  <1>4. /\ source \in [Contents -> Entry \cup {NoEntry}]
        /\ document \subseteq Contents /\ article \subseteq Locations
        /\ crawler \in [Crawlers -> {"new", "fetching", "done"}]
        /\ lock \in [Processes -> Retrievers \cup {None}]
        /\ lost \subseteq Retrievers \X Contents
    BY DEF Init
  <1>5. faults \in 0 .. MaxFaults
    BY StoreAssumption DEF Init
  <1>6. QED
    BY <1>2, <1>3, <1>4, <1>5 DEF TypeOK

\* The store, the transactions, the crawlers and the locks keep their types.
THEOREM StoreTyped == Spec => []TypeOK
  <1>1. TypeOK /\ [Next]_vars => TypeOK'
    <2> SUFFICES ASSUME TypeOK, [Next]_vars PROVE TypeOK'
      OBVIOUS
    <2>1. CASE Next
      BY <2>1, StepTyped, CrawlTyped DEF Next
    <2>2. CASE UNCHANGED vars
      BY <2>2 DEF vars, TypeOK
    <2>3. QED
      BY <2>1, <2>2
  <1>2. QED
    BY <1>1, InitTyped, PTL DEF Spec

-----------------------------------------------------------------------------
(* The inductive invariant *)

\* Of the retrievers only r takes part in a step.
Alone(r) == \A s \in Retrievers \ {r} : retriever'[s] = retriever[s]

\* What a retriever that keeps its transaction may do.
LEMMA Quiet ==
    ASSUME StoreInv, NEW r \in Retrievers, NEW x, retriever'[r] = x, Alone(r),
           UNCHANGED <<source, document, lock, lost>>,
           x.pending = retriever[r].pending, x.written = retriever[r].written,
           x.refused = retriever[r].refused,
           x.retrieved \subseteq retriever[r].retrieved \cup document \cup retriever[r].written,
           retriever[r].pc \notin {"store", "aborted"}, x.pc # "store",
           x.pc \in {"look", "insert", "commit"} <=> Holds(r),
           x.pc = "insert" => ~Stored(Head(x.plans).content)
    PROVE  StoreInv'
  <1>1. \A s \in Retrievers : PendingContents(s)' = PendingContents(s)
    BY DEF PendingContents, Alone
  <1>2. \A c : Stored(c)' <=> Stored(c)
    BY DEF Stored
  <1>3. \A s \in Retrievers : Holds(s)' <=> Holds(s)
    BY DEF Holds, Alone
  <1>4. LockInv'
    BY <1>2, <1>3 DEF StoreInv, LockInv, Alone, Current
  <1>5. UniqueInv'
    BY <1>1, <1>2 DEF StoreInv, UniqueInv
  <1>6. PairInv'
    BY <1>1, <1>3 DEF StoreInv, PairInv, Alone, Current
  <1>7. ReportInv'
    <2> SUFFICES ASSUME NEW s \in Retrievers,
                        retriever'[s].refused = {}, retriever'[s].pc # "aborted"
                 PROVE  retriever'[s].retrieved \subseteq document' \cup retriever'[s].written
      BY DEF ReportInv
    <2>1. CASE s = r
      BY <2>1 DEF StoreInv, ReportInv
    <2>2. CASE s # r
      BY <2>2 DEF StoreInv, ReportInv, Alone
    <2>3. QED
      BY <2>1, <2>2
  <1>8. StoredHasDocument' /\ RacesCrossProcesses'
    BY <1>2 DEF StoreInv, StoredHasDocument, RacesCrossProcesses
  <1>9. QED
    BY <1>4, <1>5, <1>6, <1>7, <1>8 DEF StoreInv

\* What a retriever whose transaction is rolled back may do.
LEMMA Undone ==
    ASSUME StoreInv, NEW r \in Retrievers, NEW x, retriever'[r] = x, Alone(r),
           UNCHANGED <<source, document>>,
           x.pending = {}, x.written = {}, x.refused # {} \/ x.pc = "aborted",
           x.pc \in {"look", "commit", "aborted"},
           x.pc # "aborted" => Holds(r) /\ lock' = lock,
           \A s \in Retrievers \ {r} : Holds(s) => lock'[ProcessOf[s]] = s,
           \A y \in lost' \ lost :
              Stored(y[2]) /\ ProcessOf[source[y[2]].by] # ProcessOf[y[1]]
    PROVE  StoreInv'
  <1>1. /\ PendingContents(r)' = {}
        /\ \A s \in Retrievers \ {r} : PendingContents(s)' = PendingContents(s)
    BY DEF PendingContents, Alone
  <1>2. \A c : Stored(c)' <=> Stored(c)
    BY DEF Stored
  <1>3. \A s \in Retrievers \ {r} : Holds(s)' <=> Holds(s)
    BY DEF Holds, Alone
  <1>4. Holds(r)' => Holds(r) /\ lock' = lock
    BY DEF Holds
  <1>5. LockInv'
    BY <1>2, <1>3, <1>4 DEF StoreInv, LockInv, Alone, Current
  <1>6. UniqueInv'
    BY <1>1, <1>2 DEF StoreInv, UniqueInv
  <1>7. PairInv'
    BY <1>1, <1>3 DEF StoreInv, PairInv, Alone, Current
  <1>8. ReportInv'
    BY DEF StoreInv, ReportInv, Alone
  <1>9. StoredHasDocument' /\ RacesCrossProcesses'
    BY <1>2 DEF StoreInv, StoredHasDocument, RacesCrossProcesses
  <1>10. QED
    BY <1>5, <1>6, <1>7, <1>8, <1>9 DEF StoreInv

LEMMA BecomeAlone ==
    ASSUME TypeOK, NEW r \in Retrievers, NEW x, Become(r, x)
    PROVE  retriever'[r] = x /\ Alone(r)
  BY DEF TypeOK, Become, Alone

LEMMA QuietSteps ==
    ASSUME TypeOK, StoreInv, NEW r \in Retrievers,
           \/ FetchCached(r) \/ FetchFailed(r) \/ FetchRaises(r) \/ FetchDone(r)
           \/ \E c \in Contents : FetchNew(r, c)
           \/ Look(r)
    PROVE  StoreInv'
  <1>a. retriever[r] \in Retrieval
    BY DEF TypeOK
  <1> DEFINE Q(x) ==
        /\ x.pending = retriever[r].pending /\ x.written = retriever[r].written
        /\ x.refused = retriever[r].refused
        /\ x.retrieved \subseteq retriever[r].retrieved \cup document \cup retriever[r].written
        /\ x.pc # "store"
        /\ x.pc \in {"look", "insert", "commit"} <=> Holds(r)
        /\ x.pc = "insert" => ~Stored(Head(x.plans).content)
  <1>b. ASSUME NEW x, Q(x), Become(r, x), retriever[r].pc \notin {"store", "aborted"},
               UNCHANGED <<source, document, lock, lost>>
        PROVE  StoreInv'
    <2>1. retriever'[r] = x /\ Alone(r)
      BY <1>b, BecomeAlone
    <2>2. QED
      BY <1>b, <2>1, Quiet
  <1>1. CASE FetchCached(r)
    <2>1. TextsAt(Head(retriever[r].left)) \subseteq document
      <3>1. \A c \in TextsAt(Head(retriever[r].left)) : Stored(c)
        BY <1>1, <1>a, HeadTailProperties, StoreAssumption
        DEF FetchCached, Retrieval, TextsAt, Stored, NoEntry
      <3>2. QED
        BY <3>1 DEF TextsAt, StoreInv, StoredHasDocument
    <2>2. Q([retriever[r] EXCEPT !.left = Tail(@),
                !.retrieved = @ \cup TextsAt(Head(retriever[r].left))])
      BY <1>1, <1>a, <2>1 DEF FetchCached, Retrieval, Holds
    <2>3. QED
      BY <1>1, <1>b, <2>2 DEF FetchCached
  <1>2. ASSUME NEW c \in Contents, FetchNew(r, c)
        PROVE  StoreInv'
    <2>1. Q([retriever[r] EXCEPT !.left = Tail(@),
                !.plans = Append(@, [location |-> Head(retriever[r].left), content |-> c])])
      BY <1>2, <1>a DEF FetchNew, Retrieval, Holds
    <2>2. QED
      BY <1>2, <1>b, <2>1 DEF FetchNew
  <1>3. CASE FetchFailed(r)
    <2>1. Q([retriever[r] EXCEPT !.left = Tail(@)])
      BY <1>3, <1>a DEF FetchFailed, Retrieval, Holds
    <2>2. QED
      BY <1>3, <1>b, <2>1 DEF FetchFailed
  <1>4. CASE FetchRaises(r)
    <2>1. Q([retriever[r] EXCEPT !.pc = "raised"])
      BY <1>4, <1>a DEF FetchRaises, Retrieval, Holds
    <2>2. QED
      BY <1>4, <1>b, <2>1 DEF FetchRaises
  <1>5. CASE FetchDone(r)
    <2>1. Q([retriever[r] EXCEPT
                !.pc = IF retriever[r].plans = <<>> THEN "done" ELSE "wait"])
      BY <1>5, <1>a DEF FetchDone, Retrieval, Holds
    <2>2. QED
      BY <1>5, <1>b, <2>1 DEF FetchDone
  <1>6. CASE Look(r)
    <2> DEFINE c == Current(r).content
               x == [retriever[r] EXCEPT !.retrieved = @ \cup {c}]
    <2>1. Busy(retriever[r]) /\ c \in Contents /\ retriever[r].pc = "look"
      BY <1>6, CurrentPlan DEF Look, Plan
    <2>2. CASE Stored(c) \/ c \in PendingContents(r)
      <3>1. c \in document \cup retriever[r].written
        BY <2>1, <2>2 DEF StoreInv, StoredHasDocument, PairInv
      <3>2. Busy(x) /\ x.retrieved = retriever[r].retrieved \cup {c}
            /\ x.pending = retriever[r].pending /\ x.written = retriever[r].written
            /\ x.refused = retriever[r].refused
        BY <2>1 DEF Busy, Retrieval
      <3>3. Q(NextPlan(x))
        <4> HIDE DEF x
        <4>1. QED
          BY <2>1, <3>1, <3>2, NextPlanFacts DEF Holds
      <3>4. QED
        BY <1>6, <1>b, <2>1, <2>2, <3>3 DEF Look
    <2>3. CASE ~(Stored(c) \/ c \in PendingContents(r))
      <3>1. Q([retriever[r] EXCEPT !.pc = "insert"])
        BY <2>1, <2>3 DEF Busy, Retrieval, Holds, Current
      <3>2. QED
        BY <1>6, <1>b, <2>1, <2>3, <3>1 DEF Look
    <2>4. QED
      BY <2>2, <2>3
  <1>7. QED
    BY <1>1, <1>2, <1>3, <1>4, <1>5, <1>6

LEMMA UndoneSteps ==
    ASSUME TypeOK, StoreInv, NEW r \in Retrievers,
           InsertLost(r) \/ InsertDeadlocked(r) \/ StoreRefused(r) \/ Abort(r)
    PROVE  StoreInv'
  <1>1. CASE Abort(r)
    <2> DEFINE x == [retriever[r] EXCEPT !.pc = "aborted", !.pending = {}, !.written = {}]
    <2>1. x.pending = {} /\ x.written = {} /\ x.pc = "aborted"
      BY DEF TypeOK, Retrieval
    <2>2. \A s \in Retrievers \ {r} : Holds(s) => lock'[ProcessOf[s]] = s
      BY <1>1, StoreAssumption DEF Abort, Released, StoreInv, LockInv
    <2>3. Become(r, x)
      BY <1>1 DEF Abort
    <2> HIDE DEF x
    <2>4. retriever'[r] = x /\ Alone(r)
      BY <2>3, BecomeAlone
    <2>5. QED
      BY <1>1, <2>1, <2>2, <2>4, Undone DEF Abort
  <1>2. CASE InsertLost(r) \/ InsertDeadlocked(r) \/ StoreRefused(r)
    <2>1. retriever[r].pc \in {"insert", "store"}
      BY <1>2 DEF InsertLost, InsertDeadlocked, Deadlocked, Blocks, StoreRefused
    <2>2. Busy(retriever[r])
      BY <2>1, CurrentPlan
    <2>3. retriever'[r] = Refused(retriever[r]) /\ Alone(r)
      BY <1>2, BecomeAlone DEF InsertLost, InsertDeadlocked, StoreRefused
    <2>4. /\ Holds(r)
          /\ UNCHANGED <<source, document, lock>>
          /\ \A s \in Retrievers \ {r} : Holds(s) => lock'[ProcessOf[s]] = s
      BY <1>2, <2>1 DEF Holds, InsertLost, InsertDeadlocked, StoreRefused, StoreInv, LockInv
    <2>5. \A y \in lost' \ lost :
             Stored(y[2]) /\ ProcessOf[source[y[2]].by] # ProcessOf[y[1]]
      BY <1>2 DEF InsertLost, InsertDeadlocked, StoreRefused, StoreInv, LockInv
    <2>6. QED
      BY <2>2, <2>3, <2>4, <2>5, RefusedFacts, Undone
  <1>3. QED
    BY <1>1, <1>2

LEMMA AcquireStep ==
    ASSUME TypeOK, StoreInv, NEW r \in Retrievers, Acquire(r)
    PROVE  StoreInv'
  <1> DEFINE x == [retriever[r] EXCEPT !.pc = "look"]
  <1>1. /\ x.pc = "look" /\ x.pending = retriever[r].pending
        /\ x.written = retriever[r].written /\ x.retrieved = retriever[r].retrieved
        /\ x.refused = retriever[r].refused
    BY DEF TypeOK, Retrieval
  <1>2. Become(r, x) /\ UNCHANGED <<source, document, lost>> /\ retriever[r].pc = "wait"
    BY DEF Acquire
  <1> HIDE DEF x
  <1>3. retriever'[r] = x /\ Alone(r)
    BY <1>2, BecomeAlone
  <1>4. LockInv'
    <2>1. \A s \in Retrievers \ {r} : Holds(s) => ProcessOf[s] # ProcessOf[r]
      BY StoreAssumption DEF Acquire, LockFree, StoreInv, LockInv
    <2>2. lock' = [lock EXCEPT ![ProcessOf[r]] = r] /\ ProcessOf[r] \in Processes
      BY StoreAssumption DEF Acquire
    <2>3. \A s \in Retrievers : Holds(s)' => lock'[ProcessOf[s]] = s
      BY <1>3, <2>1, <2>2 DEF StoreInv, LockInv, Holds, Alone, TypeOK
    <2>4. QED
      BY <1>1, <1>2, <1>3, <2>3 DEF StoreInv, LockInv, Alone, Stored, Current
  <1>5. UniqueInv'
    BY <1>1, <1>2, <1>3 DEF StoreInv, UniqueInv, Alone, PendingContents, Stored
  <1>6. PairInv'
    BY <1>1, <1>2, <1>3 DEF StoreInv, PairInv, Alone, PendingContents, Holds, Current
  <1>7. ReportInv'
    BY <1>1, <1>2, <1>3 DEF StoreInv, ReportInv, Alone
  <1>8. StoredHasDocument' /\ RacesCrossProcesses'
    BY <1>2 DEF StoreInv, StoredHasDocument, RacesCrossProcesses, Stored
  <1>9. QED
    BY <1>4, <1>5, <1>6, <1>7, <1>8 DEF StoreInv

LEMMA InsertStep ==
    ASSUME TypeOK, StoreInv, NEW r \in Retrievers, Insert(r)
    PROVE  StoreInv'
  <1> DEFINE c == Current(r).content
             x == [retriever[r] EXCEPT !.pending = @ \cup {Current(r)}, !.pc = "store"]
  <1>1. Busy(retriever[r])
    BY CurrentPlan DEF Insert
  <1>2. /\ x.pc = "store" /\ x.pending = retriever[r].pending \cup {Current(r)}
        /\ x.written = retriever[r].written /\ x.retrieved = retriever[r].retrieved
        /\ x.refused = retriever[r].refused /\ x.plans = retriever[r].plans
    BY <1>1 DEF Busy, Retrieval
  <1>3. Become(r, x) /\ UNCHANGED <<source, document, lock, lost>>
    BY DEF Insert
  <1> HIDE DEF x
  <1>4. retriever'[r] = x /\ Alone(r)
    BY <1>3, BecomeAlone
  <1>5. retriever[r].pc = "insert" /\ ~Stored(c)
    BY DEF Insert
  <1>6. \A s \in Retrievers \ {r} : c \notin PendingContents(s)
    BY <1>5 DEF Insert, Blocks
  <1>7. /\ PendingContents(r)' = PendingContents(r) \cup {c}
        /\ \A s \in Retrievers \ {r} : PendingContents(s)' = PendingContents(s)
    BY <1>2, <1>4 DEF PendingContents, Alone
  <1>8. \A d : Stored(d)' <=> Stored(d)
    BY <1>3 DEF Stored
  <1>9. \A s \in Retrievers : Holds(s)' <=> Holds(s)
    BY <1>2, <1>4, <1>5 DEF Holds, Alone
  <1>10. LockInv'
    BY <1>2, <1>3, <1>4, <1>8, <1>9 DEF StoreInv, LockInv, Alone, Current
  <1>11. UniqueInv'
    BY <1>5, <1>6, <1>7, <1>8 DEF StoreInv, UniqueInv
  <1>12. PairInv'
    <2>1. Current(r)' = Current(r)
      BY <1>2, <1>4 DEF Current
    <2>2. PendingContents(r)' = retriever'[r].written \cup {Current(r)'.content}
      BY <1>2, <1>4, <1>5, <1>7, <2>1 DEF StoreInv, PairInv
    <2>3. Holds(r)' /\ retriever'[r].pc = "store"
      BY <1>2, <1>4 DEF Holds
    <2>4. \A s \in Retrievers \ {r} :
             /\ PendingContents(s)' = IF retriever'[s].pc = "store"
                                      THEN retriever'[s].written \cup {Current(s)'.content}
                                      ELSE retriever'[s].written
             /\ ~Holds(s)' => retriever'[s].pending = {}
      BY <1>4, <1>7, <1>9 DEF StoreInv, PairInv, Alone, Current
    <2>5. QED
      BY <2>2, <2>3, <2>4 DEF PairInv
  <1>13. ReportInv'
    BY <1>2, <1>3, <1>4, <1>5 DEF StoreInv, ReportInv, Alone
  <1>14. StoredHasDocument' /\ RacesCrossProcesses'
    BY <1>3, <1>8 DEF StoreInv, StoredHasDocument, RacesCrossProcesses
  <1>15. QED
    BY <1>10, <1>11, <1>12, <1>13, <1>14 DEF StoreInv

LEMMA StoreDocumentStep ==
    ASSUME TypeOK, StoreInv, NEW r \in Retrievers, StoreDocument(r)
    PROVE  StoreInv'
  <1> DEFINE c == Current(r).content
             y == [retriever[r] EXCEPT !.written = @ \cup {c}, !.retrieved = @ \cup {c}]
             x == NextPlan(y)
  <1>1. Busy(retriever[r]) /\ c \in Contents
    BY CurrentPlan DEF StoreDocument, Plan
  <1>2. /\ Busy(y) /\ y.pending = retriever[r].pending
        /\ y.written = retriever[r].written \cup {c}
        /\ y.retrieved = retriever[r].retrieved \cup {c}
        /\ y.refused = retriever[r].refused
    BY <1>1 DEF Busy, Retrieval
  <1>3. Become(r, x) /\ UNCHANGED <<source, document, lock, lost>>
    BY DEF StoreDocument
  <1> HIDE DEF y
  <1>4. /\ x.pc \in {"look", "commit"} /\ x.pending = retriever[r].pending
        /\ x.written = retriever[r].written \cup {c}
        /\ x.retrieved = retriever[r].retrieved \cup {c}
        /\ x.refused = retriever[r].refused
    BY <1>2, NextPlanFacts
  <1> HIDE DEF x
  <1>5. retriever'[r] = x /\ Alone(r)
    BY <1>3, BecomeAlone
  <1>6. retriever[r].pc = "store"
    BY DEF StoreDocument
  <1>7. \A s \in Retrievers : PendingContents(s)' = PendingContents(s)
    BY <1>4, <1>5 DEF PendingContents, Alone
  <1>8. \A d : Stored(d)' <=> Stored(d)
    BY <1>3 DEF Stored
  <1>9. \A s \in Retrievers : Holds(s)' <=> Holds(s)
    BY <1>4, <1>5, <1>6 DEF Holds, Alone
  <1>10. LockInv'
    BY <1>3, <1>4, <1>5, <1>8, <1>9 DEF StoreInv, LockInv, Alone, Current
  <1>11. UniqueInv'
    BY <1>7, <1>8 DEF StoreInv, UniqueInv
  <1>12. PairInv'
    <2>1. PendingContents(r) = retriever[r].written \cup {c}
      BY <1>6 DEF StoreInv, PairInv
    <2>2. Holds(r)'
      BY <1>4, <1>5 DEF Holds
    <2>3. /\ PendingContents(r)' = retriever'[r].written
          /\ retriever'[r].pc # "store"
      BY <1>4, <1>5, <1>7, <2>1
    <2>4. \A s \in Retrievers \ {r} :
             /\ PendingContents(s)' = IF retriever'[s].pc = "store"
                                      THEN retriever'[s].written \cup {Current(s)'.content}
                                      ELSE retriever'[s].written
             /\ ~Holds(s)' => retriever'[s].pending = {}
      BY <1>5, <1>7, <1>9 DEF StoreInv, PairInv, Alone, Current
    <2>5. QED
      BY <2>2, <2>3, <2>4 DEF PairInv
  <1>13. ReportInv'
    BY <1>3, <1>4, <1>5, <1>6 DEF StoreInv, ReportInv, Alone
  <1>14. StoredHasDocument' /\ RacesCrossProcesses'
    BY <1>3, <1>8 DEF StoreInv, StoredHasDocument, RacesCrossProcesses
  <1>15. QED
    BY <1>10, <1>11, <1>12, <1>13, <1>14 DEF StoreInv

\* A commit stores exactly its pending texts, and takes no stored one over.
LEMMA CommitStores ==
    ASSUME TypeOK, StoreInv, NEW r \in Retrievers, Commit(r)
    PROVE  /\ \A c \in Contents : Stored(c)' <=> Stored(c) \/ c \in PendingContents(r)
           /\ \A c \in Contents : Stored(c) => source'[c] = source[c]
           /\ \A c \in Contents : ~Stored(c) /\ Stored(c)' => source'[c].by = r
  <1>1. source' = Committed(r)
    BY DEF Commit
  <1>2. SUFFICES ASSUME NEW c \in Contents
                 PROVE  /\ Stored(c)' <=> Stored(c) \/ c \in PendingContents(r)
                        /\ Stored(c) => source'[c] = source[c]
                        /\ ~Stored(c) /\ Stored(c)' => source'[c].by = r
    OBVIOUS
  <1>3. CASE c \in PendingContents(r)
    <2> DEFINE l == (CHOOSE p \in retriever[r].pending : p.content = c).location
    <2>1. source'[c] = [location |-> l, by |-> r]
      BY <1>1, <1>3 DEF Committed
    <2> HIDE DEF l
    <2>2. source'[c].by = r /\ source'[c] # NoEntry
      BY <2>1, StoreAssumption DEF NoEntry
    <2>3. ~Stored(c)
      BY <1>3 DEF StoreInv, UniqueInv
    <2>4. QED
      BY <1>3, <2>2, <2>3 DEF Stored
  <1>4. CASE c \notin PendingContents(r)
    BY <1>1, <1>4 DEF Committed, Stored
  <1>5. QED
    BY <1>3, <1>4

LEMMA CommitStep ==
    ASSUME TypeOK, StoreInv, NEW r \in Retrievers, Commit(r)
    PROVE  StoreInv'
  <1> DEFINE x == [retriever[r] EXCEPT !.pc = "done", !.pending = {}, !.written = {}]
  <1>1. /\ x.pc = "done" /\ x.pending = {} /\ x.written = {}
        /\ x.retrieved = retriever[r].retrieved /\ x.refused = retriever[r].refused
    BY DEF TypeOK, Retrieval
  <1>2. /\ Become(r, x) /\ lost' = lost
        /\ document' = document \cup retriever[r].written
        /\ lock' = [lock EXCEPT ![ProcessOf[r]] = None]
        /\ retriever[r].pc = "commit"
    BY DEF Commit
  <1> HIDE DEF x
  <1>3. retriever'[r] = x /\ Alone(r)
    BY <1>2, BecomeAlone
  <1>4. /\ PendingContents(r)' = {}
        /\ \A s \in Retrievers \ {r} : PendingContents(s)' = PendingContents(s)
    BY <1>1, <1>3 DEF PendingContents, Alone
  <1>5. ~Holds(r)' /\ Holds(r) /\ \A s \in Retrievers \ {r} : Holds(s)' <=> Holds(s)
    BY <1>1, <1>2, <1>3 DEF Holds, Alone
  <1>6. \A s \in Retrievers \ {r} : Holds(s) => ProcessOf[s] # ProcessOf[r]
    BY <1>5 DEF StoreInv, LockInv
  <1>7. LockInv'
    <2>1. \A s \in Retrievers : Holds(s)' => lock'[ProcessOf[s]] = s
      BY <1>2, <1>3, <1>5, <1>6 DEF StoreInv, LockInv, TypeOK
    <2>2. ASSUME NEW s \in Retrievers, retriever'[s].pc = "insert",
                 Stored(Current(s).content)'
          PROVE  ProcessOf[source'[Current(s).content].by] # ProcessOf[s]
      <3>1. s # r /\ retriever'[s] = retriever[s] /\ Holds(s)
        BY <1>1, <1>3, <2>2 DEF Alone, Holds
      <3>2. Current(s).content \in Contents /\ Current(s)' = Current(s)
        BY <2>2, <3>1, CurrentPlan DEF Plan, Current
      <3>3. CASE Stored(Current(s).content)
        BY <2>2, <3>1, <3>2, <3>3, CommitStores DEF StoreInv, LockInv
      <3>4. CASE ~Stored(Current(s).content)
        BY <1>6, <2>2, <3>1, <3>2, <3>4, CommitStores
      <3>5. QED
        BY <3>3, <3>4
    <2>3. \A s \in Retrievers : retriever'[s].pc = "insert" => Current(s)' = Current(s)
      BY <1>1, <1>3 DEF Alone, Current
    <2>4. QED
      BY <2>1, <2>2, <2>3 DEF LockInv
  <1>8. UniqueInv'
    <2>1. ASSUME NEW s \in Retrievers \ {r}, NEW c \in PendingContents(s)
          PROVE  ~Stored(c)'
      <3>1. c \in Contents
        BY DEF PendingContents, TypeOK, Retrieval, Plan
      <3>2. ~Stored(c) /\ c \notin PendingContents(r)
        BY DEF StoreInv, UniqueInv
      <3>3. QED
        BY <3>1, <3>2, CommitStores
    <2>2. QED
      BY <1>4, <2>1 DEF StoreInv, UniqueInv
  <1>9. PairInv'
    BY <1>1, <1>3, <1>4, <1>5 DEF StoreInv, PairInv, Alone, Current
  <1>10. ReportInv'
    BY <1>1, <1>2, <1>3 DEF StoreInv, ReportInv, Alone
  <1>11. StoredHasDocument'
    <2>1. PendingContents(r) = retriever[r].written
      BY <1>2 DEF StoreInv, PairInv
    <2>2. QED
      BY <1>2, <2>1, CommitStores DEF StoreInv, StoredHasDocument
  <1>12. RacesCrossProcesses'
    BY <1>2, CommitStores DEF StoreInv, RacesCrossProcesses, TypeOK
  <1>13. QED
    BY <1>7, <1>8, <1>9, <1>10, <1>11, <1>12 DEF StoreInv

LEMMA StoreInvInit == Init => StoreInv
  BY DEF Init, StoreInv, LockInv, UniqueInv, PairInv, ReportInv, StoredHasDocument,
         RacesCrossProcesses, Holds, PendingContents, Stored, Current

LEMMA StoreInvStep == TypeOK /\ StoreInv /\ [Next]_vars => StoreInv'
  <1> SUFFICES ASSUME TypeOK, StoreInv, [Next]_vars PROVE StoreInv'
    OBVIOUS
  <1>1. ASSUME NEW r \in Retrievers, Step(r) \/ Abort(r) PROVE StoreInv'
    BY <1>1, QuietSteps, UndoneSteps, AcquireStep, InsertStep, StoreDocumentStep, CommitStep
    DEF Step
  <1>2. ASSUME UNCHANGED <<source, document, retriever, lock, lost>> PROVE StoreInv'
    BY <1>2 DEF StoreInv, LockInv, UniqueInv, PairInv, ReportInv, StoredHasDocument,
                RacesCrossProcesses, Holds, PendingContents, Stored, Current
  <1>3. ASSUME NEW w \in Crawlers, CrawlNew(w) \/ \E stored \in BOOLEAN : CrawlStore(w, stored)
        PROVE  StoreInv'
    BY <1>2, <1>3 DEF CrawlNew, CrawlStore
  <1>4. CASE UNCHANGED vars
    BY <1>2, <1>4 DEF vars
  <1>5. QED
    BY <1>1, <1>3, <1>4 DEF Next

\* Locks, unique rows and paired documents: all of the inductive invariant.
THEOREM StoreSafe == Spec => []StoreInv
  BY StoreTyped, StoreInvInit, StoreInvStep, PTL DEF Spec

\* Whatever fails or races, a text has a source exactly when it has a document.
THEOREM Paired == Spec => []StoredHasDocument
  <1>1. StoreInv => StoredHasDocument
    BY DEF StoreInv
  <1>2. QED
    BY <1>1, StoreSafe, PTL

\* An insert is refused only in favour of a retriever of another process.
THEOREM LocalRacesSettled == Spec => []RacesCrossProcesses
  <1>1. StoreInv => RacesCrossProcesses
    BY DEF StoreInv
  <1>2. QED
    BY <1>1, StoreSafe, PTL

\* A finished retriever none of whose plans was refused reported stored documents only.
THEOREM ReportsHonest == Spec => []LostOnlyWithFailure
  <1>1. StoreInv => LostOnlyWithFailure
    BY DEF StoreInv, ReportInv, PairInv, LostOnlyWithFailure, Holds, PendingContents
  <1>2. QED
    BY <1>1, StoreSafe, PTL

\* Nobody takes a stored source over.
THEOREM WinnersKept == Spec => WinnersKeep
  <1>1. TypeOK /\ StoreInv /\ [Next]_vars
        => [\A c \in Contents : Stored(c) => source'[c] = source[c]]_vars
    <2> SUFFICES ASSUME TypeOK, StoreInv, [Next]_vars
                 PROVE  UNCHANGED vars
                        \/ \A c \in Contents : Stored(c) => source'[c] = source[c]
      OBVIOUS
    <2>1. ASSUME NEW r \in Retrievers, Commit(r)
          PROVE  \A c \in Contents : Stored(c) => source'[c] = source[c]
      BY <2>1, CommitStores
    <2>2. source' = source \/ \E r \in Retrievers : Commit(r)
      BY DEF Next, Step, vars, FetchCached, FetchNew, FetchFailed, FetchRaises, FetchDone,
             Acquire, Look, Insert, InsertLost, InsertDeadlocked, StoreDocument,
             StoreRefused, Abort, CrawlNew, CrawlStore
    <2>3. QED
      BY <2>1, <2>2
  <1>2. QED
    BY <1>1, StoreTyped, StoreSafe, PTL DEF Spec, WinnersKeep
=============================================================================
