---------------------------- MODULE SourceStore ----------------------------
(***************************************************************************)
(* The shared store of sources and documents: the retrievers of concurrent *)
(* runs (intelx/agents/retriever.py, memory/normalize.py, SourceRepo in    *)
(* db/repos.py) and the news crawlers (ingestion/news_ingester.py).        *)
(*                                                                         *)
(* A retriever first fetches its whole batch, reading the store only to    *)
(* skip what is already there, then stores the plans one after the other   *)
(* in one transaction under its process's write lock.  The table's key is  *)
(* the fingerprint: the hash of the text for a retriever (a member of      *)
(* Contents), the hash of the URL for a crawler.  A source and its         *)
(* location are otherwise unrelated: nothing makes a location unique.      *)
(***************************************************************************)
EXTENDS Integers, Sequences, FiniteSets

CONSTANTS
    Retrievers,    \* executions of RetrieverAgent.execute, one per run
    Processes,
    ProcessOf,     \* [Retrievers -> Processes]
    Crawlers,      \* visits of a news crawler to one article
    Visits,        \* [Crawlers -> Locations]
    Locations,
    Contents,      \* normalised texts
    Serves,        \* [Locations -> SUBSET Contents], what a fetch may return
    Secret,        \* texts in which redaction replaces something
    Batch,         \* [Retrievers -> Seq(Locations)], without repetitions
    MaxFaults,     \* bound on cancelled retrievers and dead processes
    None

ASSUME StoreAssumption ==
    /\ ProcessOf \in [Retrievers -> Processes]
    /\ Visits \in [Crawlers -> Locations]
    /\ Serves \in [Locations -> SUBSET Contents]
    /\ Secret \subseteq Contents
    /\ Batch \in [Retrievers -> Seq(Locations)]
    /\ MaxFaults \in Nat
    /\ None \notin Retrievers
    /\ None \notin Locations

VARIABLES
    source,     \* [Contents -> Entry \cup {NoEntry}], committed rows by text hash
    document,   \* the contents whose source has a committed document
    article,    \* the locations for which a crawler committed a source
    retriever,  \* [Retrievers -> Retrieval]
    crawler,    \* [Crawlers -> {"new", "fetching", "done"}]
    lock,       \* [Processes -> Retrievers \cup {None}], get_sqlite_write_lock()
    lost,       \* <<r, c>>: r's insert of c was refused by the UNIQUE index
    faults

vars == <<source, document, article, retriever, crawler, lock, lost, faults>>

Plan == [location : Locations, content : Contents]

\* A committed source: where it came from and who stored it.
Entry == [location : Locations, by : Retrievers]
NoEntry == [location |-> None, by |-> None]

(***************************************************************************)
(* pc of a retriever: fetch (the pass without writes), wait (for the write *)
(* lock), look / insert / store (the steps of the first plan), commit;     *)
(* done, raised (an exception left execute), aborted (cancelled or killed). *)
(***************************************************************************)
Retrieval ==
    [pc : {"fetch", "wait", "look", "insert", "store", "commit",
           "done", "raised", "aborted"},
     left : Seq(Locations),         \* not fetched yet
     plans : Seq(Plan),             \* fetched, not stored yet
     pending : SUBSET Plan,         \* sources flushed, not committed
     written : SUBSET Contents,     \* documents flushed, not committed
     retrieved : SUBSET Contents,   \* RetrieverOutput.retrieved
     refused : SUBSET Plan]         \* failures of the write pass

TypeOK ==
    /\ source \in [Contents -> Entry \cup {NoEntry}]
    /\ document \subseteq Contents
    /\ article \subseteq Locations
    /\ retriever \in [Retrievers -> Retrieval]
    /\ \A r \in Retrievers :
         retriever[r].pc \in {"wait", "look", "insert", "store"} => retriever[r].plans # <<>>
    /\ crawler \in [Crawlers -> {"new", "fetching", "done"}]
    /\ lock \in [Processes -> Retrievers \cup {None}]
    /\ lost \subseteq Retrievers \X Contents
    /\ faults \in 0 .. MaxFaults

Init ==
    /\ source = [c \in Contents |-> NoEntry]
    /\ document = {}
    /\ article = {}
    /\ retriever = [r \in Retrievers |->
                      [pc |-> "fetch", left |-> Batch[r], plans |-> <<>>, pending |-> {},
                       written |-> {}, retrieved |-> {}, refused |-> {}]]
    /\ crawler = [w \in Crawlers |-> "new"]
    /\ lock = [p \in Processes |-> None]
    /\ lost = {}
    /\ faults = 0

-----------------------------------------------------------------------------
Stored(c) == source[c] # NoEntry

\* The rows of sources with a location: the texts, and whether there is an article.
TextsAt(l) == {c \in Contents : source[c].location = l}
Unknown(l) == TextsAt(l) = {} /\ l \notin article
Ambiguous(l) ==
    \/ \E c, d \in TextsAt(l) : c # d
    \/ TextsAt(l) # {} /\ l \in article

Current(r) == Head(retriever[r].plans)
PendingContents(r) == {p.content : p \in retriever[r].pending}

Become(r, x) == retriever' = [retriever EXCEPT ![r] = x]

\* The retrieval that goes on with its next plan, or with the commit.
NextPlan(x) ==
    [x EXCEPT !.plans = Tail(@), !.pc = IF Tail(x.plans) = <<>> THEN "commit" ELSE "look"]

-----------------------------------------------------------------------------
(* The fetch pass: _fetch_single for one candidate after the other *)

\* Cache bypass.  The document of a crawled article is nobody's to lose, so only a
\* text is recorded as retrieved.
FetchCached(r) ==
    LET l == Head(retriever[r].left) IN
    /\ retriever[r].pc = "fetch"
    /\ retriever[r].left # <<>>
    /\ ~Unknown(l)
    /\ ~Ambiguous(l)
    /\ Become(r, [retriever[r] EXCEPT !.left = Tail(@), !.retrieved = @ \cup TextsAt(l)])
    /\ UNCHANGED <<source, document, article, crawler, lock, lost, faults>>

\* The page, or the search snippet that stands in for it.
FetchNew(r, c) ==
    LET l == Head(retriever[r].left) IN
    /\ retriever[r].pc = "fetch"
    /\ retriever[r].left # <<>>
    /\ Unknown(l)
    /\ c \in Serves[l]
    /\ Become(r, [retriever[r] EXCEPT
                    !.left = Tail(@),
                    !.plans = Append(@, [location |-> l, content |-> c])])
    /\ UNCHANGED <<source, document, article, crawler, lock, lost, faults>>

FetchFailed(r) ==
    /\ retriever[r].pc = "fetch"
    /\ retriever[r].left # <<>>
    /\ Unknown(Head(retriever[r].left))
    /\ Become(r, [retriever[r] EXCEPT !.left = Tail(@)])
    /\ UNCHANGED <<source, document, article, crawler, lock, lost, faults>>

\* scalar_one_or_none raises MultipleResultsFound, which nobody in execute catches.
FetchRaises(r) ==
    /\ retriever[r].pc = "fetch"
    /\ retriever[r].left # <<>>
    /\ Ambiguous(Head(retriever[r].left))
    /\ Become(r, [retriever[r] EXCEPT !.pc = "raised"])
    /\ UNCHANGED <<source, document, article, crawler, lock, lost, faults>>

\* Without a plan execute returns at once.
FetchDone(r) ==
    /\ retriever[r].pc = "fetch"
    /\ retriever[r].left = <<>>
    /\ Become(r, [retriever[r] EXCEPT
                    !.pc = IF retriever[r].plans = <<>> THEN "done" ELSE "wait"])
    /\ UNCHANGED <<source, document, article, crawler, lock, lost, faults>>

-----------------------------------------------------------------------------
(* The write pass *)

LockFree(r) == lock[ProcessOf[r]] = None

Acquire(r) ==
    /\ retriever[r].pc = "wait"
    /\ LockFree(r)
    /\ lock' = [lock EXCEPT ![ProcessOf[r]] = r]
    /\ Become(r, [retriever[r] EXCEPT !.pc = "look"])
    /\ UNCHANGED <<source, document, article, crawler, lost, faults>>

\* The reads by fingerprint of ingest_and_normalize and get_or_create_source; what
\* the earlier ones do not find the last one may.
Look(r) ==
    LET c == Current(r).content IN
    /\ retriever[r].pc = "look"
    /\ IF Stored(c) \/ c \in PendingContents(r)
       THEN Become(r, NextPlan([retriever[r] EXCEPT !.retrieved = @ \cup {c}]))
       ELSE Become(r, [retriever[r] EXCEPT !.pc = "insert"])
    /\ UNCHANGED <<source, document, article, crawler, lock, lost, faults>>

\* Another transaction has inserted the fingerprint and is not over: the INSERT waits.
Blocks(s, r) ==
    /\ s # r
    /\ retriever[r].pc = "insert"
    /\ Current(r).content \in PendingContents(s)

\* The retrievers of a cycle of waiting inserts, one of which the database fails.
Deadlocked(r) ==
    \E cycle \in SUBSET Retrievers :
        /\ r \in cycle
        /\ \A s \in cycle : \E t \in cycle : Blocks(t, s)
        /\ \A s \in cycle : \E t \in cycle : Blocks(s, t)

Insert(r) ==
    /\ retriever[r].pc = "insert"
    /\ ~Stored(Current(r).content)
    /\ \A s \in Retrievers : ~Blocks(s, r)
    /\ Become(r, [retriever[r] EXCEPT !.pending = @ \cup {Current(r)}, !.pc = "store"])
    /\ UNCHANGED <<source, document, article, crawler, lock, lost, faults>>

\* Mutant: the handler undoes the document it was storing and keeps the rest.
RefusedKeepsSource(x) ==
    NextPlan([x EXCEPT !.written = @ \ {Head(x.plans).content},
                       !.refused = @ \cup {Head(x.plans)}])

\* Mutant: the handler only logs.
RefusedSilently(x) == NextPlan([x EXCEPT !.pending = {}, !.written = {}])

\* The handler of execute: session.rollback() undoes the whole batch so far, the
\* plan is reported as failed, what was reported as retrieved stays reported.
Refused(x) ==
    NextPlan([x EXCEPT !.pending = {}, !.written = {}, !.refused = @ \cup {Head(x.plans)}])

\* The unique index refuses the row; get_or_create_source expects another class
\* of IntegrityError, so the exception leaves it.
InsertLost(r) ==
    /\ retriever[r].pc = "insert"
    /\ Stored(Current(r).content)
    /\ lost' = lost \cup {<<r, Current(r).content>>}
    /\ Become(r, Refused(retriever[r]))
    /\ UNCHANGED <<source, document, article, crawler, lock, faults>>

\* The database breaks a deadlock of two inserts.
InsertDeadlocked(r) ==
    /\ Deadlocked(r)
    /\ Become(r, Refused(retriever[r]))
    /\ UNCHANGED <<source, document, article, crawler, lock, lost, faults>>

\* The document and its chunks, whose text must equal the text before redaction.
StoreDocument(r) ==
    LET c == Current(r).content IN
    /\ retriever[r].pc = "store"
    /\ c \notin Secret
    /\ Become(r, NextPlan([retriever[r] EXCEPT !.written = @ \cup {c},
                                               !.retrieved = @ \cup {c}]))
    /\ UNCHANGED <<source, document, article, crawler, lock, lost, faults>>

StoreRefused(r) ==
    /\ retriever[r].pc = "store"
    /\ Current(r).content \in Secret
    /\ Become(r, Refused(retriever[r]))
    /\ UNCHANGED <<source, document, article, crawler, lock, lost, faults>>

\* The sources after the pending rows of r are committed.
Committed(r) ==
    [c \in Contents |->
        IF c \in PendingContents(r)
        THEN [location |-> (CHOOSE p \in retriever[r].pending : p.content = c).location,
              by |-> r]
        ELSE source[c]]

Commit(r) ==
    /\ retriever[r].pc = "commit"
    /\ source' = Committed(r)
    /\ document' = document \cup retriever[r].written
    /\ lock' = [lock EXCEPT ![ProcessOf[r]] = None]
    /\ Become(r, [retriever[r] EXCEPT !.pc = "done", !.pending = {}, !.written = {}])
    /\ UNCHANGED <<article, crawler, lost, faults>>

\* Mutant: a cancelled retriever keeps the lock.
KeepLock(r) == lock

\* `async with` gives the lock back however the block is left.
Released(r) ==
    [p \in Processes |-> IF lock[p] = r THEN None ELSE lock[p]]

\* The task is cancelled or its process dies: the transaction is rolled back.
Abort(r) ==
    /\ retriever[r].pc \in {"fetch", "wait", "look", "insert", "store", "commit"}
    /\ faults < MaxFaults
    /\ faults' = faults + 1
    /\ lock' = Released(r)
    /\ Become(r, [retriever[r] EXCEPT !.pc = "aborted", !.pending = {}, !.written = {}])
    /\ UNCHANGED <<source, document, article, crawler, lost>>

-----------------------------------------------------------------------------
(* The news crawler: it looks for the hash of the URL, in two sessions *)

CrawlNew(w) ==
    /\ crawler[w] = "new"
    /\ crawler' = [crawler EXCEPT ![w] = IF Visits[w] \in article THEN "done" ELSE "fetching"]
    /\ UNCHANGED <<source, document, article, retriever, lock, lost, faults>>

\* A second session looks again and stores the source with its document.  An
\* insert of the same URL that is refused changes nothing, like finding it.
CrawlStore(w, stored) ==
    /\ crawler[w] = "fetching"
    /\ article' = IF stored THEN article \cup {Visits[w]} ELSE article
    /\ crawler' = [crawler EXCEPT ![w] = "done"]
    /\ UNCHANGED <<source, document, retriever, lock, lost, faults>>

-----------------------------------------------------------------------------
Step(r) ==
    \/ FetchCached(r) \/ FetchFailed(r) \/ FetchRaises(r) \/ FetchDone(r)
    \/ \E c \in Contents : FetchNew(r, c)
    \/ Acquire(r) \/ Look(r) \/ Insert(r) \/ InsertLost(r) \/ InsertDeadlocked(r)
    \/ StoreDocument(r) \/ StoreRefused(r) \/ Commit(r)

Next ==
    \/ \E r \in Retrievers : Step(r) \/ Abort(r)
    \/ \E w \in Crawlers : CrawlNew(w) \/ \E stored \in BOOLEAN : CrawlStore(w, stored)

Spec == Init /\ [][Next]_vars

\* The event loop and the database serve every retriever that can go on.
FairSpec == Spec /\ \A r \in Retrievers : WF_vars(Step(r))
=============================================================================
