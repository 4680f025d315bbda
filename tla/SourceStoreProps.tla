-------------------------- MODULE SourceStoreProps --------------------------
(***************************************************************************)
(* What the shared source store promises, and what it does not.            *)
(***************************************************************************)
EXTENDS SourceStore

Over(r) == retriever[r].pc \in {"done", "raised", "aborted"}

\* Whatever fails, races or is cancelled, a source is never committed without its
\* document (_adopt_existing: "one document per source").
StoredHasDocument == \A c \in Contents : Stored(c) <=> c \in document

\* Inside one process the write lock spans every read by fingerprint, the insert and
\* the commit, so an insert can be refused only in favour of another process.
RacesCrossProcesses ==
    \A x \in lost :
        Stored(x[2]) /\ ProcessOf[source[x[2]].by] # ProcessOf[x[1]]

\* A finished retriever reported a document that is not in the store only if another
\* document of its batch failed in the write pass.
LostOnlyWithFailure ==
    \A r \in Retrievers :
        retriever[r].pc = "done" /\ retriever[r].refused = {}
        => retriever[r].retrieved \subseteq document

\* Stored rows are the winners' for good: nobody who lost a race, failed or was
\* cancelled later takes a source over from the run that stored it.
WinnersKeep ==
    [][\A c \in Contents : Stored(c) => source'[c] = source[c]]_vars

\* Every batch ends although inserts of two processes wait for each other and
\* retrievers are cancelled while they hold the lock.
EveryBatchEnds == \A r \in Retrievers : <>Over(r)

-----------------------------------------------------------------------------
(* The inductive invariant behind the safety properties above *)

Holds(r) == retriever[r].pc \in {"look", "insert", "store", "commit"}

\* Who writes holds its process's lock, and was the only one of its process to do so
\* since it looked.
LockInv ==
    /\ \A r \in Retrievers : Holds(r) => lock[ProcessOf[r]] = r
    /\ \A r \in Retrievers :
         retriever[r].pc = "insert" /\ Stored(Current(r).content)
         => ProcessOf[source[Current(r).content].by] # ProcessOf[r]

\* The index lets one transaction at a time have a row of a text nobody committed.
UniqueInv ==
    /\ \A r \in Retrievers : \A c \in PendingContents(r) : ~Stored(c)
    /\ \A r, s \in Retrievers :
         r # s => PendingContents(r) \cap PendingContents(s) = {}

\* A transaction has a document for each of its sources, but for the one it is
\* storing, and outside the write pass there is nothing in it.
PairInv ==
    \A r \in Retrievers :
        /\ PendingContents(r) =
             IF retriever[r].pc = "store"
             THEN retriever[r].written \cup {Current(r).content}
             ELSE retriever[r].written
        /\ ~Holds(r) => retriever[r].pending = {}

\* Until a plan is refused, what is reported is stored or will be by the commit.
ReportInv ==
    \A r \in Retrievers :
        retriever[r].refused = {} /\ retriever[r].pc # "aborted"
        => retriever[r].retrieved \subseteq document \cup retriever[r].written

StoreInv ==
    /\ LockInv
    /\ UniqueInv
    /\ PairInv
    /\ ReportInv
    /\ StoredHasDocument
    /\ RacesCrossProcesses

=============================================================================
