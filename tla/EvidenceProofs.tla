---------------------------- MODULE EvidenceProofs ----------------------------
(***************************************************************************)
(* For any runs, documents, offers, verdicts and contradictions, and any   *)
(* number of requeues and faults: what is cited is stored, every dispute   *)
(* is on record, no deep run completes over a dispute of its own, and      *)
(* nothing but a dispute undoes a retraction.                              *)
(***************************************************************************)
EXTENDS EvidenceProps, FiniteSetTheorems, TLAPS

Rowed == UNION {[C -> Row] : C \in SUBSET Claims}

Session ==
    [copy : [Docs -> Texts], ingested : SUBSET Docs, replanned : BOOLEAN,
     view : Rowed, list : SUBSET Claims,
     rows : Rowed, evidence : SUBSET EvidenceRow, finding : SUBSET Finding, report : Nat]

Shapes ==
    /\ text \in [Docs -> Texts]
    /\ maker \in [Docs -> Runs \cup {None}]
    /\ claim \in Rowed
    /\ evidence \subseteq EvidenceRow
    /\ finding \subseteq Finding
    /\ run \in [Runs -> Run]
    /\ session \in [Runs -> Session]
    /\ requeues \in 0 .. MaxRequeues
    /\ faults \in 0 .. MaxFaults

(* What follows speaks of a store (its claims cl, evidence ev, findings fi, texts tx)     *)
(* and of a session s of the run r upon it, now or after a step.                         *)

\* The claims as the session's transaction has them.
Sees(cl, s) == Over(cl, s.rows)

\* The claims a run made from a document are numbered without a gap.
Numbered(C) == \A c \in C : \A n \in 1 .. c.n : [c EXCEPT !.n = n] \in C

NumberedFor(r, C) == \A c \in C : c.run = r => \A n \in 1 .. c.n : [c EXCEPT !.n = n] \in C

\* Some row of ev says why the claim c of the run r, with that quote, is disputed.
Explains(ev, r, c, quote) ==
    \E e \in ev :
        /\ ~e.supports
        /\ e.on.run = r
        /\ \/ e.on = c
           \/ e.from = c.doc /\ e.quote = quote

\* If e records a conflict, ev has its other side or a text is purged.
Balanced(e, ev, tx) ==
    e.by = "contradiction-engine" =>
        \/ "purged" \in {tx[e.on.doc], tx[e.from]}
        \/ \E k \in ev :
             /\ k.on.run = e.on.run
             /\ k.on.doc = e.from
             /\ k.from = e.on.doc
             /\ ~k.supports

StoreOk(cl, ev, fi, tx) ==
    /\ \A c \in DOMAIN cl :
         /\ tx[c.doc] # "absent"
         /\ cl[c].status = "DISPUTED" => Explains(ev, c.run, c, cl[c].quote)
    /\ \A e \in ev : e.on \in DOMAIN cl /\ tx[e.from] # "absent" /\ Balanced(e, ev, tx)
    /\ \A f \in fi : f.cites \subseteq DOMAIN cl
    /\ Numbered(DOMAIN cl)

\* Flushed rows are the run's; on a committed claim they only dispute.
RowsOf(r, s, cl, ev, tx) ==
    \A c \in DOMAIN s.rows :
        /\ c.run = r
        /\ tx[c.doc] # "absent"
        /\ c \in DOMAIN cl => s.rows[c].status = "DISPUTED" /\ s.rows[c].quote = cl[c].quote
        /\ s.rows[c].status = "DISPUTED" => Explains(ev \cup s.evidence, r, c, s.rows[c].quote)

\* The identity map holds the run's claims and misses no dispute.
ViewOf(r, s, cl) ==
    \A c \in DOMAIN s.view :
        /\ c.run = r
        /\ c \in DOMAIN Sees(cl, s)
        /\ s.view[c].quote = Sees(cl, s)[c].quote
        /\ Sees(cl, s)[c].status = "DISPUTED" => s.view[c].status = "DISPUTED"

EvidenceOf(r, s, cl, ev, tx) ==
    \A e \in s.evidence :
        /\ e.on.run = r
        /\ e.on \in DOMAIN Sees(cl, s)
        /\ tx[e.from] # "absent"
        /\ Balanced(e, ev \cup s.evidence, tx)

\* A loaded text is that of the store, or the one the purge replaced.
CopyOf(s, tx) ==
    /\ \A d \in Docs :
         /\ s.copy[d] # "absent" => tx[d] # "absent"
         /\ s.copy[d] = "purged" => tx[d] = "purged"
    /\ \A d \in s.ingested : s.copy[d] # "absent"

SessionOk(r, s, cl, ev, tx) ==
    /\ RowsOf(r, s, cl, ev, tx)
    /\ ViewOf(r, s, cl)
    /\ EvidenceOf(r, s, cl, ev, tx)
    /\ CopyOf(s, tx)
    /\ s.list \subseteq DOMAIN cl \cap DOMAIN s.view
    /\ \A f \in s.finding : f.cites \subseteq DOMAIN cl
    /\ NumberedFor(r, DOMAIN Sees(cl, s))

\* If a claim of the run is disputed, so is one the engine hands to its agents.
Flagged(r, s, cl) ==
    \A c \in DOMAIN Sees(cl, s) :
        c.run = r /\ Sees(cl, s)[c].status = "DISPUTED"
            => \E k \in s.list : s.view[k].status = "DISPUTED"

SessionsInv == \A r \in Runs : SessionOk(r, session[r], claim, evidence, text)

Judging == {"verify", "critic", "save", "decide"}

RunsInv ==
    \A r \in Runs :
        /\ run[r].pc = "idle" => session[r] = Closed
        /\ run[r].pc # "idle" => run[r].status = "running" /\ run[r].executed
        /\ run[r].pc \in Judging => Flagged(r, session[r], claim)

\* A run that left anything in the store was executed, so the purge never deletes it.
ExecutedInv ==
    /\ \A d \in Docs : maker[d] # None => run[maker[d]].executed
    /\ \A c \in DOMAIN claim : run[c.run].executed

EvidenceInv ==
    /\ Shapes
    /\ StoreOk(claim, evidence, finding, text)
    /\ SessionsInv
    /\ RunsInv
    /\ ExecutedInv
    /\ DisputedDeepRunIsReviewed

-----------------------------------------------------------------------------
(* Functions from claims to rows *)

LEMMA RowedFacts ==
    ASSUME NEW f \in Rowed
    PROVE  DOMAIN f \subseteq Claims /\ \A c \in DOMAIN f : f[c] \in Row
BY DEF Rowed

LEMMA OverFacts ==
    ASSUME NEW f \in Rowed, NEW g \in Rowed
    PROVE  /\ Over(f, g) \in Rowed
           /\ DOMAIN Over(f, g) = DOMAIN f \cup DOMAIN g
           /\ \A c \in DOMAIN f \cup DOMAIN g :
                Over(f, g)[c] = IF c \in DOMAIN g THEN g[c] ELSE f[c]
<1>1. DOMAIN f \cup DOMAIN g \in SUBSET Claims
  BY RowedFacts
<1>2. Over(f, g) \in [DOMAIN f \cup DOMAIN g -> Row]
  BY RowedFacts DEF Over
<1>3. QED
  BY <1>1, <1>2 DEF Over, Rowed

LEMMA DisputeFacts ==
    ASSUME NEW f \in Rowed, NEW C \in SUBSET DOMAIN f
    PROVE  /\ Dispute(f, C) \in Rowed
           /\ DOMAIN Dispute(f, C) = C
           /\ \A c \in C : /\ Dispute(f, C)[c].quote = f[c].quote
                           /\ Dispute(f, C)[c].status = "DISPUTED"
<1>1. \A c \in C : f[c] \in Row
  BY RowedFacts
<1>2. \A c \in C : [f[c] EXCEPT !.status = "DISPUTED"] \in Row
  BY <1>1 DEF Row, ClaimStatuses
<1>3. C \in SUBSET Claims
  BY RowedFacts
<1>4. Dispute(f, C) \in [C -> Row]
  BY <1>2 DEF Dispute
<1>5. QED
  BY <1>1, <1>3, <1>4 DEF Dispute, Rowed, Row

LEMMA SeesFacts ==
    ASSUME NEW cl \in Rowed, NEW s, s.rows \in Rowed
    PROVE  /\ Sees(cl, s) \in Rowed
           /\ DOMAIN Sees(cl, s) = DOMAIN cl \cup DOMAIN s.rows
           /\ \A c \in DOMAIN cl \cup DOMAIN s.rows :
                Sees(cl, s)[c] = IF c \in DOMAIN s.rows THEN s.rows[c] ELSE cl[c]
BY OverFacts DEF Sees

LEMMA NothingFacts == Nothing \in Rowed /\ DOMAIN Nothing = {}
<1>1. Nothing \in [{} -> Row]
  BY DEF Nothing
<1>2. QED
  BY <1>1 DEF Rowed, Nothing

LEMMA ClosedFacts ==
    /\ Closed \in Session
    /\ \A d \in Docs : Closed.copy[d] = "absent"
    /\ Closed.ingested = {} /\ Closed.list = {} /\ Closed.evidence = {} /\ Closed.finding = {}
    /\ Closed.view = Nothing /\ Closed.rows = Nothing
BY NothingFacts DEF Closed, Session, Texts

LEMMA CommittedFacts ==
    ASSUME NEW s \in Session
    PROVE  /\ Committed(s) \in Session
           /\ Committed(s).rows = Nothing /\ Committed(s).evidence = {}
           /\ Committed(s).finding = {}
           /\ Committed(s).view = s.view /\ Committed(s).list = s.list
           /\ Committed(s).copy = s.copy /\ Committed(s).ingested = s.ingested
BY NothingFacts DEF Committed, Session

-----------------------------------------------------------------------------
(* What others do to a session, and a session to the store *)

\* A step from cl, ev, tx to cl2, ev2, tx2 that no session of r notices: it adds no
\* claim of r and no dispute, and takes nothing away but a text.
Spared(r, cl, cl2, ev, ev2, tx, tx2) ==
    /\ ev \subseteq ev2
    /\ \A d \in Docs : /\ tx[d] # "absent" => tx2[d] # "absent"
                       /\ tx[d] = "purged" => tx2[d] = "purged"
    /\ DOMAIN cl \subseteq DOMAIN cl2
    /\ \A c \in DOMAIN cl2 : c.run = r =>
         /\ c \in DOMAIN cl
         /\ cl2[c].quote = cl[c].quote
         /\ cl2[c].status = "DISPUTED" => cl[c].status = "DISPUTED"

LEMMA BalancedStays ==
    ASSUME NEW r, NEW cl, NEW cl2, NEW ev, NEW ev2, NEW tx, NEW tx2,
           Spared(r, cl, cl2, ev, ev2, tx, tx2), NEW e \in EvidenceRow,
           NEW E, Balanced(e, ev \cup E, tx)
    PROVE  Balanced(e, ev2 \cup E, tx2)
BY DEF Spared, Balanced, EvidenceRow, Claims

LEMMA SparedSession ==
    ASSUME NEW r \in Runs, NEW s \in Session, NEW cl \in Rowed, NEW cl2 \in Rowed,
           NEW ev, NEW ev2, NEW tx, NEW tx2,
           Spared(r, cl, cl2, ev, ev2, tx, tx2),
           SessionOk(r, s, cl, ev, tx)
    PROVE  /\ SessionOk(r, s, cl2, ev2, tx2)
           /\ Flagged(r, s, cl) => Flagged(r, s, cl2)
<1>s. s.rows \in Rowed /\ s.view \in Rowed /\ s.evidence \subseteq EvidenceRow
  BY DEF Session
<1>d. DOMAIN cl \subseteq Claims /\ DOMAIN cl2 \subseteq Claims /\ DOMAIN s.rows \subseteq Claims
      /\ DOMAIN s.view \subseteq Claims
  BY <1>s, RowedFacts
<1>o. /\ DOMAIN Sees(cl, s) = DOMAIN cl \cup DOMAIN s.rows
      /\ \A c \in DOMAIN cl \cup DOMAIN s.rows :
           Sees(cl, s)[c] = IF c \in DOMAIN s.rows THEN s.rows[c] ELSE cl[c]
  BY <1>s, SeesFacts
<1>p. /\ DOMAIN Sees(cl2, s) = DOMAIN cl2 \cup DOMAIN s.rows
      /\ \A c \in DOMAIN cl2 \cup DOMAIN s.rows :
           Sees(cl2, s)[c] = IF c \in DOMAIN s.rows THEN s.rows[c] ELSE cl2[c]
  BY <1>s, SeesFacts
<1>1. RowsOf(r, s, cl2, ev2, tx2)
  BY <1>d DEF SessionOk, RowsOf, Spared, Explains, Claims
<1>2. ViewOf(r, s, cl2)
  BY <1>o, <1>p DEF SessionOk, ViewOf, Spared
<1>3. EvidenceOf(r, s, cl2, ev2, tx2)
  <2>1. SUFFICES ASSUME NEW e \in s.evidence
                 PROVE  /\ e.on.run = r /\ e.on \in DOMAIN Sees(cl2, s)
                        /\ tx2[e.from] # "absent" /\ Balanced(e, ev2 \cup s.evidence, tx2)
    BY DEF EvidenceOf
  <2>2. e \in EvidenceRow /\ e.from \in Docs
    BY <1>s DEF EvidenceRow
  <2>3. Balanced(e, ev2 \cup s.evidence, tx2)
    BY <2>2, BalancedStays DEF SessionOk, EvidenceOf
  <2>4. QED
    BY <1>o, <1>p, <2>2, <2>3 DEF SessionOk, EvidenceOf, Spared
<1>4. CopyOf(s, tx2)
  BY DEF SessionOk, CopyOf, Spared
<1>5. s.list \subseteq DOMAIN cl2 \cap DOMAIN s.view /\ \A f \in s.finding : f.cites \subseteq DOMAIN cl2
  BY DEF SessionOk, Spared
<1>6. NumberedFor(r, DOMAIN Sees(cl2, s))
  BY <1>o, <1>p DEF SessionOk, NumberedFor, Spared
<1>7. Flagged(r, s, cl) => Flagged(r, s, cl2)
  BY <1>o, <1>p DEF Flagged, Spared
<1>8. QED
  BY <1>1, <1>2, <1>3, <1>4, <1>5, <1>6, <1>7 DEF SessionOk

\* A commit: the store is the one the session saw, and nobody else notices.
LEMMA Committing ==
    ASSUME NEW r \in Runs, NEW s \in Session, NEW cl \in Rowed,
           NEW ev \in SUBSET EvidenceRow, NEW fi, NEW tx,
           StoreOk(cl, ev, fi, tx), SessionOk(r, s, cl, ev, tx)
    PROVE  LET cl2 == Sees(cl, s)
               ev2 == ev \cup s.evidence
           IN  /\ cl2 \in Rowed
               /\ StoreOk(cl2, ev2, fi \cup s.finding, tx)
               /\ SessionOk(r, Committed(s), cl2, ev2, tx)
               /\ Flagged(r, s, cl) => Flagged(r, Committed(s), cl2)
               /\ \A q \in Runs \ {r} : Spared(q, cl, cl2, ev, ev2, tx, tx)
               /\ \A c \in DOMAIN cl2 : c \in DOMAIN cl \/ c.run = r
<1> DEFINE cl2 == Sees(cl, s)
           ev2 == ev \cup s.evidence
           t == Committed(s)
<1>s. s.rows \in Rowed /\ s.view \in Rowed /\ s.evidence \subseteq EvidenceRow
  BY DEF Session
<1>d. DOMAIN cl \subseteq Claims /\ DOMAIN s.rows \subseteq Claims
  BY <1>s, RowedFacts
<1>o. /\ cl2 \in Rowed
      /\ DOMAIN cl2 = DOMAIN cl \cup DOMAIN s.rows
      /\ \A c \in DOMAIN cl \cup DOMAIN s.rows :
           cl2[c] = IF c \in DOMAIN s.rows THEN s.rows[c] ELSE cl[c]
  BY <1>s, SeesFacts
<1>t. /\ t.rows = Nothing /\ t.evidence = {} /\ t.finding = {} /\ t.view = s.view
      /\ t.list = s.list /\ t.copy = s.copy /\ t.ingested = s.ingested
  BY CommittedFacts
<1> HIDE DEF cl2, ev2, t
<1>r. t.rows \in Rowed
  BY <1>t, NothingFacts
<1>p. /\ DOMAIN Sees(cl2, t) = DOMAIN cl2
      /\ \A c \in DOMAIN cl2 : Sees(cl2, t)[c] = cl2[c]
  <2>1. /\ DOMAIN Sees(cl2, t) = DOMAIN cl2 \cup DOMAIN t.rows
        /\ \A c \in DOMAIN cl2 \cup DOMAIN t.rows :
             Sees(cl2, t)[c] = IF c \in DOMAIN t.rows THEN t.rows[c] ELSE cl2[c]
    BY <1>o, <1>r, SeesFacts
  <2>2. QED
    BY <2>1, <1>t, NothingFacts
<1>e. /\ ev \subseteq ev2 /\ s.evidence \subseteq ev2
      /\ \A e \in ev2 : e \in ev \/ e \in s.evidence
      /\ ev \cup s.evidence = ev2
  BY DEF ev2
<1>1. StoreOk(cl2, ev2, fi \cup s.finding, tx)
  <2>1. ASSUME NEW c \in DOMAIN cl2
        PROVE  /\ tx[c.doc] # "absent"
               /\ cl2[c].status = "DISPUTED" => Explains(ev2, c.run, c, cl2[c].quote)
    <3>1. CASE c \in DOMAIN s.rows
      BY <3>1, <1>o, <1>e DEF SessionOk, RowsOf
    <3>2. CASE c \notin DOMAIN s.rows
      BY <3>2, <1>o, <1>e DEF StoreOk, Explains
    <3>3. QED
      BY <3>1, <3>2
  <2>2. ASSUME NEW e \in ev2
        PROVE  e.on \in DOMAIN cl2 /\ tx[e.from] # "absent" /\ Balanced(e, ev2, tx)
    <3>1. CASE e \in ev
      BY <3>1, <1>o, <1>e DEF StoreOk, Balanced
    <3>2. CASE e \in s.evidence
      BY <3>2, <1>o, <1>e DEF SessionOk, EvidenceOf, Sees, cl2
    <3>3. QED
      BY <3>1, <3>2, <1>e
  <2>3. \A f \in fi \cup s.finding : f.cites \subseteq DOMAIN cl2
    BY <1>o DEF StoreOk, SessionOk
  <2>4. Numbered(DOMAIN cl2)
    BY <1>o DEF StoreOk, SessionOk, RowsOf, Numbered, NumberedFor, cl2
  <2>5. QED
    BY <2>1, <2>2, <2>3, <2>4 DEF StoreOk
<1>2. SessionOk(r, t, cl2, ev2, tx)
  <2>1. RowsOf(r, t, cl2, ev2, tx) /\ EvidenceOf(r, t, cl2, ev2, tx)
    BY <1>t, NothingFacts DEF RowsOf, EvidenceOf
  <2>2. ViewOf(r, t, cl2)
    BY <1>t, <1>p DEF SessionOk, ViewOf, cl2
  <2>3. CopyOf(t, tx) /\ (\A f \in t.finding : f.cites \subseteq DOMAIN cl2)
    BY <1>t DEF SessionOk, CopyOf
  <2>4. t.list \subseteq DOMAIN cl2 \cap DOMAIN t.view
    BY <1>t, <1>o DEF SessionOk
  <2>5. NumberedFor(r, DOMAIN Sees(cl2, t))
    BY <1>p DEF SessionOk, cl2
  <2>6. QED
    BY <2>1, <2>2, <2>3, <2>4, <2>5 DEF SessionOk
<1>3. Flagged(r, s, cl) => Flagged(r, t, cl2)
  BY <1>t, <1>p DEF Flagged, cl2
<1>4. \A q \in Runs \ {r} : Spared(q, cl, cl2, ev, ev2, tx, tx)
  BY <1>o, <1>e DEF SessionOk, RowsOf, Spared
<1>5. \A c \in DOMAIN cl2 : c \in DOMAIN cl \/ c.run = r
  BY <1>o DEF SessionOk, RowsOf
<1>6. QED
  BY <1>o, <1>1, <1>2, <1>3, <1>4, <1>5 DEF cl2, ev2, t

-----------------------------------------------------------------------------
(* What an execution does to its session *)

LEMMA StoredFacts ==
    ASSUME text \in [Docs -> Texts], NEW ds \in SUBSET Docs
    PROVE  /\ Stored(ds) \in [Docs -> Texts]
           /\ \A d \in Docs : text[d] # "absent" => Stored(ds)[d] = text[d]
           /\ \A d \in ds : Stored(ds)[d] # "absent"
           /\ \A d \in Docs : text[d] = "absent" /\ d \in ds => Stored(ds)[d] = "whole"
BY DEF Stored, Texts

\* Documents that are loaded, stored before if need be.
LEMMA Loading ==
    ASSUME text \in [Docs -> Texts], NEW ds \in SUBSET Docs,
           NEW r \in Runs, NEW s \in Session, NEW cl \in Rowed, NEW ev,
           SessionOk(r, s, cl, ev, text)
    PROVE  LET t == Loaded(s, ds)
           IN  /\ t \in Session
               /\ t.rows = s.rows /\ t.view = s.view /\ t.list = s.list /\ t.evidence = s.evidence
               /\ t.finding = s.finding /\ t.ingested = s.ingested
               /\ \A d \in Docs : s.copy[d] # "absent" => t.copy[d] = s.copy[d]
               /\ \A d \in ds : t.copy[d] # "absent"
               /\ SessionOk(r, t, cl, ev, Stored(ds))
               /\ Flagged(r, s, cl) => Flagged(r, t, cl)
<1> DEFINE t == Loaded(s, ds)
<1>1. /\ t \in Session
      /\ t.rows = s.rows /\ t.view = s.view /\ t.list = s.list /\ t.evidence = s.evidence
      /\ t.finding = s.finding /\ t.ingested = s.ingested
      /\ \A d \in Docs :
           t.copy[d] = IF d \in ds /\ s.copy[d] = "absent" THEN Stored(ds)[d] ELSE s.copy[d]
  BY StoredFacts DEF Loaded, Session
<1> HIDE DEF t
<1>2. Spared(r, cl, cl, ev, ev, text, Stored(ds))
  BY StoredFacts DEF Spared
<1>3. SessionOk(r, s, cl, ev, Stored(ds))
  BY <1>2, SparedSession
<1>4. CopyOf(t, Stored(ds))
  BY <1>1, <1>3, StoredFacts DEF SessionOk, CopyOf, Session
<1>5. Sees(cl, t) = Sees(cl, s)
  BY <1>1 DEF Sees
<1>6. SessionOk(r, t, cl, ev, Stored(ds))
  BY <1>1, <1>3, <1>4, <1>5 DEF SessionOk, RowsOf, ViewOf, EvidenceOf
<1>7. Flagged(r, s, cl) => Flagged(r, t, cl)
  BY <1>1, <1>5 DEF Flagged
<1>8. QED
  BY <1>1, <1>6, <1>7, StoredFacts DEF t, Session

\* The first m claims of the run r from the document d.
FirstOf(r, d, m) == {[run |-> r, doc |-> d, n |-> i] : i \in 1 .. m}

LEMMA FirstCount ==
    ASSUME NEW r, NEW d, NEW m \in Nat
    PROVE  IsFiniteSet(FirstOf(r, d, m)) /\ Cardinality(FirstOf(r, d, m)) = m
<1> DEFINE f == [i \in 1 .. m |-> [run |-> r, doc |-> d, n |-> i]]
<1>1. f \in Bijection(1 .. m, FirstOf(r, d, m))
  BY DEF Bijection, Injection, Surjection, IsInjective, FirstOf
<1>2. ExistsBijection(1 .. m, FirstOf(r, d, m))
  BY <1>1 DEF ExistsBijection
<1>3. IsFiniteSet(1 .. m) /\ Cardinality(1 .. m) = m
  BY FS_Interval
<1>4. QED
  BY <1>2, <1>3, FS_Bijection

\* Claims of the run on loaded documents, each with the next number.
Following(r, s, cl, N) ==
    \A c \in N : /\ c.run = r /\ c \notin DOMAIN Sees(cl, s)
                 /\ s.copy[c.doc] # "absent"
                 /\ \A n \in 1 .. c.n : n # c.n => [c EXCEPT !.n = n] \in DOMAIN Sees(cl, s)

\* The session s with the new claims N, as _persist adds them.
Grown(s, N) ==
    LET rows == [c \in N |-> [quote |-> s.copy[c.doc], status |-> "ACTIVE"]]
    IN  [s EXCEPT
           !.rows = Over(s.rows, rows),
           !.view = Over(s.view, rows),
           !.evidence = @ \cup
             {[on |-> c, from |-> c.doc, quote |-> s.copy[c.doc],
               supports |-> TRUE, by |-> "extractor"] : c \in N}]

LEMMA Growing ==
    ASSUME NEW r \in Runs, NEW s \in Session, NEW cl \in Rowed, NEW ev, NEW tx,
           SessionOk(r, s, cl, ev, tx),
           NEW N \in SUBSET Claims, Following(r, s, cl, N)
    PROVE  LET t == Grown(s, N)
           IN  /\ t \in Session
               /\ SessionOk(r, t, cl, ev, tx)
               /\ DOMAIN t.rows = DOMAIN s.rows \cup N
               /\ DOMAIN Sees(cl, t) = DOMAIN Sees(cl, s) \cup N
               /\ \A c \in DOMAIN Sees(cl, s) : Sees(cl, t)[c] = Sees(cl, s)[c]
               /\ \A c \in N : Sees(cl, t)[c] = [quote |-> s.copy[c.doc], status |-> "ACTIVE"]
               /\ \A c \in N : t.rows[c] = [quote |-> s.copy[c.doc], status |-> "ACTIVE"]
               /\ t.list = s.list /\ t.copy = s.copy
               /\ N \subseteq DOMAIN t.view /\ DOMAIN s.view \subseteq DOMAIN t.view
               /\ \A c \in DOMAIN s.view : t.view[c] = s.view[c]
               /\ Flagged(r, s, cl) => Flagged(r, t, cl)
<1> DEFINE new == [c \in N |-> [quote |-> s.copy[c.doc], status |-> "ACTIVE"]]
           more == {[on |-> c, from |-> c.doc, quote |-> s.copy[c.doc],
                     supports |-> TRUE, by |-> "extractor"] : c \in N}
           t == Grown(s, N)
<1>s. /\ s.rows \in Rowed /\ s.view \in Rowed /\ s.evidence \subseteq EvidenceRow
      /\ s.copy \in [Docs -> Texts]
  BY DEF Session
<1>n. \A c \in N : /\ c.run = r /\ c \notin DOMAIN Sees(cl, s)
                   /\ s.copy[c.doc] # "absent"
                   /\ \A n \in 1 .. c.n : n # c.n => [c EXCEPT !.n = n] \in DOMAIN Sees(cl, s)
  BY DEF Following
<1>q. \A c \in N : /\ c.doc \in Docs /\ c.n \in 1 .. MaxVisits
                   /\ s.copy[c.doc] \in {"whole", "purged"}
  BY <1>n, <1>s DEF Claims, Texts
<1>1. new \in Rowed /\ DOMAIN new = N
  BY <1>q DEF Rowed, Row, ClaimStatuses
<1>2. more \subseteq EvidenceRow
  <2>1. ASSUME NEW c \in N
        PROVE  [on |-> c, from |-> c.doc, quote |-> s.copy[c.doc],
                supports |-> TRUE, by |-> "extractor"] \in EvidenceRow
    BY <1>q DEF EvidenceRow
  <2>2. QED
    BY <2>1
<1>t. /\ t.rows = Over(s.rows, new) /\ t.view = Over(s.view, new)
      /\ t.evidence = s.evidence \cup more
      /\ t.list = s.list /\ t.copy = s.copy /\ t.finding = s.finding /\ t.ingested = s.ingested
  BY DEF Grown, Session
<1>3. t \in Session
  <2>1. Over(s.rows, new) \in Rowed /\ Over(s.view, new) \in Rowed
    BY <1>s, <1>1, OverFacts
  <2>2. QED
    BY <1>2, <2>1 DEF Grown, Session
<1>4. \A c \in N : /\ new[c] = [quote |-> s.copy[c.doc], status |-> "ACTIVE"]
                   /\ new[c].quote = s.copy[c.doc] /\ new[c].status = "ACTIVE"
  OBVIOUS
<1>5. /\ \A e \in more : /\ e.on \in N /\ e.from = e.on.doc /\ e.by = "extractor"
  OBVIOUS
<1> HIDE DEF new, more, t
<1>6. /\ DOMAIN t.rows = DOMAIN s.rows \cup N
      /\ \A c \in DOMAIN s.rows \cup N :
           t.rows[c] = IF c \in N THEN new[c] ELSE s.rows[c]
  <2>1. /\ DOMAIN Over(s.rows, new) = DOMAIN s.rows \cup DOMAIN new
        /\ \A c \in DOMAIN s.rows \cup DOMAIN new :
             Over(s.rows, new)[c] = IF c \in DOMAIN new THEN new[c] ELSE s.rows[c]
    BY <1>s, <1>1, OverFacts
  <2>2. QED
    BY <1>1, <1>t, <2>1
<1>7. /\ DOMAIN t.view = DOMAIN s.view \cup N
      /\ \A c \in DOMAIN s.view \cup N :
           t.view[c] = IF c \in N THEN new[c] ELSE s.view[c]
  <2>1. /\ DOMAIN Over(s.view, new) = DOMAIN s.view \cup DOMAIN new
        /\ \A c \in DOMAIN s.view \cup DOMAIN new :
             Over(s.view, new)[c] = IF c \in DOMAIN new THEN new[c] ELSE s.view[c]
    BY <1>s, <1>1, OverFacts
  <2>2. QED
    BY <1>1, <1>t, <2>1
<1>8. /\ DOMAIN Sees(cl, s) = DOMAIN cl \cup DOMAIN s.rows
      /\ \A c \in DOMAIN cl \cup DOMAIN s.rows :
           Sees(cl, s)[c] = IF c \in DOMAIN s.rows THEN s.rows[c] ELSE cl[c]
  BY <1>s, SeesFacts
<1>9. /\ DOMAIN Sees(cl, t) = DOMAIN cl \cup DOMAIN t.rows
      /\ \A c \in DOMAIN cl \cup DOMAIN t.rows :
           Sees(cl, t)[c] = IF c \in DOMAIN t.rows THEN t.rows[c] ELSE cl[c]
  <2>1. t.rows \in Rowed
    BY <1>3 DEF Session
  <2>2. QED
    BY <2>1, SeesFacts
<1>10. /\ DOMAIN Sees(cl, t) = DOMAIN Sees(cl, s) \cup N
       /\ \A c \in DOMAIN Sees(cl, s) : Sees(cl, t)[c] = Sees(cl, s)[c]
       /\ \A c \in N : Sees(cl, t)[c] = new[c]
  BY <1>n, <1>6, <1>8, <1>9
<1>11. RowsOf(r, t, cl, ev, tx)
  <2>1. ASSUME NEW c \in DOMAIN t.rows
        PROVE  /\ c.run = r /\ tx[c.doc] # "absent"
               /\ c \in DOMAIN cl => t.rows[c].status = "DISPUTED" /\ t.rows[c].quote = cl[c].quote
               /\ t.rows[c].status = "DISPUTED"
                    => Explains(ev \cup t.evidence, r, c, t.rows[c].quote)
    <3>1. CASE c \in N
      <4>0. c \notin DOMAIN cl
        BY <3>1, <1>n, <1>8
      <4>x. t.rows[c] = new[c]
        BY <3>1, <1>6
      <4>1. t.rows[c].status = "ACTIVE" /\ c \notin DOMAIN cl
        BY <3>1, <1>4, <4>0, <4>x
      <4>2. tx[c.doc] # "absent"
        BY <3>1, <1>n, <1>q DEF SessionOk, CopyOf
      <4>3. QED
        BY <3>1, <1>n, <4>1, <4>2
    <3>2. CASE c \notin N
      BY <3>2, <1>6, <1>t DEF SessionOk, RowsOf, Explains
    <3>3. QED
      BY <3>1, <3>2
  <2>2. QED
    BY <2>1 DEF RowsOf
<1>12. ViewOf(r, t, cl)
  BY <1>n, <1>4, <1>7, <1>10 DEF SessionOk, ViewOf
<1>13. EvidenceOf(r, t, cl, ev, tx)
  <2>1. ASSUME NEW e \in t.evidence
        PROVE  /\ e.on.run = r /\ e.on \in DOMAIN Sees(cl, t)
               /\ tx[e.from] # "absent" /\ Balanced(e, ev \cup t.evidence, tx)
    <3>1. CASE e \in more
      BY <3>1, <1>n, <1>5, <1>10, <1>q DEF SessionOk, CopyOf, Balanced
    <3>2. CASE e \in s.evidence
      BY <3>2, <1>10, <1>t DEF SessionOk, EvidenceOf, Balanced
    <3>3. QED
      BY <3>1, <3>2, <1>t
  <2>2. QED
    BY <2>1 DEF EvidenceOf
<1>14. CopyOf(t, tx) /\ t.list \subseteq DOMAIN cl \cap DOMAIN t.view
       /\ \A f \in t.finding : f.cites \subseteq DOMAIN cl
  BY <1>t, <1>7 DEF SessionOk, CopyOf
<1>15. NumberedFor(r, DOMAIN Sees(cl, t))
  <2>1. \A c \in N : [c EXCEPT !.n = c.n] = c
    BY DEF Claims
  <2>2. QED
    BY <1>n, <2>1, <1>10 DEF SessionOk, NumberedFor
<1>16. SessionOk(r, t, cl, ev, tx)
  BY <1>11, <1>12, <1>13, <1>14, <1>15 DEF SessionOk
<1>17. \A c \in DOMAIN s.view : t.view[c] = s.view[c]
  BY <1>n, <1>7, <1>8 DEF SessionOk, ViewOf
<1>18. Flagged(r, s, cl) => Flagged(r, t, cl)
  <2>1. SUFFICES ASSUME Flagged(r, s, cl), NEW c \in DOMAIN Sees(cl, t),
                        c.run = r, Sees(cl, t)[c].status = "DISPUTED"
                 PROVE  \E k \in t.list : t.view[k].status = "DISPUTED"
    BY DEF Flagged
  <2>2. c \in DOMAIN Sees(cl, s) /\ Sees(cl, s)[c].status = "DISPUTED"
    <3>1. \A k \in N : Sees(cl, t)[k].status = "ACTIVE"
      BY <1>4, <1>10
    <3>2. c \notin N
      BY <2>1, <3>1
    <3>3. QED
      BY <1>10, <2>1, <3>2
  <2>3. PICK k \in s.list : s.view[k].status = "DISPUTED"
    BY <2>1, <2>2 DEF Flagged
  <2>4. QED
    BY <1>17, <1>t, <2>3 DEF SessionOk
<1>19. /\ \A c \in N : Sees(cl, t)[c] = [quote |-> s.copy[c.doc], status |-> "ACTIVE"]
       /\ \A c \in N : t.rows[c] = [quote |-> s.copy[c.doc], status |-> "ACTIVE"]
  BY <1>4, <1>6, <1>10
<1>20. QED
  BY <1>3, <1>6, <1>7, <1>10, <1>16, <1>17, <1>18, <1>19, <1>t DEF t

-----------------------------------------------------------------------------
(* The invariant, step by step *)

\* What is left to show of a step of the run r, or of a request about it, that
\* makes its row x and its session t.
LEMMA Stepping ==
    ASSUME EvidenceInv, NEW r \in Runs, NEW x \in Run, NEW t \in Session,
           run' = [run EXCEPT ![r] = x],
           session' = [session EXCEPT ![r] = t],
           text' \in [Docs -> Texts], maker' \in [Docs -> Runs \cup {None}],
           claim' \in Rowed, evidence' \subseteq EvidenceRow, finding' \subseteq Finding,
           requeues' \in 0 .. MaxRequeues, faults' \in 0 .. MaxFaults,
           StoreOk(claim', evidence', finding', text'),
           SessionOk(r, t, claim', evidence', text'),
           \A q \in Runs \ {r} : Spared(q, claim, claim', evidence, evidence', text, text'),
           run[r].executed => x.executed,
           \A d \in Docs : maker'[d] = maker[d] \/ (maker'[d] = r /\ x.executed),
           \A c \in DOMAIN claim' : c \in DOMAIN claim \/ (c.run = r /\ x.executed),
           x.pc = "idle" => t = Closed,
           x.pc # "idle" => x.status = "running" /\ x.executed,
           x.pc \in Judging => Flagged(r, t, claim'),
           x.status = "COMPLETED" /\ r \in Deep
             => \A c \in DOMAIN claim' : c.run = r => claim'[c].status # "DISPUTED"
    PROVE  EvidenceInv'
<1>s. /\ run \in [Runs -> Run] /\ session \in [Runs -> Session]
      /\ claim \in Rowed /\ maker \in [Docs -> Runs \cup {None}]
  BY DEF EvidenceInv, Shapes
<1>r. /\ run'[r] = x /\ session'[r] = t
      /\ \A q \in Runs \ {r} : run'[q] = run[q] /\ session'[q] = session[q]
  BY <1>s
<1>1. Shapes'
  BY <1>s DEF Shapes
<1>2. StoreOk(claim, evidence, finding, text)'
  BY DEF StoreOk
<1>3. SessionsInv' /\ \A q \in Runs \ {r} :
                          Flagged(q, session[q], claim) => Flagged(q, session[q], claim')
  <2>1. ASSUME NEW q \in Runs \ {r}
        PROVE  /\ SessionOk(q, session[q], claim', evidence', text')
               /\ Flagged(q, session[q], claim) => Flagged(q, session[q], claim')
    <3>1. SessionOk(q, session[q], claim, evidence, text) /\ session[q] \in Session
      BY <1>s DEF EvidenceInv, SessionsInv
    <3>2. QED
      BY <1>s, <3>1, SparedSession
  <2>2. \A q \in Runs : SessionOk(q, session'[q], claim', evidence', text')
    BY <1>r, <2>1
  <2>3. QED
    BY <2>1, <2>2 DEF SessionsInv
<1>4. RunsInv'
  <2>1. ASSUME NEW q \in Runs
        PROVE  /\ run'[q].pc = "idle" => session'[q] = Closed
               /\ run'[q].pc # "idle" => run'[q].status = "running" /\ run'[q].executed
               /\ run'[q].pc \in Judging => Flagged(q, session'[q], claim')
    <3>1. CASE q = r
      BY <1>r, <3>1
    <3>2. CASE q # r
      BY <1>r, <1>3, <3>2 DEF EvidenceInv, RunsInv
    <3>3. QED
      BY <3>1, <3>2
  <2>2. QED
    BY <2>1 DEF RunsInv
<1>5. ExecutedInv'
  <2>1. \A q \in Runs : run[q].executed => run'[q].executed
    BY <1>r
  <2>2. \A c \in DOMAIN claim : c.run \in Runs
    BY <1>s, RowedFacts DEF Claims
  <2>3. \A d \in Docs : maker'[d] # None => run'[maker'[d]].executed
    BY <1>s, <1>r, <2>1 DEF EvidenceInv, ExecutedInv
  <2>4. \A c \in DOMAIN claim' : run'[c.run].executed
    BY <1>r, <2>1, <2>2 DEF EvidenceInv, ExecutedInv
  <2>5. QED
    BY <2>3, <2>4 DEF ExecutedInv
<1>6. DisputedDeepRunIsReviewed'
  <2>1. ASSUME NEW q \in Deep, run'[q].status = "COMPLETED", NEW c \in DOMAIN claim', c.run = q
        PROVE  claim'[c].status # "DISPUTED"
    <3>1. q \in Runs
      BY EvidenceAssumption
    <3>2. CASE q = r
      BY <1>r, <2>1, <3>2
    <3>3. CASE q # r
      BY <1>r, <2>1, <3>1, <3>3 DEF Spared, EvidenceInv, DisputedDeepRunIsReviewed
    <3>4. QED
      BY <3>2, <3>3
  <2>2. QED
    BY <2>1 DEF DisputedDeepRunIsReviewed
<1>7. QED
  BY <1>1, <1>2, <1>3, <1>4, <1>5, <1>6 DEF EvidenceInv

LEMMA ClosedOk ==
    ASSUME NEW r \in Runs, NEW cl \in Rowed, NEW ev, NEW fi, NEW tx, StoreOk(cl, ev, fi, tx)
    PROVE  SessionOk(r, Closed, cl, ev, tx)
<1>1. DOMAIN Sees(cl, Closed) = DOMAIN cl
  <2>1. Closed.rows = Nothing /\ Closed.rows \in Rowed
    BY ClosedFacts, NothingFacts
  <2>2. DOMAIN Sees(cl, Closed) = DOMAIN cl \cup DOMAIN Closed.rows
    BY <2>1, SeesFacts
  <2>3. QED
    BY <2>1, <2>2, NothingFacts
<1>2. NumberedFor(r, DOMAIN Sees(cl, Closed))
  BY <1>1 DEF StoreOk, Numbered, NumberedFor
<1>3. QED
  BY <1>2, ClosedFacts, NothingFacts
     DEF SessionOk, RowsOf, ViewOf, EvidenceOf, CopyOf

\* The same, when the store stays as it is.
LEMMA Quiet ==
    ASSUME EvidenceInv, NEW r \in Runs, NEW x \in Run, NEW t \in Session,
           run' = [run EXCEPT ![r] = x],
           session' = [session EXCEPT ![r] = t],
           UNCHANGED <<text, maker, claim, evidence, finding>>,
           requeues' \in 0 .. MaxRequeues, faults' \in 0 .. MaxFaults,
           SessionOk(r, t, claim, evidence, text),
           run[r].executed => x.executed,
           x.pc = "idle" => t = Closed,
           x.pc # "idle" => x.status = "running" /\ x.executed,
           x.pc \in Judging => Flagged(r, t, claim),
           x.status = "COMPLETED" /\ r \in Deep
             => \A c \in DOMAIN claim : c.run = r => claim[c].status # "DISPUTED"
    PROVE  EvidenceInv'
<1>1. /\ text' = text /\ maker' = maker /\ claim' = claim
      /\ evidence' = evidence /\ finding' = finding
  OBVIOUS
<1>2. \A q \in Runs : Spared(q, claim, claim', evidence, evidence', text, text')
  BY <1>1 DEF Spared
<1>3. Shapes /\ StoreOk(claim', evidence', finding', text')
  BY <1>1 DEF EvidenceInv
<1>4. QED
  BY <1>1, <1>2, <1>3, Stepping DEF Shapes

\* What the invariant says of the run r and its session.
LEMMA AtRun ==
    ASSUME EvidenceInv, NEW r \in Runs
    PROVE  /\ Shapes /\ StoreOk(claim, evidence, finding, text)
           /\ run[r] \in Run /\ session[r] \in Session
           /\ run = [run EXCEPT ![r] = run[r]] /\ session = [session EXCEPT ![r] = session[r]]
           /\ SessionOk(r, session[r], claim, evidence, text)
           /\ run[r].pc = "idle" => session[r] = Closed
           /\ run[r].pc # "idle" => run[r].status = "running" /\ run[r].executed
           /\ run[r].pc \in Judging => Flagged(r, session[r], claim)
           /\ run[r].status = "COMPLETED" /\ r \in Deep
                => \A c \in DOMAIN claim : c.run = r => claim[c].status # "DISPUTED"
BY DEF EvidenceInv, Shapes, SessionsInv, RunsInv, DisputedDeepRunIsReviewed

LEMMA StartStep ==
    ASSUME EvidenceInv, NEW r \in Runs, Start(r)
    PROVE  EvidenceInv'
<1> DEFINE x == [run[r] EXCEPT !.pc = "retrieve", !.status = "running", !.executed = TRUE]
<1>1. run' = [run EXCEPT ![r] = x] /\ session' = [session EXCEPT ![r] = Closed]
  BY DEF Start, Step, Use
<1>2. x \in Run /\ x.pc = "retrieve" /\ x.status = "running" /\ x.executed
  BY AtRun DEF Run, Stages
<1>3. SessionOk(r, Closed, claim, evidence, text)
  BY AtRun, ClosedOk DEF Shapes
<1> HIDE DEF x
<1>4. QED
  BY <1>1, <1>2, <1>3, AtRun, ClosedFacts, Quiet DEF Start, Shapes, Judging

LEMMA ReplanStep ==
    ASSUME EvidenceInv, NEW r \in Runs, Replan(r)
    PROVE  EvidenceInv'
<1> DEFINE x == [run[r] EXCEPT !.pc = "retrieve"]
           s == session[r]
           t == [s EXCEPT !.replanned = TRUE]
<1>1. run' = [run EXCEPT ![r] = x] /\ session' = [session EXCEPT ![r] = t]
  BY DEF Replan, GoTo, Step, Use
<1>2. x \in Run /\ x.pc = "retrieve" /\ x.status = "running" /\ x.executed
  BY AtRun DEF Replan, Run, Stages
<1>s. s \in Session /\ SessionOk(r, s, claim, evidence, text)
  BY AtRun
<1> HIDE DEF x, s
<1>3. t \in Session
  BY <1>s DEF Session
<1>4. SessionOk(r, t, claim, evidence, text)
  BY <1>s DEF SessionOk, RowsOf, ViewOf, EvidenceOf, CopyOf, Sees, Session
<1>5. requeues' \in 0 .. MaxRequeues /\ faults' \in 0 .. MaxFaults
  BY AtRun, EvidenceAssumption DEF Replan, Shapes
<1> HIDE DEF t
<1>6. QED
  BY <1>1, <1>2, <1>3, <1>4, <1>5, AtRun, Quiet DEF Replan, Judging

LEMMA SynthesizeStep ==
    ASSUME EvidenceInv, NEW r \in Runs, NEW fs \in Findings(r, session[r]), Synthesize(r, fs)
    PROVE  EvidenceInv'
<1> DEFINE n == run[r].file + 1
           x == [run[r] EXCEPT !.pc = "save", !.file = n]
           s == session[r]
           t == [s EXCEPT !.finding = fs, !.report = n]
<1>1. run' = [run EXCEPT ![r] = x] /\ session' = [session EXCEPT ![r] = t]
  BY DEF Synthesize, Step, Use
<1>n. n \in Nat
  BY AtRun DEF Run
<1>2. x \in Run /\ x.pc = "save" /\ x.status = "running" /\ x.executed
  BY <1>n, AtRun DEF Synthesize, Run, Stages
<1>3. s \in Session /\ SessionOk(r, s, claim, evidence, text) /\ Flagged(r, s, claim)
  BY AtRun DEF Synthesize, Judging
<1>4. s.list \subseteq Claims
  BY <1>3 DEF Session
<1> HIDE DEF x, s, n
<1>5. \A f \in fs : f \in Finding /\ f.cites \subseteq s.list
  <2>1. \A C \in SUBSET s.list : \A ok \in BOOLEAN :
            [run |-> r, cites |-> C, grounded |-> ok] \in Finding
    BY <1>4 DEF Finding
  <2>2. /\ \A c \in s.list : {c} \in SUBSET s.list
        /\ {} \in SUBSET s.list
        /\ ActiveIn(s) \subseteq s.list
    BY DEF ActiveIn
  <2>3. \A f \in fs : \E C \in SUBSET s.list : \E ok \in BOOLEAN :
            f = [run |-> r, cites |-> C, grounded |-> ok]
    <3>1. \/ \E c \in ActiveIn(s) : fs = {[run |-> r, cites |-> {c}, grounded |-> TRUE]}
          \/ fs = {[run |-> r, cites |-> {}, grounded |-> FALSE]}
          \/ fs = {[run |-> r, cites |-> {c}, grounded |-> TRUE] : c \in s.list}
      BY DEF Findings, s
    <3>2. QED
      BY <2>2, <3>1
  <2>4. QED
    BY <2>1, <2>3
<1>6. t \in Session
  BY <1>n, <1>3, <1>5 DEF Session
<1>7. SessionOk(r, t, claim, evidence, text) /\ Flagged(r, t, claim)
  BY <1>3, <1>5 DEF SessionOk, RowsOf, ViewOf, EvidenceOf, CopyOf, Sees, Session, Flagged
<1> HIDE DEF t
<1>8. QED
  BY <1>1, <1>2, <1>6, <1>7, AtRun, Quiet DEF Synthesize, Shapes

LEMMA DecideStep ==
    ASSUME EvidenceInv, NEW r \in Runs, Decide(r)
    PROVE  EvidenceInv'
<1> DEFINE x == [run[r] EXCEPT
                   !.pc = "idle",
                   !.status = IF NeedsReview(r) THEN "REVIEW_REQUIRED" ELSE "COMPLETED"]
           s == session[r]
<1>1. run' = [run EXCEPT ![r] = x] /\ session' = [session EXCEPT ![r] = Closed]
  BY DEF Decide, Step, Use
<1>2. /\ x \in Run /\ x.pc = "idle" /\ x.executed
      /\ x.status = IF NeedsReview(r) THEN "REVIEW_REQUIRED" ELSE "COMPLETED"
  BY AtRun DEF Decide, Run, Stages
<1>3. /\ s \in Session /\ Flagged(r, s, claim) /\ claim \in Rowed
      /\ SessionOk(r, s, claim, evidence, text)
  BY AtRun DEF Decide, Judging, Shapes
<1>4. ASSUME r \in Deep, ~NeedsReview(r), NEW c \in DOMAIN claim, c.run = r,
             claim[c].status = "DISPUTED"
      PROVE  FALSE
  <2>1. /\ DOMAIN Sees(claim, s) = DOMAIN claim \cup DOMAIN s.rows
        /\ \A k \in DOMAIN claim \cup DOMAIN s.rows :
             Sees(claim, s)[k] = IF k \in DOMAIN s.rows THEN s.rows[k] ELSE claim[k]
    BY <1>3, SeesFacts DEF Session
  <2>2. c \in DOMAIN Sees(claim, s) /\ Sees(claim, s)[c].status = "DISPUTED"
    BY <1>3, <1>4, <2>1 DEF SessionOk, RowsOf
  <2>3. \E k \in s.list : s.view[k].status = "DISPUTED"
    BY <1>3, <1>4, <2>2 DEF Flagged
  <2>4. QED
    BY <1>4, <2>3 DEF NeedsReview
<1>5. SessionOk(r, Closed, claim, evidence, text)
  BY AtRun, ClosedOk DEF Shapes
<1> HIDE DEF x, s
<1>6. QED
  BY <1>1, <1>2, <1>4, <1>5, AtRun, ClosedFacts, Quiet DEF Decide, Judging, Shapes

LEMMA CrashStep ==
    ASSUME EvidenceInv, NEW r \in Runs, Crash(r)
    PROVE  EvidenceInv'
<1> DEFINE x == [run[r] EXCEPT !.pc = "idle"]
<1>1. run' = [run EXCEPT ![r] = x] /\ session' = [session EXCEPT ![r] = Closed]
  BY DEF Crash, GoTo, Step, Use
<1>2. x \in Run /\ x.pc = "idle" /\ x.executed /\ x.status = "running"
  BY AtRun DEF Crash, Run, Stages
<1>3. SessionOk(r, Closed, claim, evidence, text)
  BY AtRun, ClosedOk DEF Shapes
<1>4. requeues' \in 0 .. MaxRequeues /\ faults' \in 0 .. MaxFaults
  BY AtRun, EvidenceAssumption DEF Crash, Shapes
<1> HIDE DEF x
<1>5. QED
  BY <1>1, <1>2, <1>3, <1>4, AtRun, ClosedFacts, Quiet DEF Crash, Judging

\* A request changes the row of a run that no worker executes.
LEMMA RequestStep ==
    ASSUME EvidenceInv, NEW r \in Runs,
           Requeue(r) \/ CancelQueued(r) \/ Age(r) \/ PurgeRefused(r)
    PROVE  EvidenceInv'
<1>1. PICK x \in Run : /\ run' = [run EXCEPT ![r] = x]
                       /\ x.pc = "idle" /\ x.executed = run[r].executed
                       /\ x.status = run[r].status \/ x.status # "COMPLETED"
  <2>1. run[r].pc = "idle"
    BY AtRun DEF Requeue, CancelQueued, Age, PurgeRefused, Expired, Terminal
  <2>2. CASE Requeue(r)
    <3>1. [run[r] EXCEPT !.status = "QUEUED"] \in Run
      BY AtRun DEF Run
    <3>2. QED
      BY <2>1, <2>2, <3>1, AtRun DEF Requeue, Step, Run
  <2>3. CASE CancelQueued(r)
    <3>1. [run[r] EXCEPT !.status = "ended"] \in Run
      BY AtRun DEF Run
    <3>2. QED
      BY <2>1, <2>3, <3>1, AtRun DEF CancelQueued, Step, Run
  <2>4. CASE Age(r)
    <3>1. [run[r] EXCEPT !.age = @ + 1] \in Run
      BY <2>4, AtRun DEF Age, Run
    <3>2. QED
      BY <2>1, <2>4, <3>1, AtRun DEF Age, Step, Run
  <2>5. CASE PurgeRefused(r)
    <3>1. [run[r] EXCEPT !.file = 0] \in Run
      BY AtRun DEF Run
    <3>2. QED
      BY <2>1, <2>5, <3>1, AtRun DEF PurgeRefused, Step, Run
  <2>6. QED
    BY <2>2, <2>3, <2>4, <2>5
<1>2. /\ UNCHANGED <<text, maker, claim, evidence, finding, session>>
      /\ requeues' \in 0 .. MaxRequeues /\ faults' \in 0 .. MaxFaults
  BY AtRun, EvidenceAssumption DEF Requeue, CancelQueued, Age, PurgeRefused, Shapes
<1>3. session[r] = Closed /\ session' = [session EXCEPT ![r] = session[r]]
  BY <1>2, AtRun DEF Requeue, CancelQueued, Age, PurgeRefused, Expired, Terminal
<1>4. x.status = "COMPLETED" /\ r \in Deep
        => \A c \in DOMAIN claim : c.run = r => claim[c].status # "DISPUTED"
  BY <1>1, AtRun
<1>5. QED
  BY <1>1, <1>2, <1>3, <1>4, AtRun, Quiet DEF Judging

\* Rows stay sound when texts are stored or purged.
LEMMA TextsMove ==
    ASSUME NEW r, NEW cl \in Rowed, NEW ev \in SUBSET EvidenceRow, NEW fi, NEW tx, NEW tx2,
           Spared(r, cl, cl, ev, ev, tx, tx2), StoreOk(cl, ev, fi, tx)
    PROVE  StoreOk(cl, ev, fi, tx2)
<1>1. DOMAIN cl \subseteq Claims
  BY RowedFacts
<1>2. \A c \in DOMAIN cl : tx2[c.doc] # "absent"
  BY <1>1 DEF StoreOk, Spared, Claims
<1>3. \A e \in ev : tx2[e.from] # "absent" /\ Balanced(e, ev, tx2)
  BY DEF StoreOk, Spared, Balanced, EvidenceRow, Claims
<1>4. QED
  BY <1>2, <1>3 DEF StoreOk

\* RetrieverAgent and get_or_create_source: nothing that is stored changes.
LEMMA Fetching ==
    ASSUME EvidenceInv, NEW r \in Runs, NEW ds \in SUBSET Docs, Fetch(r, ds)
    PROVE  /\ text' = Stored(ds) /\ text' \in [Docs -> Texts]
           /\ maker' \in [Docs -> Runs \cup {None}]
           /\ \A d \in Docs : maker'[d] = maker[d] \/ maker'[d] = r
           /\ \A q \in Runs : Spared(q, claim, claim, evidence, evidence, text, text')
           /\ StoreOk(claim, evidence, finding, text')
<1>s. text \in [Docs -> Texts] /\ maker \in [Docs -> Runs \cup {None}]
      /\ claim \in Rowed /\ evidence \in SUBSET EvidenceRow
      /\ StoreOk(claim, evidence, finding, text)
  BY DEF EvidenceInv, Shapes
<1>1. text' = Stored(ds)
      /\ maker' = [d \in Docs |-> IF text[d] # Stored(ds)[d] THEN r ELSE maker[d]]
  BY DEF Fetch
<1>2. \A q \in Runs : Spared(q, claim, claim, evidence, evidence, text, text')
  <2>1. \A d \in Docs : /\ text[d] # "absent" => Stored(ds)[d] # "absent"
                        /\ text[d] = "purged" => Stored(ds)[d] = "purged"
    BY <1>s, StoredFacts
  <2>2. QED
    BY <1>1, <2>1 DEF Spared
<1>3. StoreOk(claim, evidence, finding, text')
  BY <1>s, <1>2, TextsMove
<1>4. QED
  BY <1>s, <1>1, <1>2, <1>3, StoredFacts

LEMMA RetrieveStep ==
    ASSUME EvidenceInv, NEW r \in Runs, NEW ds \in SUBSET Offers[r], Retrieve(r, ds)
    PROVE  EvidenceInv'
<1> DEFINE x == [run[r] EXCEPT !.pc = "extract"]
           l == Loaded(session[r], ds)
           t == [l EXCEPT !.ingested = ds]
<1>1. /\ run' = [run EXCEPT ![r] = x] /\ session' = [session EXCEPT ![r] = t]
      /\ UNCHANGED <<claim, evidence, finding, requeues, faults>>
  BY DEF Retrieve, GoTo, Step, Use
<1>2. x \in Run /\ x.pc = "extract" /\ x.status = "running" /\ x.executed
  BY AtRun DEF Retrieve, Run, Stages
<1>3. ds \in SUBSET Docs /\ Fetch(r, ds)
  BY EvidenceAssumption DEF Retrieve
<1>4. /\ l \in Session /\ SessionOk(r, l, claim, evidence, text')
      /\ \A d \in ds : l.copy[d] # "absent"
  BY <1>3, AtRun, Loading, Fetching DEF Shapes
<1> HIDE DEF x, l
<1>5. t \in Session
  BY <1>3, <1>4 DEF Session
<1>6. SessionOk(r, t, claim, evidence, text')
  BY <1>4 DEF SessionOk, RowsOf, ViewOf, EvidenceOf, CopyOf, Sees, Session
<1> HIDE DEF t
<1>7. /\ Shapes /\ claim' = claim /\ evidence' = evidence /\ finding' = finding
      /\ requeues' = requeues /\ faults' = faults
  BY <1>1, AtRun
<1>8. /\ text' \in [Docs -> Texts] /\ maker' \in [Docs -> Runs \cup {None}]
      /\ claim' \in Rowed /\ evidence' \subseteq EvidenceRow /\ finding' \subseteq Finding
      /\ requeues' \in 0 .. MaxRequeues /\ faults' \in 0 .. MaxFaults
  BY <1>3, <1>7, Fetching DEF Shapes
<1>9. /\ StoreOk(claim', evidence', finding', text')
      /\ \A q \in Runs \ {r} : Spared(q, claim, claim', evidence, evidence', text, text')
      /\ \A d \in Docs : maker'[d] = maker[d] \/ (maker'[d] = r /\ x.executed)
      /\ SessionOk(r, t, claim', evidence', text')
  BY <1>2, <1>3, <1>6, <1>7, Fetching
<1>10. \A c \in DOMAIN claim' : c \in DOMAIN claim \/ (c.run = r /\ x.executed)
  BY <1>7
<1>11. x.pc \notin Judging
  BY <1>2 DEF Judging
<1>12. QED
  BY <1>1, <1>2, <1>5, <1>8, <1>9, <1>10, <1>11, Stepping

\* _persist numbers a run's claims from a document, and this is the next one.
LEMMA NextFacts ==
    ASSUME claim \in Rowed, NEW r \in Runs, NEW d \in Docs, NEW s \in Session,
           NumberedFor(r, DOMAIN Sees(claim, s)), NEW c \in NextClaim(r, s, d)
    PROVE  /\ c \in Claims /\ c.run = r /\ c.doc = d /\ c \notin DOMAIN Sees(claim, s)
           /\ \A n \in 1 .. c.n : n # c.n => [c EXCEPT !.n = n] \in DOMAIN Sees(claim, s)
           /\ NextClaim(r, s, d) = {c}
<1> DEFINE C == DOMAIN claim \cup DOMAIN s.rows
           K == {k \in C : k.run = r /\ k.doc = d}
<1>1. s.rows \in Rowed
  BY DEF Session
<1>2. DOMAIN Sees(claim, s) = C /\ C \in SUBSET Claims
  BY <1>1, SeesFacts, RowedFacts
<1>3. /\ c \in Claims /\ c.run = r /\ c.doc = d
      /\ c.n = 1 + Cardinality(K)
  BY DEF NextClaim
<1>4. \A k \in NextClaim(r, s, d) : k = c
  BY DEF NextClaim, Claims
<1> HIDE DEF C
<1>5. c \notin C /\ \A n \in 1 .. c.n : n # c.n => [c EXCEPT !.n = n] \in C
  <2>0. C \in SUBSET Claims /\ NumberedFor(r, C)
    BY <1>2
  <2>1. \A k \in Claims : /\ k.n \in Nat \ {0} /\ k.n <= MaxVisits
                          /\ k.run = r /\ k.doc = d => k = [run |-> r, doc |-> d, n |-> k.n]
    BY EvidenceAssumption DEF Claims
  <2>2. \A n : [c EXCEPT !.n = n] = [run |-> r, doc |-> d, n |-> n]
    BY <1>3 DEF Claims
  <2>3. IsFiniteSet(K) /\ Cardinality(K) \in Nat
    <3>1. MaxVisits \in Nat
      BY EvidenceAssumption
    <3>2. K \subseteq FirstOf(r, d, MaxVisits)
      BY <2>0, <2>1, <3>1 DEF FirstOf
    <3>3. QED
      BY <3>1, <3>2, FirstCount, FS_Subset, FS_CardinalityType
  <2>4. c \notin C
    <3>1. SUFFICES ASSUME c \in C PROVE FALSE
      OBVIOUS
    <3>2. FirstOf(r, d, c.n) \subseteq K
      <4>1. \A n \in 1 .. c.n : [c EXCEPT !.n = n] \in C
        BY <1>3, <2>0, <3>1 DEF NumberedFor
      <4>2. \A n \in 1 .. c.n : [run |-> r, doc |-> d, n |-> n] \in C
        BY <2>2, <4>1
      <4>3. QED
        BY <4>2, <1>3 DEF FirstOf
    <3>x. c.n \in Nat /\ Cardinality(FirstOf(r, d, c.n)) = c.n
      BY <1>3, <2>1, FirstCount
    <3>3. c.n <= Cardinality(K)
      BY <2>3, <3>2, <3>x, FS_Subset
    <3>4. QED
      BY <1>3, <2>1, <2>3, <3>3
  <2>5. ASSUME NEW n \in 1 .. c.n, n # c.n PROVE [c EXCEPT !.n = n] \in C
    <3>1. SUFFICES ASSUME [c EXCEPT !.n = n] \notin C PROVE FALSE
      OBVIOUS
    <3>2. n \in Nat \ {0} /\ n <= Cardinality(K)
      BY <1>3, <2>1, <2>3, <2>5
    <3>3. ASSUME NEW k \in K PROVE k.n \in 1 .. n - 1
      <4>1. \A i \in 1 .. k.n : [k EXCEPT !.n = i] \in C
        BY <2>0 DEF NumberedFor
      <4>2. \A i : [k EXCEPT !.n = i] = [c EXCEPT !.n = i]
        BY <2>0, <2>2 DEF Claims
      <4>3. n \notin 1 .. k.n
        BY <3>1, <4>1, <4>2
      <4>4. k \in Claims
        BY <2>0
      <4>5. k.n \in Nat \ {0}
        BY <2>1, <4>4
      <4>6. QED
        BY <3>2, <4>3, <4>5
    <3>4. K \subseteq FirstOf(r, d, n - 1)
      BY <2>0, <2>1, <3>3 DEF FirstOf
    <3>5. Cardinality(K) <= n - 1
      BY <3>2, <3>4, FirstCount, FS_Subset
    <3>6. QED
      BY <2>3, <3>2, <3>5
  <2>6. QED
    BY <2>4, <2>5
<1>6. QED
  BY <1>2, <1>3, <1>4, <1>5

LEMMA ExtractStep ==
    ASSUME EvidenceInv, NEW r \in Runs, NEW ds \in SUBSET Offers[r], Extract(r, ds)
    PROVE  EvidenceInv'
<1> DEFINE s == session[r]
           N == UNION {NextClaim(r, s, d) : d \in ds}
           g == Grown(s, N)
           found == [c \in Own(r) |-> claim'[c]]
           t == [Committed(g) EXCEPT !.list = Own(r), !.view = Over(found, g.view)]
           x == [run[r] EXCEPT !.pc = IF Own(r) = {} THEN "critic" ELSE "verify"]
<1>s. /\ s \in Session /\ SessionOk(r, s, claim, evidence, text)
      /\ claim \in Rowed /\ evidence \in SUBSET EvidenceRow
      /\ StoreOk(claim, evidence, finding, text)
      /\ text \in [Docs -> Texts] /\ maker \in [Docs -> Runs \cup {None}]
      /\ finding \subseteq Finding
      /\ requeues \in 0 .. MaxRequeues /\ faults \in 0 .. MaxFaults
  BY AtRun DEF Shapes
<1>g. Extracted(r, s, ds) = g
  BY DEF Extracted, Grown
<1>1. /\ run' = [run EXCEPT ![r] = x] /\ session' = [session EXCEPT ![r] = t]
      /\ claim' = Sees(claim, g) /\ evidence' = evidence \cup g.evidence
      /\ finding' = finding \cup g.finding
      /\ UNCHANGED <<text, maker, requeues, faults>>
      /\ ds \subseteq s.ingested
  BY <1>g DEF Extract, GoTo, Step, Use, Commit, Sees
<1>2. /\ x \in Run /\ x.pc \in {"critic", "verify"} /\ x.status = "running" /\ x.executed
  BY AtRun DEF Extract, Run, Stages
<1> HIDE DEF s, x
<1>3. /\ N \in SUBSET Claims
      /\ \A c \in N : /\ c.run = r /\ c \notin DOMAIN Sees(claim, s)
                      /\ s.copy[c.doc] # "absent"
                      /\ \A n \in 1 .. c.n :
                           n # c.n => [c EXCEPT !.n = n] \in DOMAIN Sees(claim, s)
  <2>1. ASSUME NEW d \in ds, NEW c \in NextClaim(r, s, d)
        PROVE  /\ c \in Claims /\ c.run = r /\ c \notin DOMAIN Sees(claim, s)
               /\ s.copy[c.doc] # "absent"
               /\ \A n \in 1 .. c.n : n # c.n => [c EXCEPT !.n = n] \in DOMAIN Sees(claim, s)
    <3>1. d \in Docs /\ NumberedFor(r, DOMAIN Sees(claim, s)) /\ s.copy[d] # "absent"
      BY <1>s, <1>1, EvidenceAssumption DEF SessionOk, CopyOf
    <3>2. QED
      BY <1>s, <3>1, NextFacts
  <2>2. QED
    BY <2>1
<1> HIDE DEF N
<1>4. g \in Session /\ SessionOk(r, g, claim, evidence, text)
  <2>1. Following(r, s, claim, N)
    BY <1>3 DEF Following
  <2>2. QED
    BY <1>s, <1>3, <2>1, Growing
<1> HIDE DEF g
<1>5. /\ claim' \in Rowed /\ StoreOk(claim', evidence', finding', text)
      /\ SessionOk(r, Committed(g), claim', evidence', text)
      /\ \A q \in Runs \ {r} : Spared(q, claim, claim', evidence, evidence', text, text)
      /\ \A c \in DOMAIN claim' : c \in DOMAIN claim \/ c.run = r
  BY <1>s, <1>1, <1>4, Committing
<1>6. found \in Rowed /\ DOMAIN found = Own(r) /\ \A c \in Own(r) : found[c] = claim'[c]
  <2>1. Own(r) \in SUBSET Claims /\ \A c \in Own(r) : claim'[c] \in Row
    BY <1>5, RowedFacts DEF Own
  <2>2. QED
    BY <2>1 DEF Rowed
<1> HIDE DEF found
<1>7. /\ Over(found, g.view) \in Rowed
      /\ DOMAIN Over(found, g.view) = Own(r) \cup DOMAIN g.view
      /\ \A c \in Own(r) \cup DOMAIN g.view :
           Over(found, g.view)[c] = IF c \in DOMAIN g.view THEN g.view[c] ELSE claim'[c]
  <2>1. g.view \in Rowed
    BY <1>4 DEF Session
  <2>2. QED
    <3>1. /\ Over(found, g.view) \in Rowed
          /\ DOMAIN Over(found, g.view) = DOMAIN found \cup DOMAIN g.view
          /\ \A c \in DOMAIN found \cup DOMAIN g.view :
               Over(found, g.view)[c] = IF c \in DOMAIN g.view THEN g.view[c] ELSE found[c]
      BY <1>6, <2>1, OverFacts
    <3>2. QED
      BY <1>6, <3>1
<1>8. /\ Committed(g) \in Session
      /\ Committed(g).rows = Nothing /\ Committed(g).view = g.view
      /\ Committed(g).evidence = {} /\ Committed(g).finding = {}
  BY <1>4, CommittedFacts
<1>9. /\ t \in Session
      /\ t.list = Own(r) /\ t.view = Over(found, g.view)
      /\ t.rows = Nothing /\ t.evidence = {} /\ t.finding = {}
      /\ t.copy = Committed(g).copy /\ t.ingested = Committed(g).ingested
  <2>1. Own(r) \subseteq Claims
    BY <1>5, RowedFacts DEF Own
  <2>2. QED
    BY <1>7, <1>8, <2>1 DEF Session
<1> HIDE DEF t
<1>10. /\ DOMAIN Sees(claim', t) = DOMAIN claim'
       /\ \A c \in DOMAIN claim' : Sees(claim', t)[c] = claim'[c]
       /\ DOMAIN Sees(claim', Committed(g)) = DOMAIN claim'
       /\ \A c \in DOMAIN claim' : Sees(claim', Committed(g))[c] = claim'[c]
  <2>1. \A u \in {t, Committed(g)} : u.rows = Nothing
    BY <1>8, <1>9
  <2>2. /\ DOMAIN Over(claim', Nothing) = DOMAIN claim' \cup DOMAIN Nothing
        /\ \A c \in DOMAIN claim' \cup DOMAIN Nothing :
             Over(claim', Nothing)[c] = IF c \in DOMAIN Nothing THEN Nothing[c] ELSE claim'[c]
    BY <1>5, NothingFacts, OverFacts
  <2>3. QED
    BY <2>1, <2>2, NothingFacts DEF Sees
<1>11. SessionOk(r, t, claim', evidence', text)
  <2>1. ViewOf(r, t, claim')
    <3>1. ASSUME NEW c \in DOMAIN t.view
          PROVE  /\ c.run = r /\ c \in DOMAIN claim'
                 /\ t.view[c].quote = claim'[c].quote
                 /\ claim'[c].status = "DISPUTED" => t.view[c].status = "DISPUTED"
      <4>1. CASE c \in DOMAIN g.view
        BY <1>5, <1>7, <1>8, <1>9, <1>10, <4>1 DEF SessionOk, ViewOf
      <4>2. CASE c \notin DOMAIN g.view
        BY <1>7, <1>9, <4>2 DEF Own
      <4>3. QED
        BY <4>1, <4>2
    <3>2. QED
      BY <1>10, <3>1 DEF ViewOf
  <2>2. RowsOf(r, t, claim', evidence', text) /\ EvidenceOf(r, t, claim', evidence', text)
    BY <1>9, NothingFacts DEF RowsOf, EvidenceOf
  <2>3. CopyOf(t, text) /\ (\A f \in t.finding : f.cites \subseteq DOMAIN claim')
    BY <1>5, <1>9 DEF SessionOk, CopyOf
  <2>4. t.list \subseteq DOMAIN claim' \cap DOMAIN t.view
    BY <1>7, <1>9 DEF Own
  <2>5. NumberedFor(r, DOMAIN Sees(claim', t))
    BY <1>5, <1>10 DEF SessionOk
  <2>6. QED
    BY <2>1, <2>2, <2>3, <2>4, <2>5 DEF SessionOk
<1>12. Flagged(r, t, claim')
  <2>1. ASSUME NEW c \in DOMAIN claim', c.run = r, claim'[c].status = "DISPUTED"
        PROVE  c \in t.list /\ t.view[c].status = "DISPUTED"
    <3>1. c \in Own(r)
      BY <2>1 DEF Own
    <3>2. c \in DOMAIN t.view
      BY <1>7, <1>9, <3>1
    <3>3. QED
      BY <1>9, <1>10, <1>11, <2>1, <3>1, <3>2 DEF SessionOk, ViewOf
  <2>2. QED
    BY <1>10, <2>1 DEF Flagged
<1>13. finding' \subseteq Finding /\ evidence' \subseteq EvidenceRow
  BY <1>s, <1>1, <1>4 DEF Session
<1>14. /\ text' = text /\ maker' = maker /\ requeues' = requeues /\ faults' = faults
  BY <1>1
<1>15. /\ StoreOk(claim', evidence', finding', text')
       /\ \A q \in Runs \ {r} : Spared(q, claim, claim', evidence, evidence', text, text')
       /\ SessionOk(r, t, claim', evidence', text')
       /\ \A d \in Docs : maker'[d] = maker[d] \/ (maker'[d] = r /\ x.executed)
       /\ \A c \in DOMAIN claim' : c \in DOMAIN claim \/ (c.run = r /\ x.executed)
  BY <1>2, <1>5, <1>11, <1>14
<1>16. /\ text' \in [Docs -> Texts] /\ maker' \in [Docs -> Runs \cup {None}]
       /\ requeues' \in 0 .. MaxRequeues /\ faults' \in 0 .. MaxFaults
  BY <1>s, <1>14
<1>17. QED
  BY <1>1, <1>2, <1>5, <1>9, <1>12, <1>13, <1>15, <1>16, Stepping

\* A commit of the session u by a step of the run r that leaves it t.
LEMMA Saving ==
    ASSUME EvidenceInv, NEW r \in Runs, NEW x \in Run, NEW u \in Session, NEW t \in Session,
           run' = [run EXCEPT ![r] = x],
           session' = [session EXCEPT ![r] = t],
           claim' = Sees(claim, u), evidence' = evidence \cup u.evidence,
           finding' = finding \cup u.finding,
           UNCHANGED <<text, maker>>,
           requeues' \in 0 .. MaxRequeues, faults' \in 0 .. MaxFaults,
           SessionOk(r, u, claim, evidence, text),
           t = Closed \/ t = Committed(u),
           x.executed,
           x.pc = "idle" => t = Closed,
           x.pc # "idle" => x.status = "running",
           x.pc \in Judging => t = Committed(u) /\ Flagged(r, u, claim),
           x.status # "COMPLETED"
    PROVE  EvidenceInv'
<1>s. /\ claim \in Rowed /\ evidence \in SUBSET EvidenceRow
      /\ StoreOk(claim, evidence, finding, text)
      /\ text \in [Docs -> Texts] /\ maker \in [Docs -> Runs \cup {None}]
      /\ finding \subseteq Finding
  BY AtRun DEF Shapes
<1>1. /\ claim' \in Rowed /\ StoreOk(claim', evidence', finding', text)
      /\ SessionOk(r, Committed(u), claim', evidence', text)
      /\ Flagged(r, u, claim) => Flagged(r, Committed(u), claim')
      /\ \A q \in Runs \ {r} : Spared(q, claim, claim', evidence, evidence', text, text)
      /\ \A c \in DOMAIN claim' : c \in DOMAIN claim \/ c.run = r
  BY <1>s, Committing
<1>2. SessionOk(r, Closed, claim', evidence', text)
  BY <1>1, ClosedOk
<1>3. text' = text /\ maker' = maker
  OBVIOUS
<1>4. /\ StoreOk(claim', evidence', finding', text')
      /\ SessionOk(r, t, claim', evidence', text')
      /\ \A q \in Runs \ {r} : Spared(q, claim, claim', evidence, evidence', text, text')
      /\ \A d \in Docs : maker'[d] = maker[d] \/ (maker'[d] = r /\ x.executed)
      /\ \A c \in DOMAIN claim' : c \in DOMAIN claim \/ (c.run = r /\ x.executed)
      /\ x.pc \in Judging => Flagged(r, t, claim')
  BY <1>1, <1>2, <1>3
<1>5. /\ text' \in [Docs -> Texts] /\ maker' \in [Docs -> Runs \cup {None}]
      /\ finding' \subseteq Finding /\ evidence' \subseteq EvidenceRow
  BY <1>s, <1>3 DEF Session
<1>6. QED
  BY <1>1, <1>4, <1>5, Stepping

LEMMA SaveReportStep ==
    ASSUME EvidenceInv, NEW r \in Runs, SaveReport(r)
    PROVE  EvidenceInv'
<1> DEFINE s == session[r]
           x == [run[r] EXCEPT !.pc = "decide", !.listed = s.report]
<1>s. /\ s \in Session /\ SessionOk(r, s, claim, evidence, text) /\ Flagged(r, s, claim)
      /\ requeues \in 0 .. MaxRequeues /\ faults \in 0 .. MaxFaults
  BY AtRun DEF SaveReport, Judging, Shapes
<1>1. s.report \in Nat
  BY <1>s DEF Session
<1>2. x \in Run /\ x.pc = "decide" /\ x.status = "running" /\ x.executed
  BY <1>1, AtRun DEF SaveReport, Run, Stages
<1>3. /\ run' = [run EXCEPT ![r] = x] /\ session' = [session EXCEPT ![r] = Committed(s)]
      /\ claim' = Sees(claim, s) /\ evidence' = evidence \cup s.evidence
      /\ finding' = finding \cup s.finding
      /\ UNCHANGED <<text, maker>> /\ requeues' = requeues /\ faults' = faults
  BY DEF SaveReport, Commit, Step, Use, Sees
<1> HIDE DEF s, x
<1>4. Committed(s) \in Session
  BY <1>s, CommittedFacts
<1>5. QED
  BY <1>s, <1>2, <1>3, <1>4, Saving

LEMMA FailStep ==
    ASSUME EvidenceInv, NEW r \in Runs, Fail(r)
    PROVE  EvidenceInv'
<1> DEFINE s == session[r]
<1>s. /\ s \in Session /\ SessionOk(r, s, claim, evidence, text) /\ Shapes
      /\ SessionOk(r, Closed, claim, evidence, text)
  BY AtRun, ClosedOk DEF Shapes
<1>1. /\ requeues' \in 0 .. MaxRequeues /\ faults' \in 0 .. MaxFaults
      /\ UNCHANGED <<text, maker>>
      /\ session' = [session EXCEPT ![r] = Closed]
      /\ run[r] \in Run /\ run[r].executed
  BY <1>s, AtRun, EvidenceAssumption DEF Fail, Shapes, Use
<1>2. CASE /\ Commit(s)
           /\ Step(r, [run[r] EXCEPT
                !.pc = "idle", !.status = "ended",
                !.listed = IF s.report # 0 THEN s.report ELSE @])
  <2> DEFINE x == [run[r] EXCEPT
                     !.pc = "idle", !.status = "ended",
                     !.listed = IF s.report # 0 THEN s.report ELSE @]
  <2>1. s.report \in Nat
    BY <1>s DEF Session
  <2>2. x \in Run /\ x.pc = "idle" /\ x.status = "ended" /\ x.executed
    BY <1>1, <2>1 DEF Run
  <2>3. /\ run' = [run EXCEPT ![r] = x]
        /\ claim' = Sees(claim, s) /\ evidence' = evidence \cup s.evidence
        /\ finding' = finding \cup s.finding
    BY <1>2 DEF Commit, Step, Sees
  <2> HIDE DEF s, x
  <2>4. QED
    BY <1>s, <1>1, <2>2, <2>3, ClosedFacts, Saving DEF Judging
<1>3. CASE /\ Step(r, [run[r] EXCEPT !.pc = "idle", !.status = "ended"])
           /\ UNCHANGED <<claim, evidence, finding>>
  <2> DEFINE x == [run[r] EXCEPT !.pc = "idle", !.status = "ended"]
  <2>1. x \in Run /\ x.pc = "idle" /\ x.status = "ended" /\ x.executed
    BY <1>1 DEF Run
  <2>2. run' = [run EXCEPT ![r] = x] /\ UNCHANGED <<claim, evidence, finding>>
    BY <1>3 DEF Step
  <2> HIDE DEF s, x
  <2>3. QED
    BY <1>s, <1>1, <2>1, <2>2, ClosedFacts, Quiet DEF Judging
<1>4. QED
  BY <1>2, <1>3 DEF Fail

LEMMA RetractStep ==
    ASSUME EvidenceInv, NEW c \in DOMAIN claim, Retract(c)
    PROVE  EvidenceInv'
<1> DEFINE r == c.run
<1>s. /\ claim \in Rowed /\ Shapes /\ StoreOk(claim, evidence, finding, text)
  BY DEF EvidenceInv, Shapes
<1>1. /\ claim' = [claim EXCEPT ![c].status = "RETRACTED"]
      /\ UNCHANGED <<text, maker, evidence, finding, run, session, requeues, faults>>
  BY DEF Retract
<1>2. /\ r \in Runs /\ claim[c] \in Row
  BY <1>s, RowedFacts DEF Claims
<1>3. /\ DOMAIN claim' = DOMAIN claim
      /\ \A k \in DOMAIN claim :
           /\ claim'[k] \in Row
           /\ claim'[k].quote = claim[k].quote
           /\ claim'[k].status = "DISPUTED" => claim[k].status = "DISPUTED"
  BY <1>1, <1>2, <1>s, RowedFacts DEF Row, ClaimStatuses
<1>4. claim' \in Rowed
  <2>1. DOMAIN claim \in SUBSET Claims
    BY <1>s, RowedFacts
  <2>2. claim' \in [DOMAIN claim -> Row]
    BY <1>1, <1>3
  <2>3. QED
    BY <2>1, <2>2 DEF Rowed
<1>5. \A q \in Runs : Spared(q, claim, claim', evidence, evidence', text, text')
  BY <1>1, <1>3 DEF Spared
<1>6. StoreOk(claim', evidence', finding', text')
  BY <1>1, <1>3, <1>s DEF StoreOk
<1> HIDE DEF r
<1>7. /\ SessionOk(r, session[r], claim', evidence', text')
      /\ Flagged(r, session[r], claim) => Flagged(r, session[r], claim')
  BY <1>2, <1>4, <1>5, <1>s, AtRun, SparedSession
<1>8. /\ run' = [run EXCEPT ![r] = run[r]] /\ session' = [session EXCEPT ![r] = session[r]]
      /\ run[r] \in Run /\ session[r] \in Session
      /\ run[r].pc = "idle" => session[r] = Closed
      /\ run[r].pc # "idle" => run[r].status = "running" /\ run[r].executed
      /\ run[r].pc \in Judging => Flagged(r, session[r], claim')
  BY <1>1, <1>2, <1>7, AtRun
<1>9. run[r].status = "COMPLETED" /\ r \in Deep
        => \A k \in DOMAIN claim' : k.run = r => claim'[k].status # "DISPUTED"
  BY <1>2, <1>3, AtRun
<1>10. /\ text' \in [Docs -> Texts] /\ maker' \in [Docs -> Runs \cup {None}]
       /\ finding' \subseteq Finding /\ evidence' \subseteq EvidenceRow
       /\ requeues' \in 0 .. MaxRequeues /\ faults' \in 0 .. MaxFaults
  BY <1>s, <1>1 DEF Shapes
<1>11. /\ \A d \in Docs : maker'[d] = maker[d] \/ (maker'[d] = r /\ run[r].executed)
       /\ \A k \in DOMAIN claim' : k \in DOMAIN claim \/ (k.run = r /\ run[r].executed)
  BY <1>1, <1>3
<1>12. QED
  BY <1>2, <1>4, <1>5, <1>6, <1>7, <1>8, <1>9, <1>10, <1>11, Stepping

\* Only runs that were never executed are deleted, so nothing but a text is lost.
LEMMA PurgeKeeps ==
    ASSUME EvidenceInv, Purge
    PROVE  /\ \A r \in Expired : ~run[r].executed /\ run[r].status \in {"COMPLETED", "ended"}
           /\ \A c \in DOMAIN claim : c.run \in Runs /\ c.run \notin Expired
           /\ finding' \subseteq finding
           /\ claim' = claim /\ evidence' = evidence /\ maker' = maker
           /\ text' = [d \in Docs |-> IF maker[d] \in Aged THEN "purged" ELSE text[d]]
           /\ run' = [r \in Runs |->
                        IF r \in Expired THEN [run[r] EXCEPT !.status = "gone", !.file = 0]
                        ELSE run[r]]
           /\ UNCHANGED <<session, requeues, faults>>
<1> DEFINE gone == Expired
           made == {d \in Docs : maker[d] \in gone}
<1>s. /\ text \in [Docs -> Texts] /\ maker \in [Docs -> Runs \cup {None}]
      /\ claim \in Rowed /\ evidence \in SUBSET EvidenceRow
      /\ finding \subseteq Finding /\ run \in [Runs -> Run] /\ session \in [Runs -> Session]
      /\ StoreOk(claim, evidence, finding, text)
      /\ ExecutedInv /\ SessionsInv /\ RunsInv
  BY DEF EvidenceInv, Shapes
<1>1. /\ gone \subseteq Runs
      /\ \A r \in gone : ~run[r].executed /\ run[r].status \in {"COMPLETED", "ended"}
  BY DEF Purge, Refused, Expired, Terminal
<1>2. made = {} /\ \A c \in DOMAIN claim : c.run \in Runs /\ c.run \notin gone
  <2>1. \A c \in DOMAIN claim : c.run \in Runs
    BY <1>s, RowedFacts DEF Claims
  <2>2. QED
    BY <1>s, <1>1, <2>1, EvidenceAssumption DEF ExecutedInv
<1>3. /\ finding' \subseteq finding
      /\ claim' = claim /\ evidence' = evidence /\ maker' = maker
      /\ text' = [d \in Docs |-> IF maker[d] \in Aged THEN "purged" ELSE text[d]]
      /\ run' = [r \in Runs |->
                   IF r \in gone THEN [run[r] EXCEPT !.status = "gone", !.file = 0] ELSE run[r]]
      /\ UNCHANGED <<session, requeues, faults>>
  <2>1. \A e \in evidence : e.on \in DOMAIN claim
    BY <1>s DEF StoreOk
  <2>2. claim' = [c \in DOMAIN claim |-> claim[c]]
    BY <1>2 DEF Purge
  <2>3. claim = [c \in DOMAIN claim |-> claim[c]]
    BY <1>s DEF Rowed
  <2>4. evidence' = evidence
    BY <1>2, <2>1 DEF Purge
  <2>5. \A d \in Docs : maker[d] \notin gone
    BY <1>2
  <2>6. text' = [d \in Docs |-> IF maker[d] \in Aged THEN "purged" ELSE text[d]]
    BY <2>5 DEF Purge
  <2>7. maker' = maker
    BY <1>s, <2>5 DEF Purge
  <2>8. QED
    BY <2>2, <2>3, <2>4, <2>6, <2>7 DEF Purge
<1>4. QED
  BY <1>1, <1>2, <1>3

\* Nothing that is stored refers to a run the purge deletes.
LEMMA PurgeStep ==
    ASSUME EvidenceInv, Purge
    PROVE  EvidenceInv'
<1> DEFINE gone == Expired
<1>s. /\ text \in [Docs -> Texts] /\ maker \in [Docs -> Runs \cup {None}]
      /\ claim \in Rowed /\ evidence \in SUBSET EvidenceRow
      /\ finding \subseteq Finding /\ run \in [Runs -> Run] /\ session \in [Runs -> Session]
      /\ StoreOk(claim, evidence, finding, text)
      /\ ExecutedInv /\ SessionsInv /\ RunsInv
  BY DEF EvidenceInv, Shapes
<1>1. \A r \in gone : ~run[r].executed /\ run[r].status \in {"COMPLETED", "ended"}
  BY PurgeKeeps
<1>2. \A c \in DOMAIN claim : c.run \in Runs /\ c.run \notin gone
  BY PurgeKeeps
<1>3. /\ finding' \subseteq finding
      /\ claim' = claim /\ evidence' = evidence /\ maker' = maker
      /\ text' = [d \in Docs |-> IF maker[d] \in Aged THEN "purged" ELSE text[d]]
      /\ run' = [r \in Runs |->
                   IF r \in gone THEN [run[r] EXCEPT !.status = "gone", !.file = 0] ELSE run[r]]
      /\ UNCHANGED <<session, requeues, faults>>
  BY PurgeKeeps
<1> HIDE DEF gone
<1>4. text' \in [Docs -> Texts]
      /\ \A q \in Runs : Spared(q, claim, claim', evidence, evidence', text, text')
  BY <1>s, <1>3 DEF Spared, Texts
<1>5. StoreOk(claim, evidence, finding, text)'
  <2>1. \A q \in Runs : Spared(q, claim, claim, evidence, evidence, text, text')
    BY <1>3, <1>4
  <2>2. Runs # {} => StoreOk(claim, evidence, finding, text')
    BY <1>s, <2>1, TextsMove
  <2>3. Runs = {} => DOMAIN claim = {} /\ evidence = {}
    BY <1>2, <1>s DEF StoreOk
  <2>4. QED
    BY <1>3, <1>s, <2>2, <2>3 DEF StoreOk, Numbered
<1>6. /\ run' \in [Runs -> Run]
      /\ \A r \in Runs : /\ run'[r].pc = run[r].pc /\ run'[r].executed = run[r].executed
                         /\ run'[r].status = run[r].status
                              \/ (r \in gone /\ run'[r].status = "gone")
  <2>1. \A r \in Runs : [run[r] EXCEPT !.status = "gone", !.file = 0] \in Run
    BY <1>s DEF Run
  <2>2. QED
    BY <1>s, <1>3, <2>1 DEF Run
<1>7. Shapes'
  <2>1. Shapes
    BY DEF EvidenceInv
  <2>2. QED
    BY <2>1, <1>3, <1>4, <1>6 DEF Shapes
<1>8. \A r \in Runs : /\ SessionOk(r, session[r], claim', evidence', text')
                      /\ Flagged(r, session[r], claim) => Flagged(r, session[r], claim')
  BY <1>s, <1>3, <1>4, SparedSession DEF SessionsInv
<1>9. SessionsInv'
  BY <1>3, <1>8 DEF SessionsInv
<1>10. RunsInv'
  BY <1>s, <1>1, <1>3, <1>6, <1>8 DEF RunsInv
<1>11. ExecutedInv'
  <2>1. \A d \in Docs : maker[d] # None => maker[d] \in Runs /\ run[maker[d]].executed
    BY <1>s DEF ExecutedInv
  <2>2. \A d \in Docs : maker'[d] # None => run'[maker'[d]].executed
    BY <1>3, <1>6, <2>1
  <2>3. \A c \in DOMAIN claim' : run'[c.run].executed
    BY <1>s, <1>2, <1>3, <1>6 DEF ExecutedInv
  <2>4. QED
    BY <2>2, <2>3 DEF ExecutedInv
<1>12. DisputedDeepRunIsReviewed'
  <2>1. ASSUME NEW r \in Deep, run'[r].status = "COMPLETED" PROVE run[r].status = "COMPLETED"
    <3>1. r \in Runs
      BY EvidenceAssumption
    <3>2. run'[r].status = run[r].status \/ run'[r].status = "gone"
      BY <1>6, <3>1
    <3>3. QED
      BY <2>1, <3>2
  <2>2. DisputedDeepRunIsReviewed
    BY DEF EvidenceInv
  <2>3. QED
    BY <1>3, <2>1, <2>2 DEF DisputedDeepRunIsReviewed
<1>13. QED
  BY <1>5, <1>7, <1>9, <1>10, <1>11, <1>12 DEF EvidenceInv

-----------------------------------------------------------------------------
(* Evidence and disputes in a session *)

\* Evidence E on claims of the run, with both sides of each conflict.
Fits(r, s, cl, ev, tx, E) ==
    \A e \in E : /\ e.on.run = r /\ e.on \in DOMAIN Sees(cl, s) /\ tx[e.from] # "absent"
                 /\ Balanced(e, ev \cup s.evidence \cup E, tx)

\* The session s with the evidence E.
Adding(s, E) == [s EXCEPT !.evidence = @ \cup E]

LEMMA MoreEvidence ==
    ASSUME NEW r \in Runs, NEW s \in Session, NEW cl \in Rowed, NEW ev, NEW tx,
           SessionOk(r, s, cl, ev, tx),
           NEW E \in SUBSET EvidenceRow, Fits(r, s, cl, ev, tx, E)
    PROVE  LET t == Adding(s, E)
           IN  /\ t \in Session
               /\ t.view = s.view /\ t.rows = s.rows /\ t.list = s.list /\ t.copy = s.copy
               /\ t.evidence = s.evidence \cup E
               /\ SessionOk(r, t, cl, ev, tx)
               /\ Flagged(r, s, cl) => Flagged(r, t, cl)
<1> DEFINE t == Adding(s, E)
<1>1. /\ t \in Session
      /\ t.view = s.view /\ t.rows = s.rows /\ t.list = s.list /\ t.copy = s.copy
      /\ t.evidence = s.evidence \cup E
      /\ t.finding = s.finding /\ t.ingested = s.ingested
  BY DEF Adding, Session
<1> HIDE DEF t
<1>2. Sees(cl, t) = Sees(cl, s)
  BY <1>1 DEF Sees
<1>3. RowsOf(r, t, cl, ev, tx)
  BY <1>1 DEF SessionOk, RowsOf, Explains
<1>4. EvidenceOf(r, t, cl, ev, tx)
  <2>1. ASSUME NEW e \in t.evidence
        PROVE  /\ e.on.run = r /\ e.on \in DOMAIN Sees(cl, t) /\ tx[e.from] # "absent"
               /\ Balanced(e, ev \cup t.evidence, tx)
    <3>1. CASE e \in E
      <4>1. ev \cup t.evidence = ev \cup s.evidence \cup E
        BY <1>1
      <4>2. QED
        BY <3>1, <1>2, <4>1 DEF Fits
    <3>2. CASE e \in s.evidence
      BY <3>2, <1>1, <1>2 DEF SessionOk, EvidenceOf, Balanced
    <3>3. QED
      BY <1>1, <3>1, <3>2
  <2>2. QED
    BY <2>1 DEF EvidenceOf
<1>5. SessionOk(r, t, cl, ev, tx)
  BY <1>1, <1>2, <1>3, <1>4 DEF SessionOk, ViewOf, CopyOf
<1>6. Flagged(r, s, cl) => Flagged(r, t, cl)
  BY <1>1, <1>2 DEF Flagged
<1>7. QED
  BY <1>1, <1>5, <1>6 DEF t

\* The claims H of the run are known to the session as v, and the evidence explains why
\* they are disputed.
Disputable(r, s, cl, ev, v, H) ==
    /\ DOMAIN v = DOMAIN s.view \cup H
    /\ \A k \in DOMAIN s.view : v[k] = s.view[k]
    /\ \A k \in H : /\ k.run = r /\ k \in DOMAIN Sees(cl, s)
                    /\ k \notin DOMAIN s.view => v[k] = Sees(cl, s)[k]
                    /\ Explains(ev \cup s.evidence, r, k, Sees(cl, s)[k].quote)
    /\ H # {} => H \cap s.list # {}

\* The session s once the claims H, known to it as v, are DISPUTED: only a row that
\* was not is written.
Disputed(s, v, H) ==
    [s EXCEPT !.view = Over(v, Dispute(v, H)),
              !.rows = Over(@, Dispute(v, {k \in H : v[k].status # "DISPUTED"}))]

LEMMA Disputing ==
    ASSUME NEW r \in Runs, NEW s \in Session, NEW cl \in Rowed, NEW ev, NEW tx,
           SessionOk(r, s, cl, ev, tx), \A c \in DOMAIN cl : tx[c.doc] # "absent",
           NEW v \in Rowed, NEW H, Disputable(r, s, cl, ev, v, H)
    PROVE  LET t == Disputed(s, v, H)
           IN  /\ t \in Session
               /\ t.evidence = s.evidence
               /\ DOMAIN Sees(cl, t) = DOMAIN Sees(cl, s)
               /\ SessionOk(r, t, cl, ev, tx)
               /\ Flagged(r, s, cl) => Flagged(r, t, cl)
<1> DEFINE dirty == {k \in H : v[k].status # "DISPUTED"}
           t == Disputed(s, v, H)
           D == Dispute(v, H)
           W == Dispute(v, dirty)
<1>s. s.rows \in Rowed /\ s.view \in Rowed
  BY DEF Session
<1>0. /\ H \subseteq DOMAIN Sees(cl, s) /\ DOMAIN v = DOMAIN s.view \cup H
      /\ \A k \in DOMAIN s.view : v[k] = s.view[k]
      /\ \A k \in H : k \notin DOMAIN s.view => v[k] = Sees(cl, s)[k]
      /\ \A k \in H : k.run = r /\ Explains(ev \cup s.evidence, r, k, Sees(cl, s)[k].quote)
      /\ H # {} => H \cap s.list # {}
  <2>1. \A k \in H : /\ k.run = r /\ k \in DOMAIN Sees(cl, s)
                     /\ k \notin DOMAIN s.view => v[k] = Sees(cl, s)[k]
                     /\ Explains(ev \cup s.evidence, r, k, Sees(cl, s)[k].quote)
    BY DEF Disputable
  <2>2. DOMAIN v = DOMAIN s.view \cup H /\ \A k \in DOMAIN s.view : v[k] = s.view[k]
    BY DEF Disputable
  <2>3. H # {} => H \cap s.list # {}
    BY DEF Disputable
  <2>4. QED
    BY <2>1, <2>2, <2>3
<1>1. H \in SUBSET DOMAIN v /\ dirty \in SUBSET DOMAIN v /\ dirty \subseteq H
      /\ \A k \in H : k \in dirty \/ v[k].status = "DISPUTED"
  BY <1>0
<1>2. t.view = Over(v, D) /\ t.rows = Over(s.rows, W)
      /\ t.evidence = s.evidence /\ t.list = s.list /\ t.copy = s.copy
      /\ t.finding = s.finding /\ t.ingested = s.ingested
  BY DEF Disputed, Session
<1> HIDE DEF dirty
<1>3. /\ D \in Rowed /\ DOMAIN D = H
      /\ \A k \in H : D[k].quote = v[k].quote /\ D[k].status = "DISPUTED"
      /\ W \in Rowed /\ DOMAIN W = dirty
      /\ \A k \in dirty : W[k].quote = v[k].quote /\ W[k].status = "DISPUTED"
  BY <1>1, DisputeFacts
<1>4. t \in Session
  <2>1. Over(v, D) \in Rowed /\ Over(s.rows, W) \in Rowed
    BY <1>s, <1>3, OverFacts
  <2>2. QED
    BY <2>1 DEF Disputed, Session, dirty
<1> HIDE DEF t, D, W
<1>5. /\ DOMAIN t.view = DOMAIN s.view \cup H
      /\ \A k \in DOMAIN s.view \cup H : t.view[k] = IF k \in H THEN D[k] ELSE s.view[k]
  <2>1. /\ DOMAIN Over(v, D) = DOMAIN v \cup DOMAIN D
        /\ \A k \in DOMAIN v \cup DOMAIN D :
             Over(v, D)[k] = IF k \in DOMAIN D THEN D[k] ELSE v[k]
    BY <1>3, OverFacts
  <2>2. QED
    BY <1>0, <1>2, <1>3, <2>1
<1>6. /\ DOMAIN t.rows = DOMAIN s.rows \cup dirty
      /\ \A k \in DOMAIN s.rows \cup dirty :
           t.rows[k] = IF k \in dirty THEN W[k] ELSE s.rows[k]
  <2>1. /\ DOMAIN Over(s.rows, W) = DOMAIN s.rows \cup DOMAIN W
        /\ \A k \in DOMAIN s.rows \cup DOMAIN W :
             Over(s.rows, W)[k] = IF k \in DOMAIN W THEN W[k] ELSE s.rows[k]
    <3>1. s.rows \in Rowed /\ W \in Rowed
      BY <1>s, <1>3
    <3>2. QED
      BY <3>1, OverFacts
  <2>2. QED
    BY <1>2, <1>3, <2>1
<1>7. /\ DOMAIN Sees(cl, s) = DOMAIN cl \cup DOMAIN s.rows
      /\ \A c \in DOMAIN cl \cup DOMAIN s.rows :
           Sees(cl, s)[c] = IF c \in DOMAIN s.rows THEN s.rows[c] ELSE cl[c]
  BY <1>s, SeesFacts
<1>8. /\ DOMAIN Sees(cl, t) = DOMAIN cl \cup DOMAIN t.rows
      /\ \A c \in DOMAIN cl \cup DOMAIN t.rows :
           Sees(cl, t)[c] = IF c \in DOMAIN t.rows THEN t.rows[c] ELSE cl[c]
  <2>1. t.rows \in Rowed
    BY <1>4 DEF Session
  <2>2. QED
    BY <2>1, SeesFacts
<1>9. /\ DOMAIN Sees(cl, t) = DOMAIN Sees(cl, s)
      /\ \A c \in DOMAIN Sees(cl, s) :
           Sees(cl, t)[c] = IF c \in dirty THEN W[c] ELSE Sees(cl, s)[c]
  <2>1. dirty \subseteq DOMAIN Sees(cl, s)
    BY <1>0, <1>1
  <2>2. DOMAIN Sees(cl, t) = DOMAIN Sees(cl, s)
    BY <1>6, <1>7, <1>8, <2>1
  <2>3. QED
    BY <1>6, <1>7, <1>8, <2>2
<1>10. \A k \in H : v[k].quote = Sees(cl, s)[k].quote
  BY <1>0 DEF SessionOk, ViewOf
<1>11. RowsOf(r, t, cl, ev, tx)
  <2>1. ASSUME NEW c \in DOMAIN t.rows
        PROVE  /\ c.run = r /\ tx[c.doc] # "absent"
               /\ c \in DOMAIN cl => t.rows[c].status = "DISPUTED" /\ t.rows[c].quote = cl[c].quote
               /\ t.rows[c].status = "DISPUTED"
                    => Explains(ev \cup t.evidence, r, c, t.rows[c].quote)
    <3>1. CASE c \in dirty
      <4>1. t.rows[c].status = "DISPUTED" /\ t.rows[c].quote = Sees(cl, s)[c].quote
        BY <3>1, <1>1, <1>3, <1>6, <1>10
      <4>2. c \in H /\ c \in DOMAIN cl \cup DOMAIN s.rows
        BY <3>1, <1>0, <1>1, <1>7
      <4>3. tx[c.doc] # "absent"
        BY <4>2 DEF SessionOk, RowsOf
      <4>4. c \in DOMAIN cl => Sees(cl, s)[c].quote = cl[c].quote
        BY <1>7 DEF SessionOk, RowsOf
      <4>5. QED
        BY <1>0, <1>2, <4>1, <4>2, <4>3, <4>4
    <3>2. CASE c \notin dirty
      BY <3>2, <1>2, <1>6 DEF SessionOk, RowsOf
    <3>3. QED
      BY <3>1, <3>2
  <2>2. QED
    BY <2>1 DEF RowsOf
<1>12. ViewOf(r, t, cl)
  <2>1. ASSUME NEW c \in DOMAIN t.view
        PROVE  /\ c.run = r /\ c \in DOMAIN Sees(cl, t)
               /\ t.view[c].quote = Sees(cl, t)[c].quote
               /\ Sees(cl, t)[c].status = "DISPUTED" => t.view[c].status = "DISPUTED"
    <3>1. CASE c \in H
      <4>1. t.view[c].status = "DISPUTED" /\ t.view[c].quote = v[c].quote
        BY <3>1, <1>3, <1>5
      <4>2. Sees(cl, t)[c].quote = v[c].quote
        BY <3>1, <1>0, <1>3, <1>9, <1>10
      <4>3. QED
        BY <3>1, <1>0, <1>9, <4>1, <4>2
    <3>2. CASE c \notin H
      <4>1. c \in DOMAIN s.view /\ t.view[c] = s.view[c] /\ c \notin dirty
        BY <3>2, <1>1, <1>5
      <4>2. QED
        BY <4>1, <1>9 DEF SessionOk, ViewOf
    <3>3. QED
      BY <3>1, <3>2
  <2>2. QED
    BY <2>1 DEF ViewOf
<1>13. EvidenceOf(r, t, cl, ev, tx)
  BY <1>2, <1>9 DEF SessionOk, EvidenceOf
<1>14. CopyOf(t, tx) /\ t.list \subseteq DOMAIN cl \cap DOMAIN t.view
       /\ \A f \in t.finding : f.cites \subseteq DOMAIN cl
  BY <1>2, <1>5 DEF SessionOk, CopyOf
<1>15. SessionOk(r, t, cl, ev, tx)
  BY <1>9, <1>11, <1>12, <1>13, <1>14 DEF SessionOk
<1>16. Flagged(r, s, cl) => Flagged(r, t, cl)
  <2>1. \A k \in s.list : s.view[k].status = "DISPUTED" => t.view[k].status = "DISPUTED"
    BY <1>3, <1>5 DEF SessionOk
  <2>2. CASE H # {}
    <3>1. PICK k \in H : k \in s.list
      BY <1>0, <2>2
    <3>2. t.view[k].status = "DISPUTED"
      BY <3>1, <1>3, <1>5
    <3>3. QED
      BY <1>2, <3>1, <3>2 DEF Flagged
  <2>3. CASE H = {}
    <3>1. \A c \in DOMAIN Sees(cl, s) : Sees(cl, t)[c] = Sees(cl, s)[c]
      BY <2>3, <1>1, <1>9
    <3>2. QED
      BY <1>2, <1>9, <2>1, <3>1 DEF Flagged
  <2>4. QED
    BY <2>2, <2>3
<1>17. QED
  BY <1>2, <1>4, <1>9, <1>15, <1>16 DEF t

\* A conflict is between two claims of the run that the session holds as whole.
LEMMA ConflictFacts ==
    ASSUME NEW r \in Runs, NEW s \in Session, NEW cl \in Rowed, NEW ev, NEW tx,
           SessionOk(r, s, cl, ev, tx), NEW p \in Conflicts(s)
    PROVE  \A c \in {p[1], p[2]} :
             /\ c \in s.list /\ c \in Claims /\ c.run = r /\ c \in DOMAIN cl
             /\ c \in DOMAIN s.view /\ c \in DOMAIN Sees(cl, s)
             /\ Sees(cl, s)[c].quote = "whole"
<1>1. p[1] \in s.list /\ p[2] \in s.list
      /\ s.view[p[1]].quote = "whole" /\ s.view[p[2]].quote = "whole"
  BY DEF Conflicts
<1>2. s.list \subseteq Claims
  BY DEF Session
<1>3. \A c \in s.list : /\ c \in DOMAIN cl /\ c \in DOMAIN s.view
                        /\ c \in DOMAIN Sees(cl, s) /\ c.run = r
                        /\ s.view[c].quote = Sees(cl, s)[c].quote
  BY DEF SessionOk, ViewOf
<1>4. QED
  BY <1>1, <1>2, <1>3

LEMMA OpposingFacts ==
    ASSUME NEW a \in Claims, NEW b \in Claims
    PROVE  /\ Opposing(a, b) \in EvidenceRow
           /\ Opposing(a, b).on = a /\ Opposing(a, b).from = b.doc
           /\ Opposing(a, b).quote = "whole" /\ Opposing(a, b).supports = FALSE
           /\ Opposing(a, b).by = "contradiction-engine"
BY DEF Opposing, EvidenceRow, Claims

\* A row that is known says of its claim what the new one would.
LEMMA KnownFacts ==
    ASSUME NEW s \in Session, evidence \in SUBSET EvidenceRow,
           NEW a \in Claims, NEW b \in Claims, Known(s, Opposing(a, b))
    PROVE  \E k \in evidence \cup s.evidence :
             k.on = a /\ k.from = b.doc /\ ~k.supports
<1>1. PICK k \in evidence \cup s.evidence :
        [k EXCEPT !.by = Opposing(a, b).by] = Opposing(a, b)
  BY DEF Known
<1>2. k \in EvidenceRow
  BY DEF Session
<1>3. k.on = a /\ k.from = b.doc /\ k.supports = FALSE
  <2>1. /\ [k EXCEPT !.by = Opposing(a, b).by].on = k.on
        /\ [k EXCEPT !.by = Opposing(a, b).by].from = k.from
        /\ [k EXCEPT !.by = Opposing(a, b).by].supports = k.supports
    BY <1>2 DEF EvidenceRow
  <2>2. /\ Opposing(a, b).on = a /\ Opposing(a, b).from = b.doc
        /\ Opposing(a, b).supports = FALSE
    BY OpposingFacts
  <2>3. k.on = Opposing(a, b).on /\ k.from = Opposing(a, b).from
        /\ k.supports = Opposing(a, b).supports
    BY <1>1, <2>1
  <2>4. QED
    BY <2>2, <2>3
<1>4. QED
  BY <1>3

LEMMA Recording ==
    ASSUME NEW r \in Runs, NEW s \in Session, claim \in Rowed, evidence \in SUBSET EvidenceRow,
           NEW fi, NEW tx, StoreOk(claim, evidence, fi, tx),
           SessionOk(r, s, claim, evidence, tx), NEW P \in SUBSET Conflicts(s)
    PROVE  LET t == Recorded(s, P)
           IN  /\ t \in Session
               /\ DOMAIN Sees(claim, t) = DOMAIN Sees(claim, s)
               /\ SessionOk(r, t, claim, evidence, tx)
               /\ Flagged(r, s, claim) => Flagged(r, t, claim)
<1> DEFINE E == UNION {Sides(s, p) : p \in P}
           H == UNION {{p[1], p[2]} : p \in P}
           u == Adding(s, E)
           t == Recorded(s, P)
           all == evidence \cup s.evidence \cup E
<1>1. \A p \in P : \A c \in {p[1], p[2]} :
        /\ c \in s.list /\ c \in Claims /\ c.run = r /\ c \in DOMAIN claim
        /\ c \in DOMAIN s.view /\ c \in DOMAIN Sees(claim, s)
        /\ Sees(claim, s)[c].quote = "whole"
  BY ConflictFacts
<1>2. ASSUME NEW p \in P, NEW a, NEW b, <<a, b>> \in {<<p[1], p[2]>>, <<p[2], p[1]>>}
      PROVE  \E k \in all : k.on = a /\ k.from = b.doc /\ ~k.supports
  <2>1. a \in {p[1], p[2]} /\ b \in {p[1], p[2]} /\ a \in Claims /\ b \in Claims
    BY <1>1, <1>2
  <2>2. CASE Known(s, Opposing(a, b))
    BY <2>1, <2>2, KnownFacts
  <2>3. CASE ~Known(s, Opposing(a, b))
    <3>1. Opposing(a, b) \in Sides(s, p)
      BY <1>2, <2>3 DEF Sides
    <3>2. Opposing(a, b) \in all
      BY <3>1
    <3>3. /\ Opposing(a, b).on = a /\ Opposing(a, b).from = b.doc
          /\ ~Opposing(a, b).supports
      BY <2>1, OpposingFacts
    <3>4. QED
      BY <3>2, <3>3
  <2>4. QED
    BY <2>2, <2>3
<1>3. ASSUME NEW e \in E
      PROVE  /\ e \in EvidenceRow /\ e.on.run = r /\ e.on \in DOMAIN Sees(claim, s)
             /\ tx[e.from] # "absent" /\ Balanced(e, all, tx)
  <2>1. PICK p \in P : e \in Sides(s, p)
    OBVIOUS
  <2>2. \E a, b \in {p[1], p[2]} :
           e = Opposing(a, b) /\ <<b, a>> \in {<<p[1], p[2]>>, <<p[2], p[1]>>}
    BY <2>1 DEF Sides
  <2>3. PICK a \in {p[1], p[2]}, b \in {p[1], p[2]} :
           e = Opposing(a, b) /\ <<b, a>> \in {<<p[1], p[2]>>, <<p[2], p[1]>>}
    BY <2>2
  <2>4. a \in Claims /\ b \in Claims /\ a.run = r /\ b.run = r
        /\ b \in DOMAIN claim /\ a \in DOMAIN Sees(claim, s)
    BY <1>1
  <2>5. /\ e \in EvidenceRow /\ e.on = a /\ e.from = b.doc
    BY <2>3, <2>4, OpposingFacts
  <2>6. tx[b.doc] # "absent"
    BY <2>4 DEF StoreOk
  <2>7. \E k \in all : k.on = b /\ k.from = a.doc /\ ~k.supports
    BY <1>2, <2>3
  <2>8. Balanced(e, all, tx)
    BY <2>4, <2>5, <2>7 DEF Balanced
  <2>9. QED
    BY <2>4, <2>5, <2>6, <2>8
<1>4. ASSUME NEW c \in H
      PROVE  /\ c \in s.list /\ c \in DOMAIN s.view /\ c \in DOMAIN Sees(claim, s) /\ c.run = r
             /\ Explains(all, r, c, Sees(claim, s)[c].quote)
  <2>1. PICK p \in P : c \in {p[1], p[2]}
    OBVIOUS
  <2>2. \E b : <<c, b>> \in {<<p[1], p[2]>>, <<p[2], p[1]>>}
    BY <2>1
  <2>3. \E k \in all : k.on = c /\ ~k.supports
    BY <2>2, <1>2
  <2>4. c \in s.list /\ c \in DOMAIN s.view /\ c \in DOMAIN Sees(claim, s) /\ c.run = r
    BY <1>1, <2>1
  <2>5. QED
    BY <2>3, <2>4 DEF Explains
<1>5. all = evidence \cup (s.evidence \cup E) /\ E \in SUBSET EvidenceRow
  BY <1>3
<1> HIDE DEF E, H
<1>6. /\ u \in Session /\ SessionOk(r, u, claim, evidence, tx)
      /\ u.view = s.view /\ u.rows = s.rows /\ u.list = s.list
      /\ u.evidence = s.evidence \cup E
      /\ Flagged(r, s, claim) => Flagged(r, u, claim)
  <2>1. Fits(r, s, claim, evidence, tx, E)
    BY <1>3 DEF Fits
  <2>2. QED
    BY <1>5, <2>1, MoreEvidence
<1>7. t = Disputed(u, s.view, H)
  BY DEF Recorded, Disputed, Adding, Session, E, H
<1> HIDE DEF u, t
<1>8. Sees(claim, u) = Sees(claim, s) /\ s.view \in Rowed
  BY <1>6 DEF Sees, Session
<1>9. \A c \in DOMAIN claim : tx[c.doc] # "absent"
  BY DEF StoreOk
<1>10. Disputable(r, u, claim, evidence, s.view, H)
  BY <1>4, <1>5, <1>6, <1>8 DEF Disputable
<1>11. /\ t \in Session /\ DOMAIN Sees(claim, t) = DOMAIN Sees(claim, u)
       /\ SessionOk(r, t, claim, evidence, tx)
       /\ Flagged(r, u, claim) => Flagged(r, t, claim)
  <2>1. LET d == Disputed(u, s.view, H)
        IN  /\ d \in Session /\ DOMAIN Sees(claim, d) = DOMAIN Sees(claim, u)
            /\ SessionOk(r, d, claim, evidence, tx)
            /\ Flagged(r, u, claim) => Flagged(r, d, claim)
    <3>1. u \in Session /\ SessionOk(r, u, claim, evidence, tx)
      BY <1>6
    <3>2. s.view \in Rowed
      BY <1>8
    <3>3. QED
      BY <1>9, <1>10, <3>1, <3>2, Disputing
  <2>2. QED
    BY <1>7, <2>1
<1>12. QED
  BY <1>6, <1>8, <1>11 DEF t

\* The documents of the claims are in the store, so loading them stores nothing.
LEMMA AtConflictsFacts ==
    ASSUME EvidenceInv, NEW r \in Runs
    PROVE  LET s == AtConflicts(r)
           IN  /\ s \in Session /\ SessionOk(r, s, claim, evidence, text)
               /\ s.list = session[r].list
               /\ \A c \in s.list : s.copy[c.doc] # "absent"
               /\ Flagged(r, session[r], claim) => Flagged(r, s, claim)
<1> DEFINE o == session[r]
           ds == {c.doc : c \in o.list}
           s == AtConflicts(r)
<1>s. /\ o \in Session /\ SessionOk(r, o, claim, evidence, text)
      /\ text \in [Docs -> Texts] /\ claim \in Rowed /\ StoreOk(claim, evidence, finding, text)
  BY AtRun DEF Shapes
<1> HIDE DEF o
<1>1. ds \in SUBSET Docs /\ \A d \in ds : text[d] # "absent"
  <2>1. \A c \in o.list : c \in Claims /\ c \in DOMAIN claim
    BY <1>s DEF SessionOk, Session
  <2>2. \A c \in o.list : c.doc \in Docs /\ text[c.doc] # "absent"
    BY <1>s, <2>1 DEF StoreOk, Claims
  <2>3. QED
    BY <2>2
<1>2. s = Loaded(o, ds)
  BY DEF AtConflicts, o
<1>d. \A c \in o.list : c.doc \in ds
  OBVIOUS
<1> HIDE DEF ds, s
<1>3. Stored(ds) = text
  BY <1>s, <1>1 DEF Stored
<1>4. /\ s \in Session /\ s.list = o.list /\ \A d \in ds : s.copy[d] # "absent"
      /\ SessionOk(r, s, claim, evidence, Stored(ds))
      /\ Flagged(r, o, claim) => Flagged(r, s, claim)
  BY <1>s, <1>1, <1>2, Loading
<1>5. QED
  BY <1>3, <1>4, <1>d DEF s, o

LEMMA RecordConflictsStep ==
    ASSUME EvidenceInv, NEW r \in Runs, RecordConflicts(r)
    PROVE  EvidenceInv'
<1> DEFINE s == AtConflicts(r)
           u == Recorded(s, Conflicts(s))
           x == [run[r] EXCEPT !.pc = "critic"]
<1>s. /\ s \in Session /\ SessionOk(r, s, claim, evidence, text) /\ Flagged(r, s, claim)
  BY AtRun, AtConflictsFacts DEF RecordConflicts, Judging
<1>1. /\ run' = [run EXCEPT ![r] = x] /\ session' = [session EXCEPT ![r] = Committed(u)]
      /\ claim' = Sees(claim, u) /\ evidence' = evidence \cup u.evidence
      /\ finding' = finding \cup u.finding
      /\ UNCHANGED <<text, maker>> /\ requeues' = requeues /\ faults' = faults
  BY DEF RecordConflicts, Commit, GoTo, Step, Use, Sees
<1>2. x \in Run /\ x.pc = "critic" /\ x.status = "running" /\ x.executed
  BY AtRun DEF RecordConflicts, Run, Stages
<1> HIDE DEF s, x
<1>3. /\ claim \in Rowed /\ evidence \in SUBSET EvidenceRow
      /\ StoreOk(claim, evidence, finding, text)
      /\ requeues \in 0 .. MaxRequeues /\ faults \in 0 .. MaxFaults
  BY AtRun DEF Shapes
<1>4. /\ u \in Session /\ SessionOk(r, u, claim, evidence, text) /\ Flagged(r, u, claim)
  BY <1>s, <1>3, Recording
<1> HIDE DEF u
<1>5. Committed(u) \in Session
  BY <1>4, CommittedFacts
<1>6. QED
  BY <1>1, <1>2, <1>3, <1>4, <1>5, Saving

\* A first side is left alone on record only when the text of its claim is purged.
LEMMA RefuseEvidenceStep ==
    ASSUME EvidenceInv, NEW r \in Runs,
           NEW P \in SUBSET Conflicts(AtConflicts(r)), NEW p \in Conflicts(AtConflicts(r)),
           RefuseEvidence(r, P, p)
    PROVE  EvidenceInv'
<1> DEFINE s == AtConflicts(r)
           done == Recorded(s, P)
           E == {e \in Sides(done, p) \cap {Opposing(p[1], p[2])} : Sound(s, e)}
           t == Adding(done, E)
           x == [run[r] EXCEPT !.pc = "failed"]
<1>s. /\ s \in Session /\ SessionOk(r, s, claim, evidence, text)
      /\ \A c \in s.list : s.copy[c.doc] # "absent"
  BY AtConflictsFacts
<1>1. /\ run' = [run EXCEPT ![r] = x] /\ session' = [session EXCEPT ![r] = t]
      /\ UNCHANGED <<text, maker, claim, evidence, finding, requeues, faults>>
      /\ \E e \in Sides(done, p) : ~Sound(s, e)
  BY DEF RefuseEvidence, Adding, GoTo, Step, Use
<1>2. x \in Run /\ x.pc = "failed" /\ x.status = "running" /\ x.executed
  BY AtRun DEF RefuseEvidence, Run, Stages
<1> HIDE DEF s, x
<1>3. /\ claim \in Rowed /\ evidence \in SUBSET EvidenceRow
      /\ StoreOk(claim, evidence, finding, text)
      /\ requeues \in 0 .. MaxRequeues /\ faults \in 0 .. MaxFaults
      /\ text \in [Docs -> Texts]
  BY AtRun DEF Shapes
<1>4. P \in SUBSET Conflicts(s) /\ p \in Conflicts(s)
  BY DEF s
<1>5. /\ done \in Session /\ SessionOk(r, done, claim, evidence, text)
      /\ DOMAIN Sees(claim, done) = DOMAIN Sees(claim, s)
  BY <1>s, <1>3, <1>4, Recording
<1> HIDE DEF done
<1>6. ASSUME NEW e \in E
      PROVE  /\ e \in EvidenceRow /\ e.on.run = r /\ e.on \in DOMAIN Sees(claim, done)
             /\ text[e.from] # "absent" /\ Balanced(e, evidence \cup done.evidence \cup E, text)
  <2>1. \A c \in {p[1], p[2]} :
          /\ c \in s.list /\ c \in Claims /\ c.run = r /\ c \in DOMAIN claim
          /\ c \in DOMAIN Sees(claim, s)
    BY <1>s, <1>3, <1>4, ConflictFacts
  <2>2. e = Opposing(p[1], p[2]) /\ Sound(s, e)
    OBVIOUS
  <2>3. e \in EvidenceRow /\ e.on = p[1] /\ e.from = p[2].doc
    <3>1. p[1] \in Claims /\ p[2] \in Claims
      BY <2>1
    <3>2. /\ Opposing(p[1], p[2]) \in EvidenceRow /\ Opposing(p[1], p[2]).on = p[1]
          /\ Opposing(p[1], p[2]).from = p[2].doc
      BY <3>1, OpposingFacts
    <3>3. QED
      BY <2>2, <3>2
  <2>4. PICK k \in Sides(done, p) : ~Sound(s, k)
    BY <1>1
  <2>5. k = Opposing(p[2], p[1])
    BY <2>2, <2>4 DEF Sides
  <2>6. k.from = p[1].doc /\ k.quote = "whole"
    BY <2>1, <2>5, OpposingFacts
  <2>7. s.copy[p[1].doc] # "whole" /\ s.copy[p[1].doc] # "absent" /\ p[1].doc \in Docs
    BY <1>s, <2>1, <2>4, <2>6 DEF Sound, Claims
  <2>8. s.copy[p[1].doc] = "purged"
    BY <1>s, <2>7 DEF Session, Texts
  <2>9. text[p[1].doc] = "purged"
    BY <1>s, <2>7, <2>8 DEF SessionOk, CopyOf
  <2>10. text[p[2].doc] # "absent"
    BY <1>3, <2>1 DEF StoreOk
  <2>11. Balanced(e, evidence \cup done.evidence \cup E, text)
    BY <2>3, <2>9 DEF Balanced
  <2>12. QED
    BY <1>5, <2>1, <2>3, <2>10, <2>11
<1>7. E \in SUBSET EvidenceRow
  BY <1>6
<1> HIDE DEF E
<1>8. t \in Session /\ SessionOk(r, t, claim, evidence, text)
  <2>1. Fits(r, done, claim, evidence, text, E)
    BY <1>6 DEF Fits
  <2>2. done \in Session /\ claim \in Rowed /\ SessionOk(r, done, claim, evidence, text)
    BY <1>3, <1>5
  <2>3. QED
    BY <1>7, <2>1, <2>2, MoreEvidence
<1> HIDE DEF t
<1>9. requeues' \in 0 .. MaxRequeues /\ faults' \in 0 .. MaxFaults
  BY <1>1, <1>3
<1>10. QED
  BY <1>1, <1>2, <1>8, <1>9, Quiet DEF Judging

\* A verdict, in a session that sees every claim on the document there is.
LEMMA JudgedFacts ==
    ASSUME NEW r \in Runs, NEW g \in Session, NEW cl \in Rowed, NEW ev, NEW tx,
           SessionOk(r, g, cl, ev, tx), \A k \in DOMAIN cl : tx[k.doc] # "absent",
           Flagged(r, g, cl),
           NEW c \in g.list, NEW d \in Docs, g.copy[d] # "absent", NEW new, new.doc = d,
           \A k \in DOMAIN claim \cup DOMAIN g.rows :
             k.doc = d => k \in DOMAIN Sees(cl, g) /\ Over(claim, g.rows)[k] = Sees(cl, g)[k],
           NEW verdict
    PROVE  LET t == Judged(g, c, new, verdict)
           IN  t \in Session /\ SessionOk(r, t, cl, ev, tx) /\ Flagged(r, t, cl)
<1> DEFINE q == g.copy[d]
           T == {k \in DOMAIN claim \cup DOMAIN g.rows :
                   k.run = c.run /\ k.doc = d /\ Over(claim, g.rows)[k].quote = q}
           H == {c} \cup T
           f == [k \in T |-> Over(claim, g.rows)[k]]
           v == Over(f, g.view)
           row == [on |-> c, from |-> d, quote |-> q,
                   supports |-> verdict = "SUPPORTED", by |-> "verifier"]
           a == Adding(g, {row})
           t == Judged(g, c, new, verdict)
<1>s. g.view \in Rowed /\ g.rows \in Rowed /\ q \in {"whole", "purged"} /\ c \in Claims
  BY DEF Session, Texts
<1>c. c \in DOMAIN cl /\ c \in DOMAIN g.view /\ c \in DOMAIN Sees(cl, g) /\ c.run = r
  BY DEF SessionOk, ViewOf
<1>1. \A k \in T : /\ k.run = r /\ k.doc = d /\ k \in DOMAIN Sees(cl, g)
                   /\ f[k] = Sees(cl, g)[k] /\ Sees(cl, g)[k].quote = q
  BY <1>c
<1>2. /\ row \in EvidenceRow /\ row.on = c /\ row.from = d /\ row.quote = q
      /\ row.by = "verifier"
      /\ verdict = "CONTRADICTED" => row.supports = FALSE
  BY <1>s DEF EvidenceRow
<1>3. f \in Rowed /\ DOMAIN f = T
  <2>1. Sees(cl, g) \in Rowed
    BY <1>s, SeesFacts
  <2>2. \A k \in T : k \in Claims /\ f[k] \in Row
    BY <1>1, <2>1, RowedFacts
  <2>3. T \in SUBSET Claims /\ f \in [T -> Row]
    BY <2>2
  <2>4. QED
    BY <2>3 DEF Rowed
<1>j. /\ verdict = "CONTRADICTED" =>
           t = [g EXCEPT !.view = Over(v, Dispute(v, H)),
                         !.rows = Over(g.rows, Dispute(v, {k \in H : v[k].status # "DISPUTED"})),
                         !.evidence = @ \cup {row}]
      /\ verdict = "SUPPORTED" => t = [g EXCEPT !.evidence = @ \cup {row}]
      /\ verdict \notin {"CONTRADICTED", "SUPPORTED"} => t = g
  BY DEF Judged
<1> HIDE DEF f, T, q, row
<1>4. /\ v \in Rowed /\ DOMAIN v = DOMAIN g.view \cup T
      /\ \A k \in DOMAIN g.view \cup T : v[k] = IF k \in DOMAIN g.view THEN g.view[k] ELSE f[k]
  <2>1. /\ Over(f, g.view) \in Rowed
        /\ DOMAIN Over(f, g.view) = DOMAIN f \cup DOMAIN g.view
        /\ \A k \in DOMAIN f \cup DOMAIN g.view :
             Over(f, g.view)[k] = IF k \in DOMAIN g.view THEN g.view[k] ELSE f[k]
    BY <1>s, <1>3, OverFacts
  <2>2. QED
    BY <1>3, <2>1
<1> HIDE DEF v
<1>5. Fits(r, g, cl, ev, tx, {row})
  <2>1. tx[d] # "absent"
    BY DEF SessionOk, CopyOf
  <2>2. Balanced(row, ev \cup g.evidence \cup {row}, tx)
    BY <1>2 DEF Balanced
  <2>3. QED
    BY <1>2, <1>c, <2>1, <2>2 DEF Fits
<1>6. /\ a \in Session /\ SessionOk(r, a, cl, ev, tx) /\ Flagged(r, a, cl)
      /\ a.view = g.view /\ a.rows = g.rows /\ a.list = g.list
      /\ a.evidence = g.evidence \cup {row}
  <2> DEFINE R == {row}
  <2>1. R \in SUBSET EvidenceRow /\ Fits(r, g, cl, ev, tx, R)
    BY <1>2, <1>5
  <2> HIDE DEF R
  <2>2. LET u == Adding(g, R)
        IN  /\ u \in Session /\ SessionOk(r, u, cl, ev, tx)
            /\ u.view = g.view /\ u.rows = g.rows /\ u.list = g.list
            /\ u.evidence = g.evidence \cup R
            /\ Flagged(r, g, cl) => Flagged(r, u, cl)
    BY <2>1, MoreEvidence
  <2>3. QED
    BY <2>2 DEF R
<1>7. CASE verdict = "CONTRADICTED"
  <2>1. t = Disputed(a, v, H)
    BY <1>j, <1>7 DEF Disputed, Adding, Session
  <2> HIDE DEF a, t
  <2>2. Sees(cl, a) = Sees(cl, g)
    BY <1>6 DEF Sees
  <2>3. DOMAIN v = DOMAIN a.view \cup H /\ \A k \in DOMAIN a.view : v[k] = a.view[k]
    BY <1>4, <1>6, <1>c
  <2>4. c \in a.list /\ c \in H
    BY <1>6
  <2>5. ASSUME NEW k \in H
        PROVE  /\ k.run = r /\ k \in DOMAIN Sees(cl, a)
               /\ k \notin DOMAIN a.view => v[k] = Sees(cl, a)[k]
               /\ Explains(ev \cup a.evidence, r, k, Sees(cl, a)[k].quote)
    <3>1. k.run = r /\ k \in DOMAIN Sees(cl, a)
      BY <1>1, <1>c, <2>2
    <3>2. k \notin DOMAIN a.view => v[k] = Sees(cl, a)[k]
      BY <1>1, <1>4, <1>6, <1>c, <2>2
    <3>3. row \in ev \cup a.evidence /\ ~row.supports /\ row.on.run = r
      BY <1>2, <1>6, <1>7, <1>c
    <3>4. row.on = k \/ (row.from = k.doc /\ row.quote = Sees(cl, a)[k].quote)
      BY <1>1, <1>2, <2>2
    <3>5. QED
      BY <3>1, <3>2, <3>3, <3>4 DEF Explains
  <2>6. Disputable(r, a, cl, ev, v, H)
    BY <2>3, <2>4, <2>5 DEF Disputable
  <2>7. QED
    <3>1. LET u == Disputed(a, v, H)
          IN  /\ u \in Session /\ SessionOk(r, u, cl, ev, tx)
              /\ Flagged(r, a, cl) => Flagged(r, u, cl)
      <4>1. a \in Session /\ SessionOk(r, a, cl, ev, tx) /\ v \in Rowed
        BY <1>4, <1>6
      <4>2. QED
        BY <2>6, <4>1, Disputing
    <3>2. QED
      BY <1>6, <2>1, <3>1 DEF t
<1>8. CASE verdict = "SUPPORTED"
  BY <1>6, <1>8, <1>j DEF Adding
<1>9. CASE verdict \notin {"CONTRADICTED", "SUPPORTED"}
  BY <1>9, <1>j
<1>10. QED
  BY <1>7, <1>8, <1>9

LEMMA GrowsInList ==
    ASSUME NEW r \in Runs, NEW s \in Session, NEW cl \in Rowed, NEW ev, NEW tx,
           SessionOk(r, s, cl, ev, tx), Flagged(r, s, cl),
           NEW N \in SUBSET Claims, Following(r, s, cl, N)
    PROVE  /\ Grown(s, N) \in Session
           /\ SessionOk(r, Grown(s, N), cl, ev, tx) /\ Flagged(r, Grown(s, N), cl)
           /\ Grown(s, N).list = s.list /\ Grown(s, N).copy = s.copy
           /\ DOMAIN Grown(s, N).rows = DOMAIN s.rows \cup N
<1>1. Grown(s, N) \in Session
  BY Growing
<1>2. SessionOk(r, Grown(s, N), cl, ev, tx)
  BY Growing
<1>3. Flagged(r, Grown(s, N), cl)
  BY Growing
<1>4. Grown(s, N).list = s.list /\ Grown(s, N).copy = s.copy
  BY DEF Grown, Session
<1>5. DOMAIN Grown(s, N).rows = DOMAIN s.rows \cup N
  BY DEF Grown, Session, Over
<1>6. QED
  BY <1>1, <1>2, <1>3, <1>4, <1>5

LEMMA VerifyTargetStep ==
    ASSUME EvidenceInv, NEW r \in Runs, NEW c \in session[r].list, NEW d \in Offers[r],
           NEW verdict, VerifyTarget(r, c, d, verdict)
    PROVE  EvidenceInv'
<1> DEFINE o == session[r]
           fetched == text[d] = "absent"
           b == IF fetched THEN Committed(o) ELSE o
           s == Loaded(b, {d})
           N == NextClaim(r, s, d)
           g == Grown(s, N)
<1>s. /\ o \in Session /\ SessionOk(r, o, claim, evidence, text) /\ Flagged(r, o, claim)
      /\ claim \in Rowed /\ evidence \in SUBSET EvidenceRow
      /\ StoreOk(claim, evidence, finding, text)
      /\ text \in [Docs -> Texts] /\ maker \in [Docs -> Runs \cup {None}]
      /\ finding \subseteq Finding
      /\ requeues \in 0 .. MaxRequeues /\ faults \in 0 .. MaxFaults
      /\ run[r] \in Run /\ run = [run EXCEPT ![r] = run[r]]
      /\ run[r].pc = "verify" /\ run[r].status = "running" /\ run[r].executed
  BY AtRun DEF Shapes, VerifyTarget, Judging
<1>d. d \in Docs
  BY EvidenceAssumption
<1>g. Extracted(r, s, {d}) = g
  BY DEF Extracted, Grown
<1>1. PICK new \in NextClaim(r, o, d) : session' = [session EXCEPT ![r] = Judged(g, c, new, verdict)]
  BY <1>g DEF VerifyTarget, Use
<1>2. /\ new.doc = d /\ Fetch(r, {d}) /\ UNCHANGED <<run, requeues, faults>>
      /\ IF fetched
         THEN claim' = Sees(claim, o) /\ evidence' = evidence \cup o.evidence
              /\ finding' = finding \cup o.finding
         ELSE UNCHANGED <<claim, evidence, finding>>
  BY DEF VerifyTarget, Commit, Sees, NextClaim
<1> DEFINE t == Judged(g, c, new, verdict)
<1>b. /\ fetched => b = Committed(o)
      /\ ~fetched => b = o
  OBVIOUS
<1> HIDE DEF o, b, t
<1>3. /\ claim' \in Rowed /\ StoreOk(claim', evidence', finding', text)
      /\ b \in Session /\ SessionOk(r, b, claim', evidence', text) /\ Flagged(r, b, claim')
      /\ b.list = o.list
      /\ \A q \in Runs \ {r} : Spared(q, claim, claim', evidence, evidence', text, text)
      /\ \A k \in DOMAIN claim' : k \in DOMAIN claim \/ k.run = r
      /\ evidence' \in SUBSET EvidenceRow /\ finding' \subseteq Finding
  <2>1. CASE fetched
    <3>1. LET cl2 == Sees(claim, o)
              ev2 == evidence \cup o.evidence
          IN  /\ cl2 \in Rowed
              /\ StoreOk(cl2, ev2, finding \cup o.finding, text)
              /\ SessionOk(r, Committed(o), cl2, ev2, text)
              /\ Flagged(r, o, claim) => Flagged(r, Committed(o), cl2)
              /\ \A q \in Runs \ {r} : Spared(q, claim, cl2, evidence, ev2, text, text)
              /\ \A k \in DOMAIN cl2 : k \in DOMAIN claim \/ k.run = r
      BY <1>s, Committing
    <3>2. Committed(o) \in Session /\ Committed(o).list = o.list
      BY <1>s, CommittedFacts
    <3>3. evidence \cup o.evidence \in SUBSET EvidenceRow /\ finding \cup o.finding \subseteq Finding
      BY <1>s DEF Session
    <3>4. /\ claim' = Sees(claim, o) /\ evidence' = evidence \cup o.evidence
          /\ finding' = finding \cup o.finding /\ b = Committed(o)
      BY <1>2, <1>b, <2>1
    <3>5. QED
      BY <1>s, <3>1, <3>2, <3>3, <3>4
  <2>2. CASE ~fetched
    BY <1>s, <1>2, <1>b, <2>2 DEF Spared
  <2>3. QED
    BY <2>1, <2>2
<1>4. /\ text' = Stored({d}) /\ text' \in [Docs -> Texts]
      /\ maker' \in [Docs -> Runs \cup {None}]
      /\ \A e \in Docs : maker'[e] = maker[e] \/ maker'[e] = r
      /\ \A q \in Runs : Spared(q, claim, claim, evidence, evidence, text, text')
  BY <1>d, <1>2, Fetching
<1>5. /\ \A q \in Runs : Spared(q, claim', claim', evidence', evidence', text, text')
      /\ \A q \in Runs \ {r} : Spared(q, claim, claim', evidence, evidence', text, text')
  <2>1. \A e \in Docs : /\ text[e] # "absent" => text'[e] # "absent"
                        /\ text[e] = "purged" => text'[e] = "purged"
    BY <1>4 DEF Spared
  <2>2. QED
    BY <1>3, <2>1 DEF Spared
<1>6. StoreOk(claim', evidence', finding', text')
  BY <1>3, <1>5, TextsMove
<1>7. /\ s \in Session /\ s.rows = b.rows /\ s.list = b.list /\ s.copy[d] # "absent"
      /\ SessionOk(r, s, claim', evidence', text') /\ Flagged(r, s, claim')
  <2>1. {d} \in SUBSET Docs /\ d \in {d}
    BY <1>d
  <2>2. LET l == Loaded(b, {d})
        IN  /\ l \in Session /\ l.rows = b.rows /\ l.list = b.list
            /\ \A e \in {d} : l.copy[e] # "absent"
            /\ SessionOk(r, l, claim', evidence', Stored({d}))
            /\ Flagged(r, b, claim') => Flagged(r, l, claim')
    <3>1. /\ text \in [Docs -> Texts] /\ b \in Session /\ claim' \in Rowed
          /\ SessionOk(r, b, claim', evidence', text)
      BY <1>s, <1>3
    <3>2. QED
      BY <2>1, <3>1, Loading
  <2>3. QED
    BY <1>3, <1>4, <2>1, <2>2
<1> HIDE DEF s
<1>8. /\ DOMAIN claim \subseteq DOMAIN claim'
      /\ fetched => /\ s.rows = Nothing
                    /\ \A k \in DOMAIN claim' : k.doc # d
      /\ ~fetched => claim' = claim /\ s.rows = o.rows
  <2>1. CASE fetched
    <3>1. s.rows = Nothing
      BY <1>s, <1>7, <1>b, <2>1, CommittedFacts
    <3>2. \A k \in DOMAIN claim' : k.doc # d
      BY <1>3, <2>1 DEF StoreOk
    <3>3. o.rows \in Rowed
      BY <1>s DEF Session
    <3>4. DOMAIN Sees(claim, o) = DOMAIN claim \cup DOMAIN o.rows
      BY <1>s, <3>3, SeesFacts
    <3>5. QED
      BY <1>2, <2>1, <3>1, <3>2, <3>4
  <2>2. CASE ~fetched
    BY <1>2, <1>7, <1>b, <2>2
  <2>3. QED
    BY <2>1, <2>2
<1> DEFINE S == DOMAIN Sees(claim', s)
<1>9. S = DOMAIN claim' \cup DOMAIN s.rows /\ DOMAIN Sees(claim, s) = DOMAIN claim \cup DOMAIN s.rows
      /\ s.rows \in Rowed
  <2>1. s.rows \in Rowed
    BY <1>7 DEF Session
  <2>2. QED
    BY <1>s, <1>3, <2>1, SeesFacts
<1>10. NumberedFor(r, DOMAIN Sees(claim, s))
  <2>1. CASE fetched
    <3>1. DOMAIN Sees(claim, s) = DOMAIN claim
      BY <1>8, <1>9, <2>1, NothingFacts
    <3>2. QED
      BY <1>s, <3>1 DEF StoreOk, Numbered, NumberedFor
  <2>2. CASE ~fetched
    <3>1. Sees(claim, s) = Sees(claim, o)
      BY <1>8, <2>2 DEF Sees
    <3>2. QED
      BY <1>s, <3>1 DEF SessionOk
  <2>3. QED
    BY <2>1, <2>2
<1>11. \A m \in N : /\ m \in Claims /\ m.run = r /\ m.doc = d /\ m \notin S
                    /\ \A n \in 1 .. m.n : n # m.n => [m EXCEPT !.n = n] \in S
  <2>1. ASSUME NEW m \in N
        PROVE  /\ m \in Claims /\ m.run = r /\ m.doc = d
               /\ m \notin DOMAIN Sees(claim, s)
               /\ \A n \in 1 .. m.n : n # m.n => [m EXCEPT !.n = n] \in DOMAIN Sees(claim, s)
    BY <1>s, <1>d, <1>7, <1>10, NextFacts
  <2>2. DOMAIN Sees(claim, s) \subseteq S
    BY <1>8, <1>9
  <2>3. \A m \in N : m \notin S
    BY <1>8, <1>9, <2>1, NothingFacts
  <2>4. QED
    BY <2>1, <2>2, <2>3
<1> HIDE DEF N
<1>12. /\ g \in Session /\ SessionOk(r, g, claim', evidence', text') /\ Flagged(r, g, claim')
       /\ g.list = s.list /\ g.copy = s.copy /\ DOMAIN g.rows = DOMAIN s.rows \cup N
  <2>1. N \in SUBSET Claims /\ Following(r, s, claim', N)
    BY <1>7, <1>11 DEF Following
  <2>2. QED
    <3>1. s \in Session /\ claim' \in Rowed /\ SessionOk(r, s, claim', evidence', text')
      BY <1>3, <1>7
    <3>2. QED
      BY <1>7, <2>1, <3>1, GrowsInList
<1> HIDE DEF g
<1>13. \A k \in DOMAIN claim \cup DOMAIN g.rows :
         k.doc = d => k \in DOMAIN Sees(claim', g) /\ Over(claim, g.rows)[k] = Sees(claim', g)[k]
  <2>1. g.rows \in Rowed
    BY <1>12 DEF Session
  <2>2. /\ DOMAIN Over(claim, g.rows) = DOMAIN claim \cup DOMAIN g.rows
        /\ \A k \in DOMAIN claim \cup DOMAIN g.rows :
             Over(claim, g.rows)[k] = IF k \in DOMAIN g.rows THEN g.rows[k] ELSE claim[k]
    BY <1>s, <2>1, OverFacts
  <2>3. /\ DOMAIN Over(claim', g.rows) = DOMAIN claim' \cup DOMAIN g.rows
        /\ \A k \in DOMAIN claim' \cup DOMAIN g.rows :
             Over(claim', g.rows)[k] = IF k \in DOMAIN g.rows THEN g.rows[k] ELSE claim'[k]
    BY <1>3, <2>1, OverFacts
  <2>4. CASE fetched
    BY <1>8, <2>2, <2>3, <2>4 DEF Sees
  <2>5. CASE ~fetched
    BY <1>8, <2>2, <2>3, <2>5 DEF Sees
  <2>6. QED
    BY <2>4, <2>5
<1>14. t \in Session /\ SessionOk(r, t, claim', evidence', text') /\ Flagged(r, t, claim')
  <2>1. \A k \in DOMAIN claim' : text'[k.doc] # "absent"
    BY <1>6 DEF StoreOk
  <2>2. c \in g.list /\ g.copy[d] # "absent"
    BY <1>3, <1>7, <1>12 DEF o
  <2>3. QED
    BY <1>2, <1>3, <1>d, <1>12, <1>13, <2>1, <2>2, JudgedFacts DEF t
<1>15. /\ run' = [run EXCEPT ![r] = run[r]]
       /\ session' = [session EXCEPT ![r] = t]
       /\ requeues' \in 0 .. MaxRequeues /\ faults' \in 0 .. MaxFaults
  BY <1>s, <1>1, <1>2 DEF t
<1>16. /\ \A e \in Docs : maker'[e] = maker[e] \/ (maker'[e] = r /\ run[r].executed)
       /\ \A k \in DOMAIN claim' : k \in DOMAIN claim \/ (k.run = r /\ run[r].executed)
  BY <1>s, <1>3, <1>4
<1>17. QED
  BY <1>s, <1>3, <1>4, <1>5, <1>6, <1>14, <1>15, <1>16, Stepping

-----------------------------------------------------------------------------
(* The invariant holds *)

\* The runs that are over when the model starts keep no claim: nothing is disputed.
LEMMA EvidenceStart == Init => EvidenceInv
<1> SUFFICES ASSUME Init
             PROVE  EvidenceInv
  OBVIOUS
<1>1. /\ claim = Nothing /\ claim \in Rowed /\ DOMAIN claim = {}
      /\ evidence = {} /\ finding = {}
      /\ \A r \in Runs : session[r] = Closed
  BY NothingFacts DEF Init
<1>2. Shapes
  <2>1. /\ text \in [Docs -> Texts] /\ maker \in [Docs -> Runs \cup {None}]
        /\ requeues \in 0 .. MaxRequeues /\ faults \in 0 .. MaxFaults
    BY EvidenceAssumption DEF Init, Texts
  <2>2. run \in [Runs -> Run] /\ session \in [Runs -> Session]
    BY ClosedFacts DEF Init, Run
  <2>3. QED
    BY <1>1, <2>1, <2>2 DEF Shapes
<1>3. StoreOk(claim, evidence, finding, text)
  BY <1>1 DEF StoreOk, Numbered
<1>4. SessionsInv
  BY <1>1, <1>3, ClosedOk DEF SessionsInv
<1>5. RunsInv
  BY <1>1 DEF Init, RunsInv, Judging
<1>6. ExecutedInv
  <2>1. ASSUME NEW d \in Docs, maker[d] # None
        PROVE  run[maker[d]].executed
    BY <2>1, EvidenceAssumption DEF Init, Earlier
  <2>2. QED
    BY <1>1, <2>1 DEF ExecutedInv
<1>7. DisputedDeepRunIsReviewed
  BY <1>1 DEF DisputedDeepRunIsReviewed
<1>8. QED
  BY <1>2, <1>3, <1>4, <1>5, <1>6, <1>7 DEF EvidenceInv

LEMMA EvidenceStep == EvidenceInv /\ [Next]_vars => EvidenceInv'
<1> SUFFICES ASSUME EvidenceInv, [Next]_vars
             PROVE  EvidenceInv'
  OBVIOUS
<1>1. CASE UNCHANGED vars
  BY <1>1 DEF vars, EvidenceInv, Shapes, SessionsInv, RunsInv, ExecutedInv,
              DisputedDeepRunIsReviewed
<1>2. ASSUME NEW c \in DOMAIN claim, Retract(c)
      PROVE  EvidenceInv'
  BY <1>2, RetractStep
<1>3. CASE Purge
  BY <1>3, PurgeStep
<1>4. ASSUME NEW r \in Runs, NEW ds \in SUBSET Offers[r], Retrieve(r, ds) \/ Extract(r, ds)
      PROVE  EvidenceInv'
  BY <1>4, RetrieveStep, ExtractStep
<1>5. ASSUME NEW r \in Runs, NEW c \in session[r].list, NEW d \in Offers[r],
             NEW verdict \in Verdicts, VerifyTarget(r, c, d, verdict)
      PROVE  EvidenceInv'
  BY <1>5, VerifyTargetStep
<1>6. ASSUME NEW r \in Runs, NEW P \in SUBSET Conflicts(AtConflicts(r)),
             NEW p \in Conflicts(AtConflicts(r)), RefuseEvidence(r, P, p)
      PROVE  EvidenceInv'
  BY <1>6, RefuseEvidenceStep
<1>7. ASSUME NEW r \in Runs, NEW fs \in Findings(r, session[r]), Synthesize(r, fs)
      PROVE  EvidenceInv'
  BY <1>7, SynthesizeStep
<1>8. ASSUME NEW r \in Runs,
             Start(r) \/ RecordConflicts(r) \/ Replan(r) \/ SaveReport(r) \/ Decide(r)
             \/ Fail(r) \/ Crash(r)
      PROVE  EvidenceInv'
  BY <1>8, StartStep, RecordConflictsStep, ReplanStep, SaveReportStep, DecideStep, FailStep,
     CrashStep
<1>9. ASSUME NEW r \in Runs, Requeue(r) \/ CancelQueued(r) \/ Age(r) \/ PurgeRefused(r)
      PROVE  EvidenceInv'
  BY <1>9, RequestStep
<1>10. QED
  BY <1>1, <1>2, <1>3, <1>4, <1>5, <1>6, <1>7, <1>8, <1>9 DEF Next

LEMMA EvidenceHolds == Spec => []EvidenceInv
BY EvidenceStart, EvidenceStep, PTL DEF Spec

-----------------------------------------------------------------------------
(* What follows from it *)

\* Type correctness, for any runs, documents, offers, verdicts and contradictions.
THEOREM EvidenceTyped == Spec => []TypeOK
<1>1. ASSUME EvidenceInv
      PROVE  TypeOK
  <2>1. ASSUME NEW r \in Runs
        PROVE  /\ DOMAIN session[r] = DOMAIN Closed
               /\ session[r].copy \in [Docs -> Texts]
               /\ RowsOk(session[r].view)
               /\ session[r].ingested \subseteq Docs
               /\ session[r].replanned \in BOOLEAN
               /\ session[r].list \subseteq DOMAIN session[r].view
               /\ RowsOk(session[r].rows)
               /\ session[r].evidence \subseteq EvidenceRow
               /\ session[r].finding \subseteq Finding
               /\ session[r].report \in Nat
    <3>1. session[r] \in Session
      BY <1>1, AtRun
    <3>2. session[r].list \subseteq DOMAIN session[r].view
      BY <1>1, AtRun DEF SessionOk
    <3>3. RowsOk(session[r].view) /\ RowsOk(session[r].rows)
      BY <3>1, RowedFacts DEF RowsOk, Session
    <3>4. DOMAIN session[r] = DOMAIN Closed
      BY <3>1 DEF Session, Closed
    <3>5. QED
      BY <3>1, <3>2, <3>3, <3>4 DEF Session
  <2>2. RowsOk(claim)
    BY <1>1, RowedFacts DEF EvidenceInv, Shapes, RowsOk
  <2>3. QED
    BY <1>1, <2>1, <2>2 DEF EvidenceInv, Shapes, TypeOK
<1>2. QED
  BY <1>1, EvidenceHolds, PTL

\* What is cited is stored, whatever the retention purge deletes, retries or is refused.
THEOREM CitedIsStored == Spec => []CitesWhatIsStored
<1>1. ASSUME EvidenceInv
      PROVE  CitesWhatIsStored
  BY <1>1 DEF EvidenceInv, StoreOk, CitesWhatIsStored
<1>2. QED
  BY <1>1, EvidenceHolds, PTL

\* Whatever part of a verification a failure or a crash leaves behind, a conflict on
\* record has both of its claims, and a disputed claim the row that says why.
THEOREM DisputesRecorded == Spec => []DisputesOnRecord
<1>1. ASSUME EvidenceInv
      PROVE  DisputesOnRecord
  <2>1. ConflictsHaveTwoSides
    BY <1>1 DEF EvidenceInv, StoreOk, Balanced, ConflictsHaveTwoSides
  <2>2. DisputesAreExplained
    BY <1>1 DEF EvidenceInv, StoreOk, Explains, DisputesAreExplained
  <2>3. QED
    BY <2>1, <2>2 DEF DisputesOnRecord
<1>2. QED
  BY <1>1, EvidenceHolds, PTL

\* No execution, pass or retry completes a deep run over a dispute of its own claims.
THEOREM DeepRunsReviewed == Spec => []DisputedDeepRunIsReviewed
<1>1. EvidenceInv => DisputedDeepRunIsReviewed
  BY DEF EvidenceInv
<1>2. QED
  BY <1>1, EvidenceHolds, PTL

-----------------------------------------------------------------------------
(* Retractions *)

\* The step leaves the claim c retracted, or an execution of its run disputes it.
Yields(c) ==
    /\ c \in DOMAIN claim'
    /\ \/ claim'[c].status = "RETRACTED"
       \/ claim'[c].status = "DISPUTED" /\ run[c.run].pc # "idle"

\* A commit writes nothing but disputes over what is committed.
LEMMA CommitYields ==
    ASSUME NEW r \in Runs, run[r].pc # "idle", claim \in Rowed, NEW rows \in Rowed,
           claim' = Over(claim, rows),
           \A c \in DOMAIN rows : c \in DOMAIN claim => c.run = r /\ rows[c].status = "DISPUTED",
           NEW c \in DOMAIN claim, claim[c].status = "RETRACTED"
    PROVE  Yields(c)
<1>1. /\ DOMAIN claim' = DOMAIN claim \cup DOMAIN rows
      /\ claim'[c] = IF c \in DOMAIN rows THEN rows[c] ELSE claim[c]
  BY DEF Over
<1>2. QED
  BY <1>1 DEF Yields

LEMMA ExtractYields ==
    ASSUME EvidenceInv, NEW r \in Runs, NEW ds \in SUBSET Offers[r], Extract(r, ds),
           NEW c \in DOMAIN claim, claim[c].status = "RETRACTED"
    PROVE  Yields(c)
<1> DEFINE s == session[r]
           N == UNION {NextClaim(r, s, d) : d \in ds}
           new == [k \in N |-> [quote |-> s.copy[k.doc], status |-> "ACTIVE"]]
<1>s. /\ s \in Session /\ SessionOk(r, s, claim, evidence, text)
      /\ claim \in Rowed /\ run[r].pc = "extract" /\ s.rows \in Rowed
      /\ s.copy \in [Docs -> Texts]
  BY AtRun DEF Extract, Shapes, Session
<1>1. claim' = Over(claim, Over(s.rows, new)) /\ ds \subseteq s.ingested
  BY DEF Extract, Commit, Extracted
<1>2. \A k \in N : k \in Claims /\ k \notin DOMAIN claim /\ s.copy[k.doc] \in {"whole", "purged"}
  <2>1. ASSUME NEW d \in ds, NEW k \in NextClaim(r, s, d)
        PROVE  k \in Claims /\ k \notin DOMAIN claim /\ s.copy[k.doc] \in {"whole", "purged"}
    <3>1. d \in Docs /\ NumberedFor(r, DOMAIN Sees(claim, s)) /\ s.copy[d] # "absent"
      BY <1>s, <1>1, EvidenceAssumption DEF SessionOk, CopyOf
    <3>2. k \in Claims /\ k.doc = d /\ k \notin DOMAIN Sees(claim, s)
      BY <1>s, <3>1, NextFacts
    <3>3. k \notin DOMAIN claim
      BY <3>2 DEF Sees, Over
    <3>4. QED
      BY <1>s, <3>1, <3>2, <3>3 DEF Texts
  <2>2. QED
    BY <2>1
<1> HIDE DEF N, s
<1>3. new \in Rowed /\ DOMAIN new = N
  BY <1>2 DEF Rowed, Row, ClaimStatuses
<1> HIDE DEF new
<1>4. /\ Over(s.rows, new) \in Rowed
      /\ DOMAIN Over(s.rows, new) = DOMAIN s.rows \cup N
      /\ \A k \in DOMAIN s.rows \cup N :
           Over(s.rows, new)[k] = IF k \in N THEN new[k] ELSE s.rows[k]
  <2>1. Over(s.rows, new) \in Rowed
    BY <1>s, <1>3, OverFacts
  <2>2. QED
    BY <1>3, <2>1 DEF Over
<1>5. \A k \in DOMAIN Over(s.rows, new) :
         k \in DOMAIN claim => k.run = r /\ Over(s.rows, new)[k].status = "DISPUTED"
  BY <1>s, <1>2, <1>4 DEF SessionOk, RowsOf
<1>6. QED
  BY <1>s, <1>1, <1>4, <1>5, CommitYields

LEMMA RecordConflictsYields ==
    ASSUME EvidenceInv, NEW r \in Runs, RecordConflicts(r),
           NEW c \in DOMAIN claim, claim[c].status = "RETRACTED"
    PROVE  Yields(c)
<1> DEFINE s == AtConflicts(r)
           u == Recorded(s, Conflicts(s))
<1>s. /\ s \in Session /\ SessionOk(r, s, claim, evidence, text)
  BY AtConflictsFacts
<1>1. run[r].pc # "idle" /\ claim' = Over(claim, u.rows)
  BY DEF RecordConflicts, Commit
<1> HIDE DEF s
<1>2. /\ claim \in Rowed /\ evidence \in SUBSET EvidenceRow
      /\ StoreOk(claim, evidence, finding, text)
  BY AtRun DEF Shapes
<1>3. u \in Session /\ SessionOk(r, u, claim, evidence, text)
  BY <1>s, <1>2, Recording
<1> HIDE DEF u
<1>4. QED
  BY <1>1, <1>2, <1>3, CommitYields DEF SessionOk, RowsOf, Session

\* Saving a report, settling a failure and storing a document commit the session as it is.
LEMMA SessionYields ==
    ASSUME EvidenceInv, NEW r \in Runs, run[r].pc # "idle", Commit(session[r]),
           NEW c \in DOMAIN claim, claim[c].status = "RETRACTED"
    PROVE  Yields(c)
<1>1. /\ claim \in Rowed /\ session[r] \in Session
      /\ SessionOk(r, session[r], claim, evidence, text)
  BY AtRun DEF Shapes
<1>2. QED
  BY <1>1, CommitYields DEF Commit, SessionOk, RowsOf, Session

LEMMA NextYields ==
    ASSUME EvidenceInv, Next, NEW c \in DOMAIN claim, claim[c].status = "RETRACTED"
    PROVE  Yields(c)
<1>0. ASSUME UNCHANGED claim
      PROVE  Yields(c)
  BY <1>0 DEF Yields
<1>1. ASSUME NEW k \in DOMAIN claim, Retract(k)
      PROVE  Yields(c)
  BY <1>1 DEF Retract, Yields
<1>2. CASE Purge
  BY <1>0, <1>2, PurgeKeeps
<1>3. ASSUME NEW r \in Runs, NEW ds \in SUBSET Offers[r], Retrieve(r, ds) \/ Extract(r, ds)
      PROVE  Yields(c)
  BY <1>0, <1>3, ExtractYields DEF Retrieve
<1>4. ASSUME NEW r \in Runs, NEW k \in session[r].list, NEW d \in Offers[r],
             NEW verdict \in Verdicts, VerifyTarget(r, k, d, verdict)
      PROVE  Yields(c)
  BY <1>0, <1>4, SessionYields DEF VerifyTarget
<1>5. ASSUME NEW r \in Runs, NEW P \in SUBSET Conflicts(AtConflicts(r)),
             NEW p \in Conflicts(AtConflicts(r)), RefuseEvidence(r, P, p)
      PROVE  Yields(c)
  BY <1>0, <1>5 DEF RefuseEvidence
<1>6. ASSUME NEW r \in Runs, NEW fs \in Findings(r, session[r]), Synthesize(r, fs)
      PROVE  Yields(c)
  BY <1>0, <1>6 DEF Synthesize
<1>7. ASSUME NEW r \in Runs, RecordConflicts(r)
      PROVE  Yields(c)
  BY <1>7, RecordConflictsYields
<1>8. ASSUME NEW r \in Runs, SaveReport(r) \/ Fail(r)
      PROVE  Yields(c)
  BY <1>0, <1>8, SessionYields DEF SaveReport, Fail
<1>9. ASSUME NEW r \in Runs,
             Start(r) \/ Replan(r) \/ Decide(r) \/ Crash(r) \/ Requeue(r) \/ CancelQueued(r)
             \/ Age(r) \/ PurgeRefused(r)
      PROVE  Yields(c)
  BY <1>0, <1>9 DEF Start, Replan, Decide, Crash, Requeue, CancelQueued, Age, PurgeRefused
<1>10. QED
  BY <1>1, <1>2, <1>3, <1>4, <1>5, <1>6, <1>7, <1>8, <1>9 DEF Next

\* A retraction gives way only to a dispute that an execution of the claim's own run found:
\* no commit, retry, crash or purge makes a retracted claim ACTIVE or forgets it.
THEOREM RetractionsYieldOnlyToDispute == Spec => RetractionYieldsOnlyToDispute
<1>1. ASSUME EvidenceInv, [Next]_vars
      PROVE  [\A c \in DOMAIN claim :
                claim[c].status = "RETRACTED" =>
                   \/ /\ c \in DOMAIN claim'
                      /\ \/ claim'[c].status = "RETRACTED"
                         \/ claim'[c].status = "DISPUTED" /\ run[c.run].pc # "idle"
                   \/ c \notin DOMAIN claim' /\ run'[c.run].status = "gone"]_vars
  BY <1>1, NextYields DEF Yields
<1>2. QED
  BY <1>1, EvidenceHolds, PTL DEF Spec, RetractionYieldsOnlyToDispute

=============================================================================
