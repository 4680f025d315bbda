-------------------------------- MODULE News --------------------------------
(***************************************************************************)
(* The news crawl (intelx/ingestion/news_ingester.py): each replica goes   *)
(* through the feeds one by one, stores what is new under the agent of the *)
(* feed it met it in, and then announces the new articles agent by agent   *)
(* through Memora.  The feeds overlap, the replicas share the database,    *)
(* and what a crawl is about to announce is in its memory alone.  The      *)
(* peers read the articles by agent (api/v1/friday_universe.py).           *)
(***************************************************************************)
EXTENDS Naturals, FiniteSets

CONSTANTS
    Crawlers,        \* the replicas
    Feeds, Agent,    \* the feeds are numbered in their order; the agent each is for
    Articles, Lists, \* the articles a feed lists, by the feed
    Batch,           \* the articles of one notice (20)
    Cycles,          \* bound on the crawls of a replica
    Nobody           \* who stored an article that is not stored

\* What the parameters are; the instance that gives them assumes it.
NewsAssumption ==
    /\ 1 \in Feeds
    /\ Feeds \subseteq Nat
    /\ Lists \in [Feeds -> SUBSET Articles]
    /\ Nobody \notin {Agent[f] : f \in Feeds}
    /\ Cycles \in Nat

VARIABLES
    article,   \* the agent each article is stored for, or Nobody
    crawl,     \* where each replica is
    notices    \* the notices posted

newsVars == <<article, crawl, notices>>

Agents == {Agent[f] : f \in Feeds}
Idle(n) == [pc |-> "idle", feed |-> 0, todo |-> {}, at |-> {}, fresh |-> {}, cycle |-> n]

TypeOK ==
    /\ article \in [Articles -> Agents \union {Nobody}]
    /\ crawl \in [Crawlers ->
            [pc : {"idle", "feed", "look", "text", "again", "insert", "announce"},
             feed : Feeds \union {0}, todo : SUBSET Articles, at : SUBSET Articles,
             fresh : SUBSET (Agents \X Articles), cycle : 0..Cycles]]
    /\ notices \subseteq [by : Crawlers, cycle : 1..Cycles, agent : Agents, told : SUBSET Articles]

Init ==
    /\ article = [a \in Articles |-> Nobody]
    /\ crawl = [w \in Crawlers |-> Idle(0)]
    /\ notices = {}

\* After the last feed the crawl announces what it found.
Onward(w) ==
    IF crawl[w].feed + 1 \in Feeds
    THEN [crawl[w] EXCEPT !.pc = "feed", !.feed = @ + 1, !.todo = {}]
    ELSE [crawl[w] EXCEPT !.pc = "announce", !.feed = 0, !.todo = {}]

Begin(w) ==
    /\ crawl[w].pc = "idle"
    /\ crawl[w].cycle < Cycles
    /\ crawl' = [crawl EXCEPT ![w] = [Idle(crawl[w].cycle + 1) EXCEPT !.pc = "feed", !.feed = 1]]
    /\ UNCHANGED <<article, notices>>

\* A feed that cannot be fetched or read is counted and passed over; one that can lists
\* any of its articles, up to a bound.
FetchFeed(w) ==
    /\ crawl[w].pc = "feed"
    /\ \/ crawl' = [crawl EXCEPT ![w] = Onward(w)]
       \/ \E listed \in SUBSET Lists[crawl[w].feed] :
            crawl' = [crawl EXCEPT ![w].pc = "look", ![w].todo = listed]
    /\ UNCHANGED <<article, notices>>

\* In a session of its own the crawl looks for the next article, and skips one it knows.
Look(w) ==
    /\ crawl[w].pc = "look"
    /\ \/ /\ crawl[w].todo = {}
          /\ crawl' = [crawl EXCEPT ![w] = Onward(w)]
       \/ \E a \in crawl[w].todo :
            crawl' = [crawl EXCEPT ![w].todo = @ \ {a},
                ![w].at = {a},
                ![w].pc = IF article[a] = Nobody THEN "text" ELSE "look"]
    /\ UNCHANGED <<article, notices>>

\* The page is fetched between two sessions, which takes as long as it takes; without it
\* the feed's own summary stands in, and what is too short is not stored.
FetchText(w) ==
    /\ crawl[w].pc = "text"
    /\ \E next \in {"look", "again"} : crawl' = [crawl EXCEPT ![w].pc = next]
    /\ UNCHANGED <<article, notices>>

LookAgain(w) ==
    /\ crawl[w].pc = "again"
    /\ \E a \in crawl[w].at :
        crawl' = [crawl EXCEPT ![w].pc = IF article[a] = Nobody THEN "insert" ELSE "look"]
    /\ UNCHANGED <<article, notices>>

\* Mutant: the unique fingerprint gives way to an upsert.
InsertOrReplace(w) ==
    /\ crawl[w].pc = "insert"
    /\ \E a \in crawl[w].at :
        /\ article' = [article EXCEPT ![a] = Agent[crawl[w].feed]]
        /\ crawl' = [crawl EXCEPT ![w].pc = "look",
                ![w].fresh = @ \union {<<Agent[crawl[w].feed], a>>}]
    /\ UNCHANGED notices

\* The fingerprint of the address is unique: the second of two inserts is an error, like
\* any other failure of the database, and its article is not new.
Insert(w) ==
    /\ crawl[w].pc = "insert"
    /\ \E a \in crawl[w].at :
        \/ /\ article[a] = Nobody
           /\ article' = [article EXCEPT ![a] = Agent[crawl[w].feed]]
           /\ crawl' = [crawl EXCEPT ![w].pc = "look",
                   ![w].fresh = @ \union {<<Agent[crawl[w].feed], a>>}]
        \/ /\ crawl' = [crawl EXCEPT ![w].pc = "look"]
           /\ UNCHANGED article
    /\ UNCHANGED notices

\* Agent by agent in notices of bounded size.  A notice that is not accepted, or cannot be
\* posted, is logged: nothing announces its articles again.
Announce(w) ==
    /\ crawl[w].pc = "announce"
    /\ \/ /\ crawl[w].fresh = {}
          /\ crawl' = [crawl EXCEPT ![w] = Idle(@.cycle)]
          /\ UNCHANGED notices
       \/ \E g \in Agents, told \in SUBSET Articles, posted \in BOOLEAN :
            LET mine == {a \in Articles : <<g, a>> \in crawl[w].fresh}
            IN /\ told \subseteq mine
               /\ Cardinality(told) = IF Cardinality(mine) > Batch THEN Batch ELSE Cardinality(mine)
               /\ told # {}
               /\ crawl' = [crawl EXCEPT ![w].fresh = @ \ ({g} \X told)]
               /\ notices' = IF posted
                    THEN notices \union
                            {[by |-> w, cycle |-> crawl[w].cycle, agent |-> g, told |-> told]}
                    ELSE notices
    /\ UNCHANGED article

\* A stop or a crash forgets what was still to be announced.
Stop(w) ==
    /\ crawl[w].pc # "idle"
    /\ crawl' = [crawl EXCEPT ![w] = Idle(@.cycle)]
    /\ UNCHANGED <<article, notices>>

Next ==
    \E w \in Crawlers :
        \/ Begin(w) \/ FetchFeed(w) \/ Look(w) \/ FetchText(w) \/ LookAgain(w) \/ Insert(w)
        \/ Announce(w) \/ Stop(w)

Spec == Init /\ [][Next]_newsVars

-----------------------------------------------------------------------------

\* What an agent's peers read: the articles stored under its tag, whichever other feeds
\* list them too.
FeedOf(g) == {a \in Articles : article[a] = g}

\* No article is announced twice, by whichever replicas and in whichever crawls, and each
\* is found in the feed of the agent it was announced for, although every crawl keeps its
\* own list of what it found new and two of them may store the same article at once.
AnnouncedOnceWhereRead ==
    /\ \A m, n \in notices : m # n => m.told \intersect n.told = {}
    /\ \A n \in notices : n.told \subseteq FeedOf(n.agent)

=============================================================================
