----------------------------- MODULE EventStream -----------------------------
(***************************************************************************)
(* The telemetry of one run (orchestration/events.py, db/repos.py): events *)
(* are inserted by database sessions, broadcast to the stream clients of   *)
(* the same process before anything is committed, and polled by cursor     *)
(* (api/v1/endpoints.py).  The flush of an event is awaited: between the   *)
(* drawing of its id and its broadcast other sessions of the process may   *)
(* draw and broadcast theirs, and clients come and go.                     *)
(*                                                                         *)
(* Ids are drawn when a row is inserted; a row is visible to others when   *)
(* its session commits.  Several sessions write events of one run: that of *)
(* its execution, that of a second execution after a requeue, and that of  *)
(* the handler that cancels it, which is closed without a commit.          *)
(***************************************************************************)
EXTENDS Integers, Sequences

CONSTANTS
    Sessions,   \* sessions that write events of the run
    Handlers,   \* those of them that belong to a cancel request
    Processes,
    Home,       \* [Sessions -> Processes]
    Clients,
    MaxEvents,  \* bound on the ids drawn
    None

\* What the parameters are; the instance that gives them assumes it.
EventAssumption ==
    /\ Home \in [Sessions -> Processes]
    /\ MaxEvents \in Nat
    /\ None \notin Processes

Ids == 1 .. MaxEvents

VARIABLES
    last,     \* the last id drawn
    author,   \* [Ids -> Sessions \cup {None}]
    row,      \* [Ids -> {"none", "flushed", "stored", "lost"}]
    pending,  \* the ids drawn by an emit_event that has not broadcast them yet
    spoken,   \* the ids that were broadcast
    hub,      \* [Processes -> SUBSET Clients], whose queue is in _subscribers
    stream,   \* [Clients -> Stream], the stream a client has open
    polled    \* [Clients -> Polled], what a client's polls returned

eventVars == <<last, author, row, pending, spoken, hub, stream, polled>>

\* home: the process whose hub holds the queue; before: the ids that were broadcast
\* when it was subscribed; queue: all that was put in it, delivered or not.
Stream == [home : Processes \cup {None}, before : SUBSET Ids, queue : Seq(Ids)]

Polled == [after : 0 .. MaxEvents, seen : SUBSET Ids]

TypeOK ==
    /\ last \in 0 .. MaxEvents
    /\ author \in [Ids -> Sessions \cup {None}]
    /\ row \in [Ids -> {"none", "flushed", "stored", "lost"}]
    /\ pending \subseteq Ids
    /\ spoken \subseteq Ids
    /\ hub \in [Processes -> SUBSET Clients]
    /\ stream \in [Clients -> Stream]
    /\ polled \in [Clients -> Polled]

Off == [home |-> None, before |-> {}, queue |-> <<>>]

Init ==
    /\ last = 0
    /\ author = [i \in Ids |-> None]
    /\ row = [i \in Ids |-> "none"]
    /\ pending = {}
    /\ spoken = {}
    /\ hub = [p \in Processes |-> {}]
    /\ stream = [c \in Clients |-> Off]
    /\ polled = [c \in Clients |-> [after |-> 0, seen |-> {}]]

Flushed(s) == {i \in Ids : author[i] = s /\ row[i] = "flushed"}

\* The session awaits the flush of an event it is to broadcast.
Emitting(s) == \E i \in pending : author[i] = s

\* RunRepo.add_event: the row is flushed, its id is known.
Insert(s) ==
    /\ ~Emitting(s)
    /\ last < MaxEvents
    /\ last' = last + 1
    /\ author' = [author EXCEPT ![last + 1] = s]
    /\ row' = [row EXCEPT ![last + 1] = "flushed"]

\* The agents' events are not broadcast.
AddEvent(s) ==
    /\ s \notin Handlers
    /\ Insert(s)
    /\ UNCHANGED <<pending, spoken, hub, stream, polled>>

\* emit_event up to the flush it awaits.  A cancel handler emits one event.
EmitEvent(s) ==
    /\ s \in Handlers => s \notin {author[i] : i \in Ids}
    /\ Insert(s)
    /\ pending' = pending \cup {last'}
    /\ UNCHANGED <<spoken, hub, stream, polled>>

Heard(c, i) == [stream[c] EXCEPT !.queue = Append(@, i)]

\* The rest of emit_event, in which nothing is awaited that can wait.
Broadcast(i) ==
    /\ i \in pending
    /\ pending' = pending \ {i}
    /\ spoken' = spoken \cup {i}
    /\ stream' = [c \in Clients |->
                    IF c \in hub[Home[author[i]]] THEN Heard(c, i) ELSE stream[c]]
    /\ UNCHANGED <<last, author, row, hub, polled>>

Commit(s) ==
    /\ s \notin Handlers
    /\ ~Emitting(s)
    /\ Flushed(s) # {}
    /\ row' = [i \in Ids |-> IF i \in Flushed(s) THEN "stored" ELSE row[i]]
    /\ UNCHANGED <<last, author, pending, spoken, hub, stream, polled>>

\* A rollback after an error, one in the flush of an event to be broadcast included, or
\* the close of a session that was not committed.
Rollback(s) ==
    /\ Flushed(s) # {}
    /\ row' = [i \in Ids |-> IF i \in Flushed(s) THEN "lost" ELSE row[i]]
    /\ pending' = pending \ Flushed(s)
    /\ UNCHANGED <<last, author, spoken, hub, stream, polled>>

\* A process dies: its open transactions roll back and its hub is gone.
Crash(p) ==
    /\ \E c \in Clients : stream[c].home = p
    /\ row' = [i \in Ids |-> IF \E s \in Sessions : Home[s] = p /\ i \in Flushed(s)
                             THEN "lost" ELSE row[i]]
    /\ stream' = [c \in Clients |-> IF stream[c].home = p THEN Off ELSE stream[c]]
    /\ hub' = [hub EXCEPT ![p] = {}]
    /\ pending' = {i \in pending : Home[author[i]] # p}
    /\ UNCHANGED <<last, author, spoken, polled>>

\* A new queue, without the backlog.
Subscribe(c, p) ==
    /\ stream[c].home = None
    /\ stream' = [stream EXCEPT ![c] = [home |-> p, before |-> spoken, queue |-> <<>>]]
    /\ hub' = [hub EXCEPT ![p] = @ \cup {c}]
    /\ UNCHANGED <<last, author, row, pending, spoken, polled>>

\* Mutant: unsubscribing deletes the run's list of queues.
UnsubscribeAll(c) ==
    /\ stream[c].home # None
    /\ stream' = [stream EXCEPT ![c] = Off]
    /\ hub' = [hub EXCEPT ![stream[c].home] = {}]
    /\ UNCHANGED <<last, author, row, pending, spoken, polled>>

Unsubscribe(c) ==
    /\ stream[c].home # None
    /\ stream' = [stream EXCEPT ![c] = Off]
    /\ hub' = [hub EXCEPT ![stream[c].home] = @ \ {c}]
    /\ UNCHANGED <<last, author, row, pending, spoken, polled>>

Greatest(S, least) == IF S = {} THEN least ELSE CHOOSE i \in S : \A j \in S : j <= i

\* Mutant: the newest event first, one to a page.
PollNewest(c) ==
    LET page == {Greatest({i \in Ids : row[i] = "stored" /\ i > polled[c].after}, 0)} \ {0}
    IN  /\ page # {}
        /\ polled' = [polled EXCEPT ![c] =
                        [after |-> Greatest(page, polled[c].after),
                         seen |-> polled[c].seen \cup page]]
        /\ UNCHANGED <<last, author, row, pending, spoken, hub, stream>>

\* The client goes on after the last id it was given.
Poll(c) ==
    LET page == {i \in Ids : row[i] = "stored" /\ i > polled[c].after}
    IN  /\ page # {}
        /\ polled' = [polled EXCEPT ![c] =
                        [after |-> Greatest(page, polled[c].after),
                         seen |-> polled[c].seen \cup page]]
        /\ UNCHANGED <<last, author, row, pending, spoken, hub, stream>>

Next ==
    \/ \E s \in Sessions : AddEvent(s) \/ EmitEvent(s) \/ Commit(s) \/ Rollback(s)
    \/ \E i \in Ids : Broadcast(i)
    \/ \E p \in Processes : Crash(p)
    \/ \E c \in Clients : Unsubscribe(c) \/ Poll(c)
    \/ \E c \in Clients, p \in Processes : Subscribe(c, p)

Spec == Init /\ [][Next]_eventVars

-----------------------------------------------------------------------------
(* Properties *)

\* A poller that goes on after the last id it was given misses a stored event only when
\* another session drew a later id and committed first: the events of one execution
\* reach it whole (endpoints.py:352).
PollersMissOnlyAcrossSessions ==
    \A c \in Clients, i \in Ids :
        row[i] = "stored" /\ i <= polled[c].after /\ i \notin polled[c].seen =>
            \E j \in polled[c].seen : j > i /\ author[j] # author[i]

\* An open stream has exactly what was broadcast in its process since it was subscribed,
\* each event once, whatever other streams open, close or die with their process; and of
\* one session's events it has the earlier first, though an event of another session may
\* overtake one whose flush is still awaited (events.py:31, :95).
StreamsHearTheirProcess ==
    \A c \in Clients : stream[c].home # None =>
        LET queue == stream[c].queue
        IN  /\ {queue[k] : k \in DOMAIN queue} =
                 {i \in spoken \ stream[c].before : Home[author[i]] = stream[c].home}
            /\ \A k, l \in DOMAIN queue : k < l =>
                 /\ queue[k] # queue[l]
                 /\ author[queue[k]] = author[queue[l]] => queue[k] < queue[l]

\* A reader of a run's telemetry misses an event only in the two ways the design leaves open:
\* a poller one that another session committed late, a stream one of another process
\* (endpoints.py:326-352, events.py:101).
EventsReachReaders == PollersMissOnlyAcrossSessions /\ StreamsHearTheirProcess
=============================================================================
