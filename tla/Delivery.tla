------------------------------ MODULE Delivery ------------------------------
(***************************************************************************)
(* The handoff of an answered run to Memora, Futuris, StrateX and Cortex   *)
(* (orchestration/engine.py, integrations): a worker posts to them one     *)
(* after the other, retries the notices, and gives up on all that is left  *)
(* at a common deadline.  A post it gave up on may still arrive, and a     *)
(* requeued run is handed over again, perhaps beside the first time.       *)
(*                                                                         *)
(* Recipient 1 is Memora, which gets a brief and then the claims; every    *)
(* other one gets a notice through Memora's mesh and then its webhook.     *)
(* Modelled with credentials present and MOCK_MODE off.  The peers are     *)
(* outside this repository: they accept a post, answer it or do not.       *)
(***************************************************************************)
EXTENDS Integers

CONSTANTS
    Dispatches,  \* executions of the run that reach the handoff
    Fanout,       \* recipients
    Attempts     \* _PUBLISH_ATTEMPTS

ASSUME DeliveryAssumption == Fanout \in Nat \ {0} /\ Attempts \in Nat \ {0}

Recipients == 1 .. Fanout
Parts == 1 .. 2

VARIABLES
    call,      \* [Dispatches -> Call], where the dispatch is
    wire,      \* posts the network still holds
    received,  \* posts that a peer took
    answer,    \* [Dispatches -> Answers], the response to the post awaited
    outcome    \* [Dispatches -> [Recipients -> Outcome]]

deliveryVars == <<call, wire, received, answer, outcome>>

\* "gone": the worker process stopped or its task was cancelled.
Call == [pc : {"idle", "post", "wait", "done", "gone"},
         to : Recipients, part : Parts, try : 1 .. Attempts, notice : BOOLEAN]

Post == [by : Dispatches, to : Recipients, part : Parts, try : 1 .. Attempts]

\* "transient" stands for 408, 425, 429, 500, 502, 503 and 504.
Answers == {"none", "ok", "transient", "refused"}

Outcome == [status : {"none", "handed", "delivered", "failed", "skipped"},
            notice : BOOLEAN]

Unreported == [status |-> "none", notice |-> FALSE]

TypeOK ==
    /\ call \in [Dispatches -> Call]
    /\ wire \subseteq Post
    /\ received \subseteq Post
    /\ answer \in [Dispatches -> Answers]
    /\ outcome \in [Dispatches -> [Recipients -> Outcome]]

Init ==
    /\ call = [d \in Dispatches |->
                 [pc |-> "idle", to |-> 1, part |-> 1, try |-> 1, notice |-> FALSE]]
    /\ wire = {}
    /\ received = {}
    /\ answer = [d \in Dispatches |-> "none"]
    /\ outcome = [d \in Dispatches |-> [q \in Recipients |-> Unreported]]

Awaited(d) == [by |-> d, to |-> call[d].to, part |-> call[d].part, try |-> call[d].try]

Busy(d) == call[d].pc \in {"post", "wait"}

\* Only the notices are tried more than once.
Tries(q, k) == IF q # 1 /\ k = 1 THEN Attempts ELSE 1

-----------------------------------------------------------------------------
(* The dispatch *)

Start(d) ==
    /\ call[d].pc = "idle"
    /\ call' = [call EXCEPT ![d].pc = "post"]
    /\ UNCHANGED <<wire, received, answer, outcome>>

Send(d) ==
    /\ call[d].pc = "post"
    /\ call' = [call EXCEPT ![d].pc = "wait"]
    /\ wire' = wire \cup {Awaited(d)}
    /\ UNCHANGED <<received, answer, outcome>>

\* The backoff before the next attempt is part of its "post".
Again(d) ==
    /\ call' = [call EXCEPT ![d].pc = "post", ![d].try = @ + 1]
    /\ UNCHANGED outcome

\* The first part is over, whatever came of it: on to the webhook or the claims.
Onward(d, noted) ==
    /\ call[d].part = 1
    /\ call' = [call EXCEPT ![d].pc = "post", ![d].part = 2, ![d].try = 1, ![d].notice = noted]
    /\ UNCHANGED outcome

\* The recipient is served; the next one starts with an empty hand.
Serve(d, s, noted) ==
    /\ outcome' = [outcome EXCEPT ![d][call[d].to] = [status |-> s, notice |-> noted]]
    /\ call' = [call EXCEPT ![d] =
                  IF call[d].to = Fanout
                  THEN [@ EXCEPT !.pc = "done"]
                  ELSE [pc |-> "post", to |-> call[d].to + 1, part |-> 1, try |-> 1,
                        notice |-> FALSE]]

\* Memora answers "handoff_completed" for whatever its two posts came to; without an
\* active claim there is no second one.
Conclude(d, ok) ==
    IF call[d].part = 1
    THEN \E noted \in (IF ok THEN BOOLEAN ELSE {FALSE}) :  \* an answer that does not parse
            \/ Onward(d, noted)
            \/ call[d].to = 1 /\ Serve(d, "handed", noted)
    ELSE Serve(d,
               IF call[d].to = 1 THEN "handed" ELSE IF ok THEN "delivered" ELSE "failed",
               call[d].notice)

\* Mutant: the webhook's status code is not looked at.
ReadUnchecked(d) ==
    /\ call[d].pc = "wait"
    /\ answer[d] # "none"
    /\ answer' = [answer EXCEPT ![d] = "none"]
    /\ UNCHANGED <<wire, received>>
    /\ IF answer[d] = "transient" /\ call[d].try < Tries(call[d].to, call[d].part)
       THEN Again(d)
       ELSE Conclude(d, TRUE)

\* The response is there.
Read(d) ==
    /\ call[d].pc = "wait"
    /\ answer[d] # "none"
    /\ answer' = [answer EXCEPT ![d] = "none"]
    /\ UNCHANGED <<wire, received>>
    /\ IF answer[d] = "transient" /\ call[d].try < Tries(call[d].to, call[d].part)
       THEN Again(d)
       ELSE Conclude(d, answer[d] = "ok")

\* The eight seconds pass or the connection breaks: the post may arrive all the same.
Timeout(d) ==
    /\ call[d].pc = "wait"
    /\ answer' = [answer EXCEPT ![d] = "none"]
    /\ UNCHANGED <<wire, received>>
    /\ IF call[d].try < Tries(call[d].to, call[d].part)
       THEN Again(d)
       ELSE Conclude(d, FALSE)

\* The common deadline cancels the recipient in flight and skips those after it.
Deadline(d) ==
    /\ Busy(d)
    /\ call' = [call EXCEPT ![d].pc = "done"]
    /\ answer' = [answer EXCEPT ![d] = "none"]
    /\ outcome' = [outcome EXCEPT ![d] =
                     [q \in Recipients |->
                        IF @[q] = Unreported
                        THEN [status |-> "skipped", notice |-> FALSE]
                        ELSE @[q]]]
    /\ UNCHANGED <<wire, received>>

\* A crash, or the CancelledError of a shutdown, which no handler here keeps.
Abandon(d) ==
    /\ Busy(d)
    /\ call' = [call EXCEPT ![d].pc = "gone"]
    /\ answer' = [answer EXCEPT ![d] = "none"]
    /\ UNCHANGED <<wire, received, outcome>>

-----------------------------------------------------------------------------
(* The peers: any post of any age is taken or not, and answered or not; only what *)
(* was taken is answered "ok".                                                   *)

Peer(m, a, taken) ==
    /\ m \in wire
    /\ a = "ok" => taken
    /\ wire' = wire \ {m}
    /\ received' = IF taken THEN received \cup {m} ELSE received
    /\ answer' = IF call[m.by].pc = "wait" /\ m = Awaited(m.by)
                 THEN [answer EXCEPT ![m.by] = a]
                 ELSE answer
    /\ UNCHANGED <<call, outcome>>

-----------------------------------------------------------------------------
Step(d) == Start(d) \/ Send(d) \/ Read(d) \/ Timeout(d)

Next ==
    \/ \E d \in Dispatches : Step(d) \/ Deadline(d) \/ Abandon(d)
    \/ \E m \in wire, a \in Answers, taken \in BOOLEAN : Peer(m, a, taken)

Spec == Init /\ [][Next]_deliveryVars

-----------------------------------------------------------------------------
(* Properties *)

\* What arrived, whichever attempt brought it.
Arrived == {<<m.by, m.to, m.part>> : m \in received}

Promise == INSTANCE Handoff WITH got <- Arrived, report <- outcome

\* The dispatch with its retries, timeouts, late arrivals and common deadline implements
\* Handoff: outcomes are final and in order, "delivered" is true, and of the recipients
\* reported skipped at most the one in flight can have got anything
\* (ecosystem_dispatch.py:33, memora_events.py:127).
ImplementsHandoff == Promise!Spec
=============================================================================
