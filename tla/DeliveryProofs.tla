--------------------------- MODULE DeliveryProofs ---------------------------
(***************************************************************************)
(* For any number of dispatches, recipients and attempts: the dispatch     *)
(* with its retries, timeouts, late arrivals, deadline and crashes         *)
(* implements Handoff.  HandoffInv says how far a dispatch has come with   *)
(* its recipients, that nothing is on the wire for one whose turn has not  *)
(* come, and that whatever is taken for an answer has arrived.             *)
(***************************************************************************)
EXTENDS Delivery, TLAPS

ServedBefore(d, q) == \A p \in 1 .. q - 1 : outcome[d][p].status \in Promise!Served

\* Recipients are served in order: those before the one at hand, and no other, while the
\* dispatch is under way (ecosystem_dispatch.py 33-56).
OrderInv ==
    \A d \in Dispatches : call[d].pc \in {"idle", "post", "wait"} =>
        /\ ServedBefore(d, call[d].to)
        /\ \A q \in Recipients : q >= call[d].to => outcome[d][q] = Unreported

\* A post was sent when all before its recipient had been served.
WireInv == \A m \in wire : ServedBefore(m.by, m.to)

\* An answer awaited that says "ok", and a notice remembered, stand for posts that a peer
\* took (memora_events.py 127-160).
TakenInv ==
    \A d \in Dispatches :
        /\ answer[d] # "none" => call[d].pc = "wait"
        /\ answer[d] = "ok" => <<d, call[d].to, call[d].part>> \in Arrived
        /\ Busy(d) /\ call[d].notice => <<d, call[d].to, 1>> \in Arrived
        /\ call[d].pc = "idle" => ~call[d].notice

HandoffInv == TypeOK /\ OrderInv /\ WireInv /\ TakenInv

-----------------------------------------------------------------------------
LEMMA ArrivedStays ==
    ASSUME received' = received
    PROVE  Arrived' = Arrived
BY DEF Arrived

LEMMA TriesBounded ==
    ASSUME NEW q, NEW k
    PROVE  Tries(q, k) \in Nat /\ Tries(q, k) <= Attempts
BY DeliveryAssumption DEF Tries

\* What a dispatch in flight does with the first part, the last part and the next try.
LEMMA AgainTyped ==
    ASSUME TypeOK, NEW d \in Dispatches, Again(d),
           call[d].try < Tries(call[d].to, call[d].part)
    PROVE  call' \in [Dispatches -> Call] /\ outcome' = outcome
<1>1. call[d] \in Call
  BY DEF TypeOK
<1>2. call[d].try + 1 \in 1 .. Attempts
  <2> DEFINE tries == Tries(call[d].to, call[d].part)
  <2>1. tries \in Nat /\ tries <= Attempts
    BY TriesBounded
  <2>2. call[d].try \in 1 .. Attempts /\ call[d].try < tries
    BY <1>1 DEF Call
  <2> HIDE DEF tries
  <2>3. QED
    BY <2>1, <2>2, DeliveryAssumption
<1>3. [call[d] EXCEPT !.pc = "post", !.try = @ + 1] \in Call
  BY <1>1, <1>2 DEF Call
<1>4. QED
  BY <1>3 DEF TypeOK, Again

LEMMA OnwardTyped ==
    ASSUME TypeOK, NEW d \in Dispatches, NEW noted \in BOOLEAN, Onward(d, noted)
    PROVE  call' \in [Dispatches -> Call] /\ outcome' = outcome
<1>1. call[d] \in Call /\ 1 \in 1 .. Attempts
  BY DeliveryAssumption DEF TypeOK
<1> DEFINE next == [call[d] EXCEPT !.pc = "post", !.part = 2, !.try = 1, !.notice = noted]
<1>2. next \in Call
  <2>1. 2 \in Parts /\ noted \in BOOLEAN
    BY DEF Parts
  <2>2. QED
    BY <1>1, <2>1 DEF Call
<1>3. QED
  BY <1>2 DEF TypeOK, Onward

LEMMA ServeTyped ==
    ASSUME TypeOK, NEW d \in Dispatches, NEW noted \in BOOLEAN,
           NEW s \in Promise!Served, Serve(d, s, noted)
    PROVE  /\ call' \in [Dispatches -> Call]
           /\ outcome' \in [Dispatches -> [Recipients -> Outcome]]
<1>1. call[d] \in Call /\ call[d].to \in 1 .. Fanout /\ 1 \in 1 .. Attempts
  BY DeliveryAssumption DEF TypeOK, Call, Recipients
<1>2. [status |-> s, notice |-> noted] \in Outcome
  BY DEF Outcome, Promise!Served
<1>3. [call[d] EXCEPT !.pc = "done"] \in Call
  BY <1>1 DEF Call
<1>4. CASE call[d].to = Fanout
  BY <1>1, <1>2, <1>3, <1>4 DEF TypeOK, Serve
<1>5. CASE call[d].to # Fanout
  <2>1. [pc |-> "post", to |-> call[d].to + 1, part |-> 1, try |-> 1, notice |-> FALSE] \in Call
    BY <1>1, <1>5, DeliveryAssumption DEF Call, Recipients, Parts
  <2>2. QED
    BY <1>1, <1>2, <1>5, <2>1 DEF TypeOK, Serve
<1>6. QED
  BY <1>4, <1>5

\* Every way the response to a post is dealt with.
LEMMA ConcludeCases ==
    ASSUME TypeOK, NEW d \in Dispatches, NEW ok \in BOOLEAN, Conclude(d, ok)
    PROVE  \/ \E noted \in BOOLEAN : (noted => ok) /\ Onward(d, noted)
           \/ \E noted \in BOOLEAN :
                /\ call[d].part = 1 /\ (noted => ok)
                /\ Serve(d, "handed", noted)
           \/ /\ call[d].part = 2
              /\ \E s \in Promise!Served :
                    (s = "delivered" => ok) /\ Serve(d, s, call[d].notice)
<1>1. call[d].part \in {1, 2}
  BY DEF TypeOK, Call, Parts
<1>2. CASE call[d].part = 1
  BY <1>2 DEF Conclude
<1>3. CASE call[d].part = 2
  <2>1. call[d].part # 1
    BY <1>3
  <2> DEFINE s == IF call[d].to = 1 THEN "handed" ELSE IF ok THEN "delivered" ELSE "failed"
  <2>2. Serve(d, s, call[d].notice)
    BY <2>1 DEF Conclude
  <2>3. s \in Promise!Served /\ (s = "delivered" => ok)
    BY DEF Promise!Served
  <2> HIDE DEF s
  <2>4. QED
    BY <1>3, <2>2, <2>3
<1>4. QED
  BY <1>1, <1>2, <1>3

LEMMA ConcludeTyped ==
    ASSUME TypeOK, NEW d \in Dispatches, NEW ok \in BOOLEAN, Conclude(d, ok)
    PROVE  /\ call' \in [Dispatches -> Call]
           /\ outcome' \in [Dispatches -> [Recipients -> Outcome]]
<1>1. call[d].notice \in BOOLEAN /\ "handed" \in Promise!Served
  BY DEF TypeOK, Call, Promise!Served
<1>2. outcome \in [Dispatches -> [Recipients -> Outcome]]
  BY DEF TypeOK
<1>3. QED
  BY <1>1, <1>2, ConcludeCases, OnwardTyped, ServeTyped

LEMMA TypeStep ==
    ASSUME TypeOK, [Next]_deliveryVars
    PROVE  TypeOK'
<1>1. ASSUME NEW d \in Dispatches, Start(d)
      PROVE  TypeOK'
  BY <1>1 DEF TypeOK, Start, Call
<1>2. ASSUME NEW d \in Dispatches, Send(d)
      PROVE  TypeOK'
  <2>1. Awaited(d) \in Post
    BY DEF TypeOK, Awaited, Post, Call
  <2>2. QED
    BY <1>2, <2>1 DEF TypeOK, Send, Call
<1>3. ASSUME NEW d \in Dispatches, Read(d)
      PROVE  TypeOK'
  <2>1. answer' \in [Dispatches -> Answers]
    BY <1>3 DEF TypeOK, Read, Answers
  <2>2. (answer[d] = "ok") \in BOOLEAN /\ outcome \in [Dispatches -> [Recipients -> Outcome]]
    BY DEF TypeOK
  <2>3. QED
    BY <1>3, <2>1, <2>2, AgainTyped, ConcludeTyped DEF TypeOK, Read
<1>4. ASSUME NEW d \in Dispatches, Timeout(d)
      PROVE  TypeOK'
  <2>1. answer' \in [Dispatches -> Answers]
    BY <1>4 DEF TypeOK, Timeout, Answers
  <2>2. outcome \in [Dispatches -> [Recipients -> Outcome]]
    BY DEF TypeOK
  <2>3. QED
    BY <1>4, <2>1, <2>2, AgainTyped, ConcludeTyped DEF TypeOK, Timeout
<1>5. ASSUME NEW d \in Dispatches, Deadline(d)
      PROVE  TypeOK'
  BY <1>5 DEF TypeOK, Deadline, Call, Outcome, Answers
<1>6. ASSUME NEW d \in Dispatches, Abandon(d)
      PROVE  TypeOK'
  BY <1>6 DEF TypeOK, Abandon, Call, Answers
<1>7. ASSUME NEW m \in wire, NEW a \in Answers, NEW taken \in BOOLEAN, Peer(m, a, taken)
      PROVE  TypeOK'
  BY <1>7 DEF TypeOK, Peer, Post
<1>8. CASE UNCHANGED deliveryVars
  BY <1>8 DEF TypeOK, deliveryVars
<1>9. QED
  BY <1>1, <1>2, <1>3, <1>4, <1>5, <1>6, <1>7, <1>8 DEF Next, Step

LEMMA InitTyped == Init => TypeOK
<1>1. 1 \in Recipients /\ 1 \in Parts /\ 1 \in 1 .. Attempts
  BY DeliveryAssumption DEF Recipients, Parts
<1>2. QED
  BY <1>1 DEF Init, TypeOK, Call, Answers, Outcome, Unreported

\* A dispatch, its posts and its outcomes keep their types for any number of recipients
\* and attempts (ecosystem_dispatch.py 20-74, memora_events.py 100-160).
THEOREM DeliveryTyped == Spec => []TypeOK
<1>1. TypeOK /\ [Next]_deliveryVars => TypeOK'
  BY TypeStep
<1>2. QED
  BY InitTyped, <1>1, PTL DEF Spec

-----------------------------------------------------------------------------
(* The response to a post *)

\* Going on with the same recipient leaves every report as it is.
LEMMA SameRecipient ==
    ASSUME HandoffInv, NEW d \in Dispatches, call[d].pc = "wait",
           NEW noted \in BOOLEAN, noted => <<d, call[d].to, 1>> \in Arrived,
           UNCHANGED <<wire, received>>, answer' = [answer EXCEPT ![d] = "none"],
           \/ Again(d) /\ noted = call[d].notice
           \/ Onward(d, noted)
    PROVE  OrderInv' /\ WireInv' /\ TakenInv' /\ UNCHANGED <<Arrived, outcome>>
<1>1. UNCHANGED <<Arrived, outcome>>
  BY ArrivedStays DEF Again, Onward
<1>2. /\ call[d] \in Call /\ call'[d].pc = "post" /\ call'[d].to = call[d].to
      /\ call'[d].notice = noted
      /\ \A e \in Dispatches \ {d} : call'[e] = call[e]
  BY DEF HandoffInv, TypeOK, Call, Again, Onward
<1>3. OrderInv'
  BY <1>1, <1>2 DEF HandoffInv, OrderInv, ServedBefore
<1>4. WireInv'
  BY <1>1 DEF HandoffInv, WireInv, ServedBefore
<1>5. TakenInv'
  BY <1>1, <1>2 DEF HandoffInv, TypeOK, TakenInv, Busy
<1>6. QED
  BY <1>1, <1>3, <1>4, <1>5

\* Serving the recipient at hand is a step of Handoff.
LEMMA Served ==
    ASSUME HandoffInv, NEW d \in Dispatches, call[d].pc = "wait",
           NEW s \in Promise!Served, NEW noted \in BOOLEAN,
           s = "delivered" => <<d, call[d].to, 2>> \in Arrived,
           noted => <<d, call[d].to, 1>> \in Arrived,
           UNCHANGED <<wire, received>>, answer' = [answer EXCEPT ![d] = "none"],
           Serve(d, s, noted)
    PROVE  OrderInv' /\ WireInv' /\ TakenInv' /\ Promise!Next
<1> DEFINE q == call[d].to
<1>1. Arrived' = Arrived
  BY ArrivedStays
<1>2. call[d] \in Call /\ q \in 1 .. Fanout /\ Fanout \in Nat
  BY DeliveryAssumption DEF HandoffInv, TypeOK, Call, Recipients
<1>3. /\ outcome' = [outcome EXCEPT ![d][q] = [status |-> s, notice |-> noted]]
      /\ outcome'[d][q].status = s
      /\ \A p \in Recipients \ {q} : outcome'[d][p] = outcome[d][p]
      /\ \A e \in Dispatches \ {d} : outcome'[e] = outcome[e]
  BY <1>2 DEF HandoffInv, TypeOK, Serve, Recipients
<1>4. ServedBefore(d, q) /\ outcome[d][q] = Unreported
  BY <1>2 DEF HandoffInv, OrderInv, Recipients
<1>5. Promise!Next
  <2>1. Promise!Serve(d, q, s, noted)
    BY <1>1, <1>3, <1>4 DEF Promise!Serve, Promise!Unreported, Unreported, ServedBefore
  <2>2. q \in Promise!Recipients
    BY <1>2 DEF Promise!Recipients
  <2>3. QED
    BY <2>1, <2>2 DEF Promise!Next
<1>6. /\ \A e \in Dispatches \ {d} : call'[e] = call[e]
      /\ \/ q = Fanout /\ call'[d].pc = "done"
         \/ /\ q < Fanout /\ call'[d].pc = "post" /\ call'[d].to = q + 1
            /\ call'[d].notice = FALSE
  <2>1. CASE q = Fanout
    BY <1>2, <2>1 DEF HandoffInv, TypeOK, Serve
  <2>2. CASE q # Fanout
    <3>1. call' = [call EXCEPT ![d] =
                     [pc |-> "post", to |-> q + 1, part |-> 1, try |-> 1, notice |-> FALSE]]
      BY <1>2, <2>2 DEF HandoffInv, TypeOK, Serve
    <3>2. call'[d] = [pc |-> "post", to |-> q + 1, part |-> 1, try |-> 1, notice |-> FALSE]
      BY <3>1 DEF HandoffInv, TypeOK
    <3>3. q < Fanout
      BY <1>2, <2>2
    <3>4. QED
      BY <3>1, <3>2, <3>3 DEF HandoffInv, TypeOK
  <2>3. QED
    BY <2>1, <2>2
<1>7. \A e \in Dispatches, r \in Recipients : ServedBefore(e, r) => ServedBefore(e, r)'
  BY <1>2, <1>3 DEF ServedBefore, Recipients
<1>8. \A p \in 1 .. q : outcome'[d][p].status \in Promise!Served
  <2>1. SUFFICES ASSUME NEW p \in 1 .. q, p # q
                 PROVE  outcome'[d][p].status \in Promise!Served
    BY <1>3
  <2>2. p \in 1 .. q - 1 /\ p \in Recipients \ {q}
    BY <1>2, <2>1 DEF Recipients
  <2>3. QED
    BY <1>3, <1>4, <2>2 DEF ServedBefore
<1>9. OrderInv'
  <2>1. SUFFICES ASSUME NEW e \in Dispatches, call'[e].pc \in {"idle", "post", "wait"}
                 PROVE  /\ ServedBefore(e, call[e].to)'
                        /\ \A r \in Recipients : r >= call'[e].to => outcome'[e][r] = Unreported
    BY DEF OrderInv
  <2>2. CASE e = d
    <3>1. call'[d].to = q + 1
      BY <1>6, <2>1, <2>2
    <3>2. \A r \in Recipients : r >= q + 1 => outcome'[d][r] = Unreported
      BY <1>2, <1>3 DEF HandoffInv, OrderInv, Recipients
    <3>3. ServedBefore(d, call[d].to)'
      <4>1. call'[d].to - 1 = q
        BY <1>2, <3>1
      <4>2. QED
        BY <1>8, <4>1 DEF ServedBefore
    <3>4. QED
      BY <2>2, <3>1, <3>2, <3>3
  <2>3. CASE e # d
    BY <1>3, <1>6, <2>1, <2>3 DEF HandoffInv, OrderInv, ServedBefore
  <2>4. QED
    BY <2>2, <2>3
<1>10. WireInv'
  BY <1>7 DEF HandoffInv, TypeOK, Post, WireInv
<1>11. TakenInv'
  BY <1>1, <1>6 DEF HandoffInv, TypeOK, TakenInv, Busy
<1>12. QED
  BY <1>5, <1>9, <1>10, <1>11

LEMMA Concluded ==
    ASSUME HandoffInv, NEW d \in Dispatches, call[d].pc = "wait", NEW ok \in BOOLEAN,
           ok => <<d, call[d].to, call[d].part>> \in Arrived,
           UNCHANGED <<wire, received>>, answer' = [answer EXCEPT ![d] = "none"],
           Conclude(d, ok)
    PROVE  OrderInv' /\ WireInv' /\ TakenInv' /\ [Promise!Next]_<<Arrived, outcome>>
<1>1. TypeOK /\ call[d].part \in {1, 2} /\ call[d].notice \in BOOLEAN
  BY DEF HandoffInv, TypeOK, Call, Parts
<1>2. CASE \E noted \in BOOLEAN : (noted => ok) /\ Onward(d, noted)
  <2>1. PICK noted \in BOOLEAN : (noted => ok) /\ Onward(d, noted)
    BY <1>2
  <2>2. noted => <<d, call[d].to, 1>> \in Arrived
    BY <2>1 DEF Onward
  <2>3. QED
    BY <2>1, <2>2, SameRecipient
<1>3. CASE \E noted \in BOOLEAN : /\ call[d].part = 1 /\ (noted => ok)
                                  /\ Serve(d, "handed", noted)
  <2>1. PICK noted \in BOOLEAN : /\ call[d].part = 1 /\ (noted => ok)
                                 /\ Serve(d, "handed", noted)
    BY <1>3
  <2>2. "handed" \in Promise!Served /\ (noted => <<d, call[d].to, 1>> \in Arrived)
    BY <2>1 DEF Promise!Served
  <2>3. QED
    BY <2>1, <2>2, Served
<1>4. CASE /\ call[d].part = 2
           /\ \E s \in Promise!Served :
                 (s = "delivered" => ok) /\ Serve(d, s, call[d].notice)
  <2>1. PICK s \in Promise!Served : (s = "delivered" => ok) /\ Serve(d, s, call[d].notice)
    BY <1>4
  <2>2. call[d].notice => <<d, call[d].to, 1>> \in Arrived
    BY DEF HandoffInv, TakenInv, Busy
  <2>3. QED
    BY <1>1, <1>4, <2>1, <2>2, Served
<1>5. QED
  BY <1>1, <1>2, <1>3, <1>4, ConcludeCases

-----------------------------------------------------------------------------
(* The other steps *)

LEMMA StartStep ==
    ASSUME HandoffInv, NEW d \in Dispatches, Start(d)
    PROVE  OrderInv' /\ WireInv' /\ TakenInv' /\ [Promise!Next]_<<Arrived, outcome>>
<1>1. UNCHANGED <<Arrived, outcome>>
  BY ArrivedStays DEF Start
<1>2. /\ call'[d].pc = "post" /\ call'[d].to = call[d].to
      /\ call'[d].notice = call[d].notice /\ ~call[d].notice
      /\ \A e \in Dispatches \ {d} : call'[e] = call[e]
  BY DEF HandoffInv, TypeOK, Call, Start, TakenInv
<1>3. OrderInv'
  BY <1>1, <1>2 DEF HandoffInv, OrderInv, ServedBefore, Start
<1>4. WireInv' /\ TakenInv'
  BY <1>1, <1>2 DEF HandoffInv, WireInv, TakenInv, ServedBefore, Busy, Start
<1>5. QED
  BY <1>1, <1>3, <1>4

LEMMA SendStep ==
    ASSUME HandoffInv, NEW d \in Dispatches, Send(d)
    PROVE  OrderInv' /\ WireInv' /\ TakenInv' /\ [Promise!Next]_<<Arrived, outcome>>
<1>1. UNCHANGED <<Arrived, outcome, answer>>
  BY ArrivedStays DEF Send
<1>2. /\ call'[d].pc = "wait" /\ call'[d].to = call[d].to /\ call'[d].part = call[d].part
      /\ call'[d].notice = call[d].notice
      /\ \A e \in Dispatches \ {d} : call'[e] = call[e]
  BY DEF HandoffInv, TypeOK, Call, Send
<1>3. OrderInv'
  BY <1>1, <1>2 DEF HandoffInv, OrderInv, ServedBefore, Send
<1>4. WireInv'
  BY <1>1 DEF HandoffInv, OrderInv, WireInv, ServedBefore, Awaited, Send
<1>5. TakenInv'
  BY <1>1, <1>2 DEF HandoffInv, TakenInv, Busy, Send
<1>6. QED
  BY <1>1, <1>3, <1>4, <1>5

LEMMA AgainStep ==
    ASSUME HandoffInv, NEW d \in Dispatches, call[d].pc = "wait", Again(d),
           UNCHANGED <<wire, received>>, answer' = [answer EXCEPT ![d] = "none"]
    PROVE  OrderInv' /\ WireInv' /\ TakenInv' /\ [Promise!Next]_<<Arrived, outcome>>
<1>1. /\ call[d].notice \in BOOLEAN
      /\ call[d].notice => <<d, call[d].to, 1>> \in Arrived
  BY DEF HandoffInv, TypeOK, Call, TakenInv, Busy
<1>2. QED
  BY <1>1, SameRecipient

LEMMA ReadStep ==
    ASSUME HandoffInv, NEW d \in Dispatches, Read(d)
    PROVE  OrderInv' /\ WireInv' /\ TakenInv' /\ [Promise!Next]_<<Arrived, outcome>>
<1>1. CASE Again(d)
  BY <1>1, AgainStep DEF Read
<1>2. CASE Conclude(d, answer[d] = "ok")
  <2>1. answer[d] = "ok" => <<d, call[d].to, call[d].part>> \in Arrived
    BY DEF HandoffInv, TakenInv
  <2>2. (answer[d] = "ok") \in BOOLEAN
    OBVIOUS
  <2>3. QED
    BY <1>2, <2>1, <2>2, Concluded DEF Read
<1>3. QED
  BY <1>1, <1>2 DEF Read

LEMMA TimeoutStep ==
    ASSUME HandoffInv, NEW d \in Dispatches, Timeout(d)
    PROVE  OrderInv' /\ WireInv' /\ TakenInv' /\ [Promise!Next]_<<Arrived, outcome>>
<1>1. CASE Again(d)
  BY <1>1, AgainStep DEF Timeout
<1>2. CASE Conclude(d, FALSE)
  BY <1>2, Concluded DEF Timeout
<1>3. QED
  BY <1>1, <1>2 DEF Timeout

\* The deadline reports those not served as skipped and keeps every other report.
LEMMA DeadlineStep ==
    ASSUME HandoffInv, NEW d \in Dispatches, Deadline(d)
    PROVE  OrderInv' /\ WireInv' /\ TakenInv' /\ [Promise!Next]_<<Arrived, outcome>>
<1>1. Arrived' = Arrived
  BY ArrivedStays DEF Deadline
<1>2. /\ call'[d].pc = "done"
      /\ \A e \in Dispatches \ {d} : call'[e] = call[e] /\ outcome'[e] = outcome[e]
      /\ outcome' = [outcome EXCEPT ![d] =
                       [q \in Recipients |->
                          IF outcome[d][q] = Unreported
                          THEN [status |-> "skipped", notice |-> FALSE]
                          ELSE outcome[d][q]]]
  BY DEF HandoffInv, TypeOK, Call, Deadline
<1>3. \A r \in Recipients :
         outcome[d][r].status \in Promise!Served => outcome'[d][r] = outcome[d][r]
  BY <1>2 DEF HandoffInv, TypeOK, Promise!Served, Unreported
<1>4. \A e \in Dispatches, r \in Recipients : ServedBefore(e, r) => ServedBefore(e, r)'
  <2>1. \A r \in Recipients : \A p \in 1 .. r - 1 : p \in Recipients
    BY DeliveryAssumption DEF Recipients
  <2>2. QED
    BY <1>2, <1>3, <2>1 DEF ServedBefore
<1>5. \E q \in Promise!Recipients : outcome[d][q] = Promise!Unreported
  <2>1. call[d].to \in Recipients /\ call[d].to \in Int /\ call[d].pc \in {"post", "wait"}
    BY DeliveryAssumption DEF HandoffInv, TypeOK, Call, Deadline, Busy, Recipients
  <2>2. outcome[d][call[d].to] = Unreported
    BY <2>1 DEF HandoffInv, OrderInv
  <2>3. QED
    BY <2>1, <2>2 DEF Recipients, Promise!Recipients, Unreported, Promise!Unreported
<1>6. Promise!Expire(d)
  BY <1>1, <1>2, <1>5 DEF Promise!Expire, Promise!Recipients, Promise!Unreported,
                          Recipients, Unreported
<1>7. OrderInv'
  BY <1>2 DEF HandoffInv, OrderInv, ServedBefore
<1>8. WireInv'
  BY <1>4 DEF HandoffInv, TypeOK, Post, WireInv, Deadline
<1>9. TakenInv'
  BY <1>1, <1>2 DEF HandoffInv, TypeOK, TakenInv, Busy, Deadline
<1>10. QED
  BY <1>6, <1>7, <1>8, <1>9 DEF Promise!Next

LEMMA AbandonStep ==
    ASSUME HandoffInv, NEW d \in Dispatches, Abandon(d)
    PROVE  OrderInv' /\ WireInv' /\ TakenInv' /\ [Promise!Next]_<<Arrived, outcome>>
<1>1. UNCHANGED <<Arrived, outcome>>
  BY ArrivedStays DEF Abandon
<1>2. /\ call'[d].pc = "gone"
      /\ \A e \in Dispatches \ {d} : call'[e] = call[e]
  BY DEF HandoffInv, TypeOK, Call, Abandon
<1>3. OrderInv'
  BY <1>1, <1>2 DEF HandoffInv, OrderInv, ServedBefore
<1>4. WireInv' /\ TakenInv'
  BY <1>1, <1>2 DEF HandoffInv, TypeOK, WireInv, TakenInv, ServedBefore, Busy, Abandon
<1>5. QED
  BY <1>1, <1>3, <1>4

\* A post that a peer takes reaches its recipient when those before it have been served.
LEMMA PeerStep ==
    ASSUME HandoffInv, NEW m \in wire, NEW a \in Answers, NEW taken \in BOOLEAN,
           Peer(m, a, taken)
    PROVE  OrderInv' /\ WireInv' /\ TakenInv' /\ [Promise!Next]_<<Arrived, outcome>>
<1>1. m \in Post /\ UNCHANGED <<call, outcome>>
  BY DEF HandoffInv, TypeOK, Peer
<1>2. Arrived' = IF taken THEN Arrived \cup {<<m.by, m.to, m.part>>} ELSE Arrived
  BY DEF Peer, Arrived
<1>3. Arrived \subseteq Arrived'
  BY <1>2
<1>4. [Promise!Next]_<<Arrived, outcome>>
  <2>1. CASE taken
    <3>1. Promise!Reach(m.by, m.to, m.part)
      BY <1>1, <1>2, <2>1 DEF HandoffInv, WireInv, ServedBefore, Promise!Reach
    <3>2. m.by \in Dispatches /\ m.to \in Promise!Recipients /\ m.part \in Promise!Parts
      BY <1>1 DEF Post, Recipients, Parts, Promise!Recipients, Promise!Parts
    <3>3. QED
      BY <3>1, <3>2 DEF Promise!Next
  <2>2. CASE ~taken
    BY <1>1, <1>2, <2>2
  <2>3. QED
    BY <2>1, <2>2
<1>5. OrderInv'
  BY <1>1 DEF HandoffInv, OrderInv, ServedBefore
<1>6. WireInv'
  BY <1>1 DEF HandoffInv, WireInv, ServedBefore, Peer
<1>7. TakenInv'
  <2>1. SUFFICES ASSUME NEW d \in Dispatches
                 PROVE  /\ answer'[d] # "none" => call[d].pc = "wait"
                        /\ answer'[d] = "ok" => <<d, call[d].to, call[d].part>> \in Arrived'
    BY <1>1, <1>3 DEF HandoffInv, TakenInv, Busy
  <2>2. CASE answer'[d] = answer[d]
    BY <1>3, <2>2 DEF HandoffInv, TakenInv
  <2>3. CASE answer'[d] # answer[d]
    <3>1. d = m.by /\ call[d].pc = "wait" /\ m = Awaited(d) /\ answer'[d] = a
      BY <2>3 DEF HandoffInv, TypeOK, Peer
    <3>2. a = "ok" => <<d, call[d].to, call[d].part>> \in Arrived'
      BY <1>2, <3>1 DEF Peer, Awaited
    <3>3. QED
      BY <3>1, <3>2
  <2>4. QED
    BY <2>2, <2>3
<1>8. QED
  BY <1>4, <1>5, <1>6, <1>7

-----------------------------------------------------------------------------
LEMMA HandoffStep ==
    ASSUME HandoffInv, [Next]_deliveryVars
    PROVE  HandoffInv' /\ [Promise!Next]_<<Arrived, outcome>>
<1>1. TypeOK'
  BY TypeStep DEF HandoffInv
<1>2. CASE UNCHANGED deliveryVars
  <2>1. UNCHANGED <<Arrived, outcome>>
    BY <1>2, ArrivedStays DEF deliveryVars
  <2>2. OrderInv' /\ WireInv' /\ TakenInv'
    BY <1>2, <2>1 DEF HandoffInv, deliveryVars, OrderInv, WireInv, TakenInv, ServedBefore,
                      Busy
  <2>3. QED
    BY <1>1, <2>1, <2>2 DEF HandoffInv
<1>3. CASE Next
  BY <1>1, <1>3, StartStep, SendStep, ReadStep, TimeoutStep, DeadlineStep, AbandonStep,
     PeerStep DEF HandoffInv, Next, Step
<1>4. QED
  BY <1>2, <1>3

LEMMA HandoffStarts == Init => HandoffInv /\ Promise!Init
<1>1. Init => TypeOK
  BY InitTyped
<1>2. Init => Promise!Init
  BY DEF Init, Promise!Init, Arrived, Unreported, Promise!Unreported, Recipients,
         Promise!Recipients
<1>3. Init => OrderInv /\ WireInv /\ TakenInv
  BY DeliveryAssumption DEF Init, OrderInv, WireInv, TakenInv, ServedBefore, Busy
<1>4. QED
  BY <1>1, <1>2, <1>3 DEF HandoffInv

\* However many dispatches, recipients and attempts there are: outcomes are final and in
\* order, what is reported delivered arrived, and a dispatch whose time is up reaches
\* nobody but the recipient it was busy with (ecosystem_dispatch.py 20-74,
\* memora_events.py 100-160).
THEOREM DeliveryImplementsHandoff == Spec => ImplementsHandoff
<1>1. HandoffInv /\ [Next]_deliveryVars
        => HandoffInv' /\ [Promise!Next]_<<Arrived, outcome>>
  BY HandoffStep
<1>2. QED
  BY HandoffStarts, <1>1, PTL DEF Spec, ImplementsHandoff, Promise!Spec

=============================================================================
