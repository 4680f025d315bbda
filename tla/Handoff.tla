------------------------------- MODULE Handoff -------------------------------
(***************************************************************************)
(* What handing a finished run to the ecosystem promises                   *)
(* (integrations/ecosystem_dispatch.py): each dispatch takes its           *)
(* recipients in order, reports one outcome for each, never revises it,    *)
(* reports nothing delivered that did not arrive, and once its time is up  *)
(* reaches nobody but the recipient it was busy with.                      *)
(***************************************************************************)
EXTENDS Integers

CONSTANTS
    Dispatches,  \* executions that hand the run over
    Fanout        \* recipients, numbered in the order they are served

Recipients == 1 .. Fanout

\* A delivery has two parts: the stored notice or brief, then the webhook or claims.
Parts == 1 .. 2

Statuses == {"none", "handed", "delivered", "failed", "skipped"}

Served == {"handed", "delivered", "failed"}

VARIABLES
    got,     \* what arrived: triples of dispatch, recipient and part
    report   \* [Dispatches -> [Recipients -> [status : Statuses, notice : BOOLEAN]]]

Unreported == [status |-> "none", notice |-> FALSE]

Init ==
    /\ got = {}
    /\ report = [d \in Dispatches |-> [q \in Recipients |-> Unreported]]

\* Something reaches q: every recipient before it has been served by then.
Reach(d, q, k) ==
    /\ \A p \in 1 .. q - 1 : report[d][p].status \in Served
    /\ got' = got \cup {<<d, q, k>>}
    /\ UNCHANGED report

\* A recipient is served: what the report says arrived did.
Serve(d, q, s, n) ==
    /\ \A p \in 1 .. q - 1 : report[d][p].status \in Served
    /\ report[d][q] = Unreported
    /\ s = "delivered" => <<d, q, 2>> \in got
    /\ n => <<d, q, 1>> \in got
    /\ report' = [report EXCEPT ![d][q] = [status |-> s, notice |-> n]]
    /\ UNCHANGED got

\* The deadline: every recipient not yet served is reported skipped, at once.
Expire(d) ==
    /\ \E q \in Recipients : report[d][q] = Unreported
    /\ report' = [report EXCEPT ![d] =
                    [q \in Recipients |->
                        IF report[d][q] = Unreported
                        THEN [status |-> "skipped", notice |-> FALSE]
                        ELSE report[d][q]]]
    /\ UNCHANGED got

Next ==
    \E d \in Dispatches :
        \/ \E q \in Recipients, k \in Parts : Reach(d, q, k)
        \/ \E q \in Recipients, s \in Served, n \in BOOLEAN : Serve(d, q, s, n)
        \/ Expire(d)

Spec == Init /\ [][Next]_<<got, report>>
=============================================================================
