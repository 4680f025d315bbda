------------------------------ MODULE RowStore ------------------------------
(***************************************************************************)
(* What the registries behind the threat-intelligence routes have in       *)
(* common: each is a singleton of its process that keeps rows in           *)
(* dictionaries under fresh identifiers, filled by requests that name what *)
(* earlier ones were answered with, perhaps by another replica or before a *)
(* restart.  A request is carried out in one go: no handler waits inside.  *)
(* The operations are the engines' methods; a few have no route of their   *)
(* own (correlate_campaigns, add_attribution_indicator, add_source,        *)
(* generate_report, create_policy) and are taken as called all the same.   *)
(***************************************************************************)
EXTENDS Naturals, FiniteSets

CONSTANTS
    Processes,    \* the replicas
    Desks,        \* the registries looked at, one at a time
    Tags,         \* event types, tags, techniques and places, as far as rows share them
    Room          \* bound on the rows ever made at each desk

\* What the parameters are; the instance that gives them assumes it.
RegistriesAssumption == IsFiniteSet(Tags)

VARIABLES
    desk,      \* the registry in use
    store,     \* the rows of each process
    next       \* the next identifier

registryVars == <<desk, store, next>>

Unknown == 0
Ids == UNION {1..Room[d] : d \in Desks}
Row(kind, id, refs, tags, mark) ==
    [kind |-> kind, id |-> id, refs |-> refs, tags |-> tags, mark |-> mark]

Of(p, kind) == {row \in store[p] : row.kind = kind}
Has(p, kind, id) == \E row \in Of(p, kind) : row.id = id
The(p, id) == CHOOSE row \in store[p] : row.id = id

\* What a request may name: anything handed out by any process, or nothing that exists.
Named == Unknown..(next - 1)

\* The rows a registry starts with: the techniques of the knowledge base, the sources of
\* the collector, one of which is an interface of the kind "api".
Seeds(n) ==
    CASE desk = "knowledge" -> {Row("ttp", n, {}, {}, "")}
      [] desk = "collector" -> {Row("source", n, {}, {}, "api"), Row("source", n + 1, {}, {}, "web")}
      [] OTHER -> {}

TypeOK ==
    /\ desk \in Desks
    /\ next \in Nat \ {0}
    /\ store \in [Processes -> SUBSET [kind : STRING, id : Ids, refs : SUBSET (Ids \union {Unknown}),
                                       tags : SUBSET Tags, mark : STRING]]

Init ==
    /\ desk \in Desks
    /\ store = [p \in Processes |-> {}]
    /\ next = 1

Put(p, rows) ==
    /\ next + Cardinality(rows) - 1 <= Room[desk]
    /\ store' = [store EXCEPT ![p] = @ \union rows]
    /\ next' = next + Cardinality(rows)
    /\ UNCHANGED desk

\* A row replaced, and rows added.
PutFor(p, old, new, rows) ==
    /\ next + Cardinality(rows) - 1 <= Room[desk]
    /\ store' = [store EXCEPT ![p] = (@ \ {old}) \union {new} \union rows]
    /\ next' = next + Cardinality(rows)
    /\ UNCHANGED desk

\* A numbering of a set of things to make rows of.
Numbered(S) == CHOOSE f \in [S -> 0..(Cardinality(S) - 1)] : \A x, y \in S : f[x] = f[y] => x = y

\* A process starts, or starts again, with what its registry starts with.
Start(p) ==
    /\ Seeds(next) # {} \/ store[p] # {}
    /\ next + Cardinality(Seeds(next)) - 1 <= Room[desk]
    /\ store' = [store EXCEPT ![p] = Seeds(next)]
    /\ next' = next + Cardinality(Seeds(next))
    /\ UNCHANGED desk

\* A process that is up has at least what its registry starts with.
Ready(p) == Seeds(next) = {} \/ store[p] # {}
=============================================================================
