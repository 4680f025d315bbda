------------------------------ MODULE ThreatFile ------------------------------
(***************************************************************************)
(* The indicator engine and its state file                                 *)
(* (services/real_threat_intel_engine.py).                                 *)
(*                                                                         *)
(* Every process that imports the module has an engine: it loads the file  *)
(* once, keeps everything in memory and after each change writes all of it *)
(* back, truncating the file first.  A file that cannot be read loads as   *)
(* nothing, without a word, and so is a save that fails.                   *)
(***************************************************************************)
EXTENDS Integers, FiniteSets

CONSTANTS
    Processes,  \* processes with an engine
    Values,     \* indicator values
    MaxReports  \* bound: reports per engine's memory

\* What the parameters are; the instance that gives them assumes it.
ThreatFileAssumption == IsFiniteSet(Values) /\ MaxReports \in Nat

VARIABLES
    engine,     \* [Processes -> Engine]
    file,       \* [kind, state]: absent, torn or whole
    kept,       \* indicators an engine said it stored, saved or not (ghost)
    overlapped, \* two engines were up at once (ghost)
    torn        \* a process went down in a save, or after one that failed (ghost)

threatVars == <<engine, file, kept, overlapped, torn>>

\* found: indicators.  strays: a campaign or a caller's report lists one nobody looked up.
\* reports: of ingestions, each with the indicators it lists.  behind: the last save failed.
\* todo: the values an ingestion has still to store, cites: those it is to report.
State == [found : SUBSET Values, campaign : BOOLEAN, strays : BOOLEAN,
          reports : SUBSET (SUBSET Values)]
Engine == [pc : {"down", "up", "saving"}, state : State, behind : BOOLEAN,
           todo : SUBSET Values, cites : SUBSET Values]

File == [kind : {"none", "torn", "whole"}, state : State]

Nothing == [found |-> {}, campaign |-> FALSE, strays |-> FALSE, reports |-> {}]
TornFile == [kind |-> "torn", state |-> Nothing]
Down == [pc |-> "down", state |-> Nothing, behind |-> FALSE, todo |-> {}, cites |-> {}]

TypeOK ==
    /\ engine \in [Processes -> Engine]
    /\ file \in File
    /\ kept \subseteq Values
    /\ overlapped \in BOOLEAN /\ torn \in BOOLEAN

Init ==
    /\ engine = [p \in Processes |-> Down]
    /\ file = [kind |-> "none", state |-> Nothing]
    /\ kept = {} /\ overlapped = FALSE /\ torn = FALSE

Up(p) == engine[p].pc # "down"
\* A file that is absent or cannot be parsed is an empty state.
Loaded == file.state

Start(p) ==
    /\ ~Up(p)
    /\ engine' = [engine EXCEPT ![p] = [Down EXCEPT !.pc = "up", !.state = Loaded]]
    /\ overlapped' = (overlapped \/ \E q \in Processes : Up(q))
    /\ UNCHANGED <<file, kept, torn>>

\* A change in memory, then the file opened for writing, which truncates it or fails: nobody
\* is told.
Change(p, e) ==
    /\ \/ /\ engine' = [engine EXCEPT ![p] = [e EXCEPT !.pc = "saving"]]
          /\ file' = TornFile
          /\ UNCHANGED kept
       \/ /\ engine' = [engine EXCEPT ![p] = [e EXCEPT !.behind = TRUE]]
          /\ kept' = kept \cup e.state.found
          /\ UNCHANGED file
    /\ UNCHANGED <<overlapped, torn>>

Ready(p) == engine[p].pc = "up" /\ engine[p].cites = {}

AddIndicator(p, v) ==
    /\ Ready(p)
    /\ v \notin engine[p].state.found
    /\ Change(p, [engine[p] EXCEPT !.state.found = @ \cup {v}])

CorrelateIndicators(p) ==
    /\ Ready(p)
    /\ Change(p, engine[p])

\* A campaign and a caller's report take whatever indicators they are given, stray or not;
\* only a link added later is looked up.
TrackCampaign(p, stray) ==
    /\ Ready(p)
    /\ ~engine[p].state.campaign
    /\ Change(p, [engine[p] EXCEPT !.state.campaign = TRUE, !.state.strays = @ \/ stray])

GenerateReport(p, stray) ==
    /\ Ready(p)
    /\ Change(p, [engine[p] EXCEPT !.state.strays = @ \/ stray])

LinkIndicator(p, v) ==
    /\ Ready(p)
    /\ engine[p].state.campaign /\ v \in engine[p].state.found
    /\ Change(p, engine[p])

\* Documents with these values: the ones the engine does not have are added and saved one by
\* one, then a report cites them all.
IngestResearch(p, values) ==
    /\ Ready(p)
    /\ values # {}
    /\ Cardinality(engine[p].state.reports) < MaxReports
    /\ engine' = [engine EXCEPT ![p].todo = values \ engine[p].state.found,
                              ![p].cites = values]
    /\ UNCHANGED <<file, kept, overlapped, torn>>

IngestNext(p) ==
    /\ engine[p].pc = "up"
    /\ \E v \in engine[p].todo :
         Change(p, [engine[p] EXCEPT !.todo = @ \ {v}, !.state.found = @ \cup {v}])

IngestReport(p) ==
    /\ engine[p].pc = "up"
    /\ engine[p].cites # {} /\ engine[p].todo = {}
    /\ Change(p, [engine[p] EXCEPT !.state.reports = @ \cup {engine[p].cites},
                                   !.cites = {}])

\* The dump; over what another process wrote meanwhile it may leave a mixture.
Written(p, state) ==
    {[kind |-> "whole", state |-> state]}
    \cup {TornFile : q \in {r \in Processes \ {p} : Up(r)}}

\* Mutant: only what is reported is written.
DumpReferenced(p) ==
    /\ engine[p].pc = "saving"
    /\ engine' = [engine EXCEPT ![p].pc = "up", ![p].behind = FALSE]
    /\ file' \in Written(p, [engine[p].state EXCEPT !.found = UNION engine[p].state.reports])
    /\ kept' = kept \cup engine[p].state.found
    /\ UNCHANGED <<overlapped, torn>>

Dump(p) ==
    /\ engine[p].pc = "saving"
    /\ engine' = [engine EXCEPT ![p].pc = "up", ![p].behind = FALSE]
    /\ file' \in Written(p, engine[p].state)
    /\ kept' = kept \cup engine[p].state.found
    /\ UNCHANGED <<overlapped, torn>>

\* What was begun is of no use, to anybody; over what another process wrote it may not show.
DumpFails(p) ==
    /\ engine[p].pc = "saving"
    /\ engine' = [engine EXCEPT ![p].pc = "up", ![p].behind = TRUE]
    /\ file' \in {file, TornFile}
    /\ kept' = kept \cup engine[p].state.found
    /\ UNCHANGED <<overlapped, torn>>

Stop(p) ==
    /\ Up(p)
    /\ engine' = [engine EXCEPT ![p] = Down]
    /\ torn' = (torn \/ engine[p].pc = "saving" \/ engine[p].behind)
    /\ UNCHANGED <<file, kept, overlapped>>

Next == \E p \in Processes :
    \/ Start(p) \/ CorrelateIndicators(p) \/ IngestNext(p) \/ IngestReport(p)
    \/ Dump(p) \/ DumpFails(p) \/ Stop(p)
    \/ \E v \in Values : AddIndicator(p, v) \/ LinkIndicator(p, v)
    \/ \E values \in SUBSET Values : IngestResearch(p, values)
    \/ \E stray \in BOOLEAN : TrackCampaign(p, stray) \/ GenerateReport(p, stray)

Spec == Init /\ [][Next]_threatVars

-----------------------------------------------------------------------------
(* Properties *)

Whole(s) == UNION s.reports \subseteq s.found

\* What can be lost and what cannot.  As long as engines ran one after the other and none
\* went down inside a save or after one that failed, every indicator an engine ever said it
\* stored is in the memory of the one that is up: a failed save is made good by the next.
\* And whatever was overwritten, torn or not saved, no ingestion's report in a state that
\* loads cites an indicator that state lacks, though campaigns and callers' reports may
\* (real_threat_intel_engine.py:180, :195, :247).
OneWriterKeepsAll ==
    /\ ~overlapped /\ ~torn =>
         \A p \in Processes : Up(p) => kept \subseteq engine[p].state.found
    /\ Whole(Loaded)
=============================================================================
