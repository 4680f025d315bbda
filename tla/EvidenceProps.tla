---------------------------- MODULE EvidenceProps ----------------------------
(***************************************************************************)
(* What the claims, evidence rows, findings and reports of Evidence        *)
(* promise.                                                                *)
(***************************************************************************)
EXTENDS Evidence

\* What a committed row cites exists: claims lie on stored documents, evidence and
\* findings on committed claims, although the purge deletes the sources a run
\* brought into the store that all runs share (db/retention.py:72).
CitesWhatIsStored ==
    /\ \A c \in DOMAIN claim : text[c.doc] # "absent"
    /\ \A e \in evidence : e.on \in DOMAIN claim /\ text[e.from] # "absent"
    /\ \A f \in finding : f.cites \subseteq DOMAIN claim

\* A conflict the contradiction engine recorded is on both claims' record, although
\* the two rows are flushed one after the other and a failure between them commits
\* the first (verifier.py:239, engine.py:334): only a purged text leaves one side.
ConflictsHaveTwoSides ==
    \A e \in evidence :
        e.by = "contradiction-engine" =>
            \/ "purged" \in {text[e.on.doc], text[e.from]}
            \/ \E k \in evidence :
                 /\ k.on.run = e.on.run
                 /\ k.on.doc = e.from
                 /\ k.from = e.on.doc
                 /\ ~k.supports

\* Whatever part of a verification a failure commits, a claim that is DISPUTED has
\* the row that says why: evidence against it, or against another of the run's
\* claims that quotes its document.
DisputesAreExplained ==
    \A c \in DOMAIN claim :
        claim[c].status = "DISPUTED" =>
            \E e \in evidence :
                /\ ~e.supports
                /\ e.on.run = c.run
                /\ \/ e.on = c
                   \/ e.from = c.doc /\ e.quote = claim[c].quote

\* A deep run is never COMPLETED over a disputed claim of its own, whichever of its
\* executions, passes or aborted verifications disputed it (engine.py:705).
DisputedDeepRunIsReviewed ==
    \A r \in Deep :
        run[r].status = "COMPLETED" =>
            \A c \in DOMAIN claim : c.run = r => claim[c].status # "DISPUTED"

\* A retraction gives way only to a dispute found by an execution of the claim's own
\* run; no commit of an older loaded copy makes the claim ACTIVE again
\* (endpoints.py:585, verifier.py:572).
RetractionYieldsOnlyToDispute ==
    [][\A c \in DOMAIN claim :
         claim[c].status = "RETRACTED" =>
            \/ /\ c \in DOMAIN claim'
               /\ \/ claim'[c].status = "RETRACTED"
                  \/ claim'[c].status = "DISPUTED" /\ run[c.run].pc # "idle"
            \/ c \notin DOMAIN claim' /\ run'[c.run].status = "gone"]_vars

\* Every dispute the verifier leaves can be traced: a conflict on record has both of its
\* claims, a disputed claim its conflict or its verdict (verifier.py:572, retention.py:72).
DisputesOnRecord == ConflictsHaveTwoSides /\ DisputesAreExplained
=============================================================================
