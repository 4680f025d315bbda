----------------------------- MODULE MCEvidence -----------------------------
\* Instances of Evidence for TLC.
EXTENDS EvidenceProps, TLC

CONSTANTS r1, r2, d1, d2

OfferFirst == (r1 :> {d1, d2}) @@ (r2 :> {})

SecondHand == d1 :> r2

BothConflict == {{d1, d2}}
=============================================================================
