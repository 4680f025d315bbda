--------------------------- MODULE MCSourceStore ---------------------------
\* Instances of SourceStore for TLC.
EXTENDS SourceStoreProps, TLC

CONSTANTS r1, r2, r3, p1, p2, w1, l1, l2, ca, cb, cs

\* Two retrievers share a process, the third runs in another one.
TwoAndOne == (r1 :> p1) @@ (r2 :> p1) @@ (r3 :> p2)
VisitFirst == w1 :> l1
\* The second page changes between fetches and may carry a secret.
Pages == (l1 :> {ca}) @@ (l2 :> {cb, cs})
Batches == (r1 :> <<l1, l2>>) @@ (r2 :> <<l1>>) @@ (r3 :> <<l2, l1>>)
=============================================================================
