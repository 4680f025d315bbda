\* A deep run and an earlier run whose document it may use; two conflicting documents,
\* adverse verdicts, one requeue or replan, one fault.
CONSTANTS
    r1 = r1
    r2 = r2
    d1 = d1
    d2 = d2
    None = None
    Runs = {r1, r2}
    Docs = {d1, d2}
    Offers <- OfferFirst
    Verdicts = {"CONTRADICTED"}
    Brought <- SecondHand
    Contradict <- BothConflict
    Deep = {r1}
    MaxVisits = 2
    MaxWork = 4
    MaxRequeues = 1
    MaxFaults = 1
SPECIFICATION Spec
INVARIANTS CitesWhatIsStored DisputesOnRecord DisputedDeepRunIsReviewed
PROPERTIES RetractionYieldsOnlyToDispute
CHECK_DEADLOCK FALSE
