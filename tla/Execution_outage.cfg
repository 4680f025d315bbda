\* An outage of the search providers beside internal knowledge.
CONSTANTS
    MaxTargets = 1
    Angles = 1
    Attempts = 1
    MaxHops = 1
    Best = 2
    Internal <- Known
    Stored <- Rows
    Web <- Pages
    Quoted <- Snippets
    Blocked = {}
    chunk = chunk
    shelf = shelf
    page = page
    husk = husk
    x1 = x1
    x2 = x2
    p = p
    Executions = {x1, x2}
    Processes = {p}
    Home <- Homes
    Ceiling = 2
    Calls = 1
    Tries = 2
    Crawlers = {x1, x2}
    Feeds = {1, 2}
    Agent <- Agents
    Articles = {page, husk}
    Lists <- ListsOf
    Batch = 1
    Cycles = 2
    Nobody = p
    Runs = {"a", "b"}
    ClaimIds <- RowIds
    SourceIds <- RowIds
    Least = 1
    Drafts <- SomeDrafts
    Prose <- SomeProse
    Unknown <- NotThere
    Fallback = 2
    Tasks = {x1, x2}
    MaxCost = 4
    Most = 2
    Kept = 2
    Phases = {"plan", "verify"}
    Versions = 4
    Keys = {x1, x2}
    MaxKeys = 1
    Limit = 2
    Window = 2
    Horizon = 4
    Threshold = 2
    Successes = 2
    Retries = 1
    Slots = 1
    Use = {"registry", "conflicts"}
    MaxClaims = 3
    Statements <- Sayings
    Opposing <- Opposites
    Items = {1, 2}
    NoItem = 0
    Tiers = {"TRUSTED"}
    Credibilities = {6000}
    Debates = {0}
    NoDebate = 0
    Penalties <- NoPenalty
    Corroborated = 0
    Similarity = 85
SPECIFICATION ExecutionSpec
INVARIANT OutageIsNotNoEvidence
CHECK_DEADLOCK FALSE
