\* Overlapping, retried and failing money flows of one opportunity.
SPECIFICATION FairSpec
CONSTANTS
    supplier = supplier
    rapid = rapid
    coop = coop
    buyer = buyer
    Platform = platform
    Calls = {c1, c2, c3}
    Scripts <- MCScripts
    Deals <- MCDeals
    Amounts <- MCAmounts
    Chart <- MCChart
    Chart0 <- MCChart0
INVARIANTS
    EntriesBalanced
    PostedOnce
    PosterIsTold
    PartiesBalance
    EscrowMatched
    ProviderFirst
PROPERTIES
    PostsWhole
    EveryPosterReturns
\* Every call may have returned and every account exist.
CHECK_DEADLOCK FALSE
