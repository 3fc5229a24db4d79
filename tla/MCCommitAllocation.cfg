\* Three concurrent commits over two providers: safety, refinement, liveness.
SPECIFICATION FairSpec
CONSTANTS
    rapid = rapid
    coop = coop
    Providers = {rapid, coop}
    Opps = {o1, o2}
    NoOpp = NoOpp
    Calls = {c1, c2, c3}
    Plans <- MCPlans
    Liquidity0 <- MCLiquidity0
INVARIANTS
    NoOverdraw
    NoDoubleDraw
    MatchedIffFunded
    OutcomeIsTruthful
    RacedMeansTaken
PROPERTIES
    Atomicity
    EveryCallReturns
\* Every call may have returned: nothing then remains to do.
CHECK_DEADLOCK FALSE
