\* Overlapping syncs of one organisation beside the scheduler's rounds.
SPECIFICATION FairSchedulerSpec
CONSTANTS
    c1 = c1
    c2 = c2
    i1 = i1
    i2 = i2
    request = request
    scheduled = scheduled
    Syncs = {request, scheduled}
    Scheduled = {scheduled}
    Loads = {load}
    Books <- MCBooks
    Round <- MCRound
    Earlier = Earlier
    Another = Another
INVARIANTS
    PaymentsStandWhole
    StoreIsLastReading
    RunsTellTheTruth
    LoadIsClosed
    ScheduledInTurn
PROPERTIES
    EverySyncEnds
    EveryOrgIsTried
\* The server may have stopped.
CHECK_DEADLOCK FALSE
