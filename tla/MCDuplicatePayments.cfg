\* Two syncs overlap and both keep the payments they inserted.
SPECIFICATION SchedulerSpec
CONSTANTS
    c1 = c1
    c2 = c2
    i1 = i1
    i2 = i2
    request = request
    scheduled = scheduled
    Syncs = {request, scheduled}
    Scheduled = {scheduled}
    Loads = {load}
    Books <- MCBooks
    Round <- MCRound
    Earlier = Earlier
    Another = Another
INVARIANT
    PaymentsNotDuplicated
CHECK_DEADLOCK FALSE
