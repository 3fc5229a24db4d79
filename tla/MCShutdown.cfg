\* The server stops while the task awaits a thread; rounds have no bound here.
SPECIFICATION FairSchedulerSpec
CONSTANTS
    c1 = c1
    c2 = c2
    i1 = i1
    i2 = i2
    request = request
    scheduled = scheduled
    Syncs = {request}
    Scheduled = {}
    Loads = {}
    Books <- MCBooks
    Round <- OthersOnly
    Earlier = Earlier
    Another = Another
PROPERTY
    ShutdownCompletes
CHECK_DEADLOCK FALSE
