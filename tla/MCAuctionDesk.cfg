CONSTANTS
    Scale = 100
    YearDays = 12
    Fine = 10
    MaxPremium = 160
    FarFuture = 30
    Books <- MCBooks
    AgentBids <- MCAgentBids
    Face = 100
    NeedsOptions <- MCNeeds
    Capacity <- MCCapacity
    Nudges = {0, 5}
    AgentNudges = {5}
    LastDay = 1
    Rivals = {"bank"}
    MaxMounts = 3
    Nothing = Nothing
    Failed = Failed
    Waiting = Waiting
SPECIFICATION Spec
INVARIANTS
    AnswerMatchesSlider
    UrgencyBuysDays
    WinnerUnbeaten
    OnlyTurnedAwayLinger
    AdviceIsCheapestThatClears
    ShortByTheRestOfTheDay
PROPERTIES
    EveryQuestionAnswered
CHECK_DEADLOCK FALSE
