SPECIFICATION FairSpec
CONSTANTS
    Handlers = {h1, h2}
    Results = 2
INVARIANTS TypeOK WholeAnswers ServesLoaded
PROPERTIES EveryHandlerEnds
CHECK_DEADLOCK FALSE
