SPECIFICATION FairSpec
CONSTANT MaxAttempts = 3
INVARIANTS AttemptsJournalled TerminalEventTrue NothingHeardTwice
PROPERTIES ImplementsChildCall NoCallAfterTheEnd EveryCallEnds
CHECK_DEADLOCK FALSE
