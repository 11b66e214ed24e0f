SPECIFICATION FairSpec
CONSTANTS
    n1 = n1
    n2 = n2
    Cards <- MCCards
    Scores <- MCScores
    Base = 1800
    MaxM = 1900
    Step = 50
    MaxFaults = 2
    MaxCrashes = 1
    Nil = Nil
INVARIANTS
    BoostedIsRemembered
PROPERTIES
    CardsConverge
CHECK_DEADLOCK FALSE
