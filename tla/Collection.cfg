SPECIFICATION FairSpec
CHECK_DEADLOCK FALSE
CONSTANTS
    Starts <- MCStarts
    Readings <- MCReadings
    Width = 256
    MaxMoves = 2
    MaxFails = 1
INVARIANTS FeatureGetsItsMetrics DeltasAddUp BudgetsAddUp
PROPERTIES ScoreSeesTheHost WorseNeverScoresBetter ScoreConverges
