SPECIFICATION Spec
CONSTANTS
    Commands <- MCCommands
    Challenged <- MCChallenged
    ExpiresAt <- MCExpiresAt
    MaxTime = 1
    Blank = 0
    CacheSize = 2
    Blob = 8
    Sizes <- MCSizes
INVARIANT ReplayMeansDone
