CONSTANTS
    Workers = {w1, w2}
    RunIds = {m1, m2}
    NoRun = NoRun
    NoWorker = NoWorker
    MaxFaults = 1

SPECIFICATION FairSpec
INVARIANTS TypeOK LinearHistory NothingForgotten ConflictIsFinal
PROPERTIES ConversationSpec ClaimSettles
CHECK_DEADLOCK FALSE
