SPECIFICATION ChSpec
CONSTANTS
    SLOTS = 2
    Thread = {t1, t2}
    MaxNotify = 3
    MaxRestarts = 0
    Nothing = Nothing
INVARIANT WrittenBeforeIndex
CHECK_DEADLOCK FALSE
