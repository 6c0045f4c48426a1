CONSTANTS
    Workers = {w1, w2, w3}
    Owner = owner
    MaxTasks = 4
SPECIFICATION ThreadPoolSpec
INVARIANTS
    ThreadPoolTypeOK
    OnePlace
    NoLostWakeup
    NoTaskLeft
PROPERTIES
    EveryTaskEnds
    DestructorReturns
    ImplementsTaskPool
