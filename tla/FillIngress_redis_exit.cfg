SPECIFICATION Spec
CONSTANTS
    MaxEvents = 4
    Fills <- AllButSecond
    Buffer = 1
INVARIANTS
    RedisFailureExits1
CHECK_DEADLOCK FALSE
