SPECIFICATION Spec

CONSTANTS
    Configurations <- MCOutOfOrderConfigurations
    MaxSize <- MCOutOfOrderMaxSize

INVARIANTS
    OutOfOrderWritten

CHECK_DEADLOCK FALSE
