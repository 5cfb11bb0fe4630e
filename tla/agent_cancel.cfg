SPECIFICATION Spec
CONSTANTS
    c1 = c1
    c2 = c2
    c3 = c3
    op1 = op1
    Connections = {c1, c2, c3}
    NoConnection = NoConnection
    Operations = {op1}
    Durable = TRUE
    MaxInputs = 2
    MaxAttempts = 1
    MaxFaults = 2
PROPERTIES
    NoRequestOnceCancelled
CHECK_DEADLOCK FALSE
