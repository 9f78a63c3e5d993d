\* Two devices on two workers, every channel of capacity one.
SPECIFICATION LiveSpec
CONSTANTS
    Devices = {1, 2}
    NumWorkers = 2
    SourceCap = 1
    QueueCap = 1
    OutCap = 1
    ActualCap = 1
    ClientsCap = 1
    MaxMessages <- Bounds
    Effects <- Sends
INVARIANTS TypeOK
PROPERTIES KeepsDeviceOrder Drains
CHECK_DEADLOCK FALSE
