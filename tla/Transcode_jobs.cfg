SPECIFICATION Spec
CONSTANTS
    Jobs <- MCJobs
    MaxPackets = 3
CHECK_DEADLOCK FALSE
INVARIANTS
    PlannedBeforeTouched
    RoutedAsSelected
    EveryOutputServed
PROPERTIES
    Terminates
