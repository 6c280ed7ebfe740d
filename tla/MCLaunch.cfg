SPECIFICATION Spec
CONSTANTS
    Channel = {c1, c2}
    MaxIters = 2
    HostGap = 1
INVARIANTS
    TypeOK
    StartFindsStep
    LaunchesAddUp
PROPERTIES
    LaunchesComplete
