SPECIFICATION Spec
CONSTANTS
    N = 2
    Libraries = 1
    MaxJobs = 2
    a1 = a1
    a2 = a2
    Addresses <- MCAddresses
    JobSpecs <- MCMixedJobs
INVARIANTS ReturnedMeansEverywhere SerialBeltIsOwn
PROPERTY EveryDestinationEnds
CHECK_DEADLOCK FALSE
