\* Two workers, two events: errors up to and beyond max_retries, one crash, one
\* lease that expires in the hands of a live worker.
CONSTANTS
    EventCount = 2
    Workers = {w1, w2}
    BatchSize = 2
    MaxRetries = 2
    MaxErrors = 3
    MaxCrashes = 1
    MaxSlow = 1
SPECIFICATION FairSpec
CHECK_DEADLOCK FALSE
INVARIANTS
    SentMeansPublished
    RepeatsHaveAnExcuse
PROPERTIES
    ImplementsDelivery
