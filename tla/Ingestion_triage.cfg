\* A newsletter of a new sender, delivered again when it is refused, three requests of
\* admins and two faults: a job can fail for good, and a run outlive its job.
CONSTANTS
    may = may
    Messages = {may}
    RetryLimit = 1
    MaxHandlers = 2
    MaxRequests = 3
    MaxFaults = 2
SPECIFICATION Spec
CHECK_DEADLOCK FALSE
INVARIANT NoneForgotten
PROPERTY EmailsAreProcessed
