SPECIFICATION FairApiSpec
CONSTANTS
    None = None
    submit = submit
    again = again
    cancel = cancel
    recover = recover
    job = job
    Submissions = {submit, again}
    Cancels = {cancel}
    Recoveries = {recover}
    JobOf <- MCJobOf
    Codes = {"ok", "cancelled"}
    Workers = 2
    MaxFaults = 1
    MaxRequests = 2
CONSTRAINT InOrder
INVARIANTS JournalIsTrue
PROPERTIES AbandonedIsCancelled
CHECK_DEADLOCK FALSE
