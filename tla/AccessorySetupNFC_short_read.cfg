\* A reader sends a one-byte READ frame to the tag the first payload update starts.
CONSTANTS
    Payloads = {p1}
    NoPayload = NoPayload
    MaxUpdates = 1
    MaxFailures = 0
    MaxTransactions = 0
SPECIFICATION Spec
CHECK_DEADLOCK FALSE
INVARIANT ShortReadRefused
