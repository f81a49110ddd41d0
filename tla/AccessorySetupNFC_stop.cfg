\* Three payload updates and a Release against a worker whose nfc_init,
\* nfc_open and thread creation may fail twice, and whose emulation a
\* reader may end twice.
CONSTANTS
    Payloads = {p1, p2}
    NoPayload = NoPayload
    MaxUpdates = 3
    MaxFailures = 2
    MaxTransactions = 2
SPECIFICATION Spec
\* Release ends the program's use of the tag: nothing happens after it.
CHECK_DEADLOCK FALSE
INVARIANTS TypeOK TagServesCurrentPayload NoEmulationAfterStop ReadAnswersType2
PROPERTY NFCStopReturns
