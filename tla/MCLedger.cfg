SPECIFICATION Spec
CONSTANTS
    Calls <- MCCalls
    EventIds = {"a", "b", "c"}
    EventId <- MCEventId
INVARIANTS
    SeqsAreFresh
    MarkedIsRecorded
PROPERTIES
    KeepsJournal
CHECK_DEADLOCK FALSE
