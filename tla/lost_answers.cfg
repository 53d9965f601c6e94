CONSTANTS
    Requests = {r1}
    Handlers <- MCHandlers
    Script <- Catalogue
    Durable <- MCDurable
    Saved <- MCSaved
    Flushing <- MCFlushing
    Early <- MCEarly
SPECIFICATION Spec
INVARIANTS AnswersKept
CHECK_DEADLOCK FALSE
