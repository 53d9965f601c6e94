CONSTANTS
    Requests = {r1}
    Handlers <- MCHandlers
    Script <- Catalogue
    Durable <- MCDurable
    Saved <- MCSaved
    Flushing <- MCFlushing
    Early <- MCEarly
SPECIFICATION Spec
INVARIANTS TypeOK AnswerIsStored SavedAtTheEnd AllOrNothing AnnouncedIsStored
    
CHECK_DEADLOCK FALSE
