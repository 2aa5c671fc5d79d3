SPECIFICATION Spec
INVARIANTS
    TriedIsSaved
    
    OutcomeIsTrue
    DumpOrderIsIrrelevant
PROPERTIES
    EventuallyClosed
