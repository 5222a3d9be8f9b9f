SPECIFICATION FairSpec
CONSTANT
    Attempts = {a1, a2}
INVARIANTS
    CountNeverOverstates
    OpenIsListed
    PlaceholderIsPending
    OwnersAgree
PROPERTIES
    ImplementsEntries
    PlaceholdersGo
    ClosingEnds
