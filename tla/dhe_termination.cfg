SPECIFICATION FairSpec
CONSTANTS
    Attempts = {a1, a2}
INVARIANT TerminationIsHandled
