SPECIFICATION Spec
CONSTANTS
    MaxRuns = 5
    MaxCrashes = 1
INVARIANT LedgerExact
