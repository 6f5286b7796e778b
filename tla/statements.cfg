SPECIFICATION Spec
CONSTANTS
    MaxRuns = 5
    MaxCrashes = 2
INVARIANT LedgerLossBounded EffectiveIsWritten ResumesOnce
