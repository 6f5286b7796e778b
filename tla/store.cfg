SPECIFICATION Spec
CONSTANTS
    fresh = fresh
    sold = sold
    acme = acme
    acne = acne
    Companies <- FourCompanies
    Seeds <- TwoSeeds
    SlugOf <- ThreeSlugs
    CsvFiles <- TwoFiles
    Names <- AnyName
    MaxRequests = 4
    MaxCrashes = 2
INVARIANT ServesWhole
PROPERTY RestartRecovers ImportExact
CHECK_DEADLOCK FALSE
