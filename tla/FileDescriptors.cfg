SPECIFICATION FairSpec
CONSTANTS
    NumPids = 2
    NumTerminals = 2
    NumFds = 3
    Files <- OneFile
    FileLength <- ShortFile
    NumDentries = 2
    BaseRate = 4
    Rates <- TwoRates
    ReadSizes <- TwoSizes
    Width = 6
INVARIANTS
    TypeOK FreeNotTicking NothingLeaked RtcReadOnTime
PROPERTY
    RtcReadReturns
