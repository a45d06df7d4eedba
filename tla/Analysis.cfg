\* Two jobs of a wallet, up to two groups of transfers each.
CONSTANTS
    Chains <- McChains
    Votes = 6
    Age = 400
    Revoked <- McRevoked
    MaxJobs = 2
    MaxChanges = 1
    MaxErrors = 1
SPECIFICATION FairAnalysisSpec
INVARIANTS
    FactsComplete
    RegistryRespected
    
    VotingNeverHurts
    BadgesFollowScore
PROPERTIES
    AnalysisEnds
CHECK_DEADLOCK FALSE
