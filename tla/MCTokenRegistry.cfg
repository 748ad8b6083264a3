SPECIFICATION FairSpec
CONSTANTS
    Handlers = {h1, h2, h3}
    TokenIDs = {k1}
    Subjects = {s1, s2}
    Nil = Nil
    Lifespan = 1
    MaxGrants = 2
    MaxTime = 2
INVARIANTS SingleClaim LiveGrantsRegistered
PROPERTIES RefusedOnlyIfSpent ImplementsOneTimeTokens FoundTokenIsClaimed
