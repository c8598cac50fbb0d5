SPECIFICATION PlanSpec
CONSTANTS
    oauth1 = oauth1
    saml1 = saml1
    odd1 = odd1
    s1 = s1
    s2 = s2
    u1 = u1
    u2 = u2
    NoAlias = NoAlias
    NoSource = NoSource
    Aliases <- MCAliases
    KindOf <- MCKindOf
    Certified <- MCCertified
    Slugs <- MCSlugs
    SlugOf <- MCSlugOf
    Links <- MCLinks
    Invocations <- AllRuns
    MaxExecutions = 3
    MaxFaults = 1
    HandMade <- MCHandMade
    MaxForeign = 1
INVARIANTS
    TypeOK
    EnabledWorks
    CreatedDisabledIsTold
    ImportedOnce
    LinksTreatedAlike
    CountedLinksHaveSource
    PlanIsHonoured
PROPERTIES
    NeverSabotaged
