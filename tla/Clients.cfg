SPECIFICATION RerunSpec
CONSTANTS
    c1 = c1
    c2 = c2
    c3 = c3
    s1 = s1
    s2 = s2
    m1 = m1
    m2 = m2
    m3 = m3
    e1 = e1
    e2 = e2
    NoProvider = NoProvider
    NoApp = NoApp
    NoMapping = NoMapping
    NoClient = NoClient
    Omitted = Omitted
    KcClients <- MCKcClients
    Migratable <- MCMigratable
    Slugs <- MCSlugs
    SlugOf <- MCSlugOf
    MapNames <- MCMapNames
    Exprs <- MCExprs
    PayloadsOf <- MCPayloadsOf
    Invocations <- AllRuns
    MaxFaults = 2
    MaxForeign = 1
    MaxEdits = 1
INVARIANTS
    TypeOK
    RowMeansPair
    ClaimsAreAttached
PROPERTIES
    MappingsStayAttached
    Converges
