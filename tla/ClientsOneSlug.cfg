SPECIFICATION Spec
CONSTANTS
    c1 = c1
    c2 = c2
    c3 = c3
    s1 = s1
    s2 = s2
    m1 = m1
    m2 = m2
    m3 = m3
    e1 = e1
    e2 = e2
    NoProvider = NoProvider
    NoApp = NoApp
    NoMapping = NoMapping
    NoClient = NoClient
    Omitted = Omitted
    KcClients <- MCKcClients
    Migratable <- MCMigratable
    Slugs <- MCSlugs
    SlugOf <- OneSlug
    MapNames <- MCMapNames
    Exprs <- MCExprs
    PayloadsOf <- MCPayloadsOf
    Invocations <- AllRuns
    MaxFaults = 0
    MaxForeign = 0
    MaxEdits = 0
INVARIANTS
    RowMeansPair
