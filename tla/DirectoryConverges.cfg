SPECIFICATION RerunSpec
CONSTANTS
    n1 = n1
    n2 = n2
    n3 = n3
    n4 = n4
    u1 = u1
    u2 = u2
    mail1 = mail1
    NoEmail = NoEmail
    NoAccount = NoAccount
    Users <- MCUsers
    Emails <- MCEmails
    Active = {u1}
    Invocations <- Full
    MaxFaults = 1
    MaxForeign = 1
    Names <- OddNames
    KcGroups <- OddKcGroups
    Nested <- OddNested
    KcRoles <- OddKcRoles
    BuiltinRoles <- OddBuiltin
    Composite <- OddComposite
    MembersOf <- OddMembersOf
    HoldersOf <- OddHoldersOf
    EmailOf <- OddEmailOf
INVARIANTS
    TypeOK
PROPERTIES
    Converges
