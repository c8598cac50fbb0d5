SPECIFICATION Spec
CONSTANTS
    n1 = n1
    n2 = n2
    n3 = n3
    n4 = n4
    u1 = u1
    u2 = u2
    mail1 = mail1
    NoEmail = NoEmail
    NoAccount = NoAccount
    Users <- MCUsers
    Emails <- MCEmails
    Active <- MCUsers
    Invocations <- FullMail
    MaxFaults = 2
    MaxForeign = 1
    Names <- MCNames
    KcGroups <- MCKcGroups
    Nested = {}
    KcRoles <- MCKcRoles
    BuiltinRoles = {}
    Composite = {}
    MembersOf <- MCMembersOf
    HoldersOf <- MCHoldersOf
    EmailOf <- MCEmailOf
INVARIANTS
    ReportComplete
    MailsOnlyNewAccounts
    SentWasQueued
