----------------------------- MODULE CliProofs -----------------------------
(***************************************************************************)
(* For every set of flows, command lines and rows, and any number of       *)
(* changes: the domains, what was checked before anything is written, the  *)
(* flows a run may rely on, and that exit code and report file keep the    *)
(* contract of Verdict (its safety part).                                  *)
(***************************************************************************)
EXTENDS Cli, TLAPS

LEMMA Lengths ==
    /\ Len(Checks) = 10 /\ DOMAIN Checks = 1..10
    /\ Len(Passes) = 8 /\ DOMAIN Passes = 1..8
  BY DEF Checks, Passes

LEMMA Bounds == MaxChanges \in Nat /\ Commands \subseteq CommandLines
  BY CliAssumption

LEMMA ReportValues == NoReport \in Reports /\ OtherReport \in Reports
  BY DEF NoReport, OtherReport, Reports

-----------------------------------------------------------------------------
\* Types.

LEMMA TypeInit == Init => TypeOK
  <1> SUFFICES ASSUME Init PROVE TypeOK
    OBVIOUS
  <1>1. cmd \in CommandLines
    BY DEF Init, Idle, CommandLines, SecretsFiles
  <1>2. idps \subseteq Providers
    BY CliAssumption DEF Init
  <1> QED
    <2>1. check \in 1..Len(Checks) + 1 /\ pass \in 1..Len(Passes) + 1
      BY Lengths DEF Init
    <2>2. flows \subseteq Slugs /\ changes \in 0..MaxChanges /\ report \in Reports
      BY Bounds, ReportValues DEF Init
    <2>3. /\ found = {} /\ resolved = {} /\ rows = {} /\ checked = {} /\ wrote = {}
          /\ pc = "idle" /\ code = "none" /\ changed = FALSE /\ missed = "none"
      BY DEF Init
    <2> QED
      BY <1>1, <1>2, <2>1, <2>2, <2>3 DEF TypeOK

LEMMA TypeNext == TypeOK /\ [Next]_vars => TypeOK'
  <1> SUFFICES ASSUME TypeOK, [Next]_vars PROVE TypeOK'
    OBVIOUS
  <1>1. ASSUME NEW c \in Commands, Start(c) PROVE TypeOK'
    <2>1. cmd' \in CommandLines /\ report' \in Reports
      BY <1>1, Bounds, ReportValues DEF Start, TypeOK
    <2>2. check' \in 1..Len(Checks) + 1 /\ pass' \in 1..Len(Passes) + 1
      BY <1>1, Lengths DEF Start
    <2>3. flows' \subseteq Slugs /\ idps' \subseteq Providers /\ changes' \in 0..MaxChanges
      BY <1>1 DEF Start, worldVars, TypeOK
    <2>4. /\ found' = {} /\ resolved' = {} /\ rows' = {} /\ checked' = {} /\ wrote' = {}
          /\ pc' = "parsing" /\ code' = "none" /\ changed' = FALSE /\ missed' = "none"
      BY <1>1 DEF Start
    <2> QED
      BY <2>1, <2>2, <2>3, <2>4 DEF TypeOK
  <1>2. ASSUME NEW c \in {"1", "2", "3", "killed"}, Exit(c),
               report' \in Reports, missed' \in FlowFlags \cup {"none"}
        PROVE  TypeOK'
    BY <1>2, Lengths DEF Exit, worldVars, TypeOK
  <1>3. CASE RefuseUsage \/ RefuseCheck
    BY <1>2, <1>3, Lengths DEF RefuseUsage, RefuseCheck, TypeOK
  <1>4. CASE Parse \/ Work
    BY <1>4, Lengths DEF Parse, Work, worldVars, history, TypeOK
  <1>5. CASE Check
    <2>1. check \in 1..10 /\ check' = check + 1
      BY <1>5, Lengths DEF Check, TypeOK
    <2>2. checked' \subseteq checked \cup {Checks[check]}
      BY <1>5, Lengths DEF Check, TypeOK
    <2> QED
      BY <1>5, <2>1, <2>2, Lengths DEF Check, worldVars, TypeOK
  <1>6. CASE LookUp
    BY <1>6, Lengths DEF LookUp, Uses, FlowFlags, worldVars, history, TypeOK
  <1>7. CASE LookUpFails
    <2>1. missed' \in FlowFlags
      BY <1>7, Lengths DEF LookUpFails, Uses, FlowFlags, TypeOK
    <2> QED
      BY <1>2, <1>7, <2>1, Lengths DEF LookUpFails, TypeOK
  <1>8. CASE EndPass
    <2>1. pass \in 1..8 /\ pass' = pass + 1
      BY <1>8, Lengths DEF EndPass, Passing, TypeOK
    <2> QED
      BY <1>8, <2>1, Lengths DEF EndPass, worldVars, history, TypeOK
  <1>9. CASE Skip
    <2>1. pass \in 1..8 /\ pass' = pass + 1
      BY <1>9, Lengths DEF Skip, TypeOK
    <2> QED
      BY <1>9, <2>1, Lengths DEF Skip, worldVars, history, TypeOK
  <1>10. CASE Report
    <2>1. report' \in Reports
      BY <1>10, Lengths DEF Report, Reports, TypeOK
    <2>2. ExitCode(rows) \in {"1", "2", "3", "killed"} \/ ExitCode(rows) = "0"
      BY DEF ExitCode
    <2> QED
      BY <1>10, <2>1, <2>2, Lengths DEF Report, Exit, worldVars, TypeOK
  <1>11. CASE ReportFails \/ Crash
    <2>1. report' \in Reports /\ missed' \in FlowFlags \cup {"none"}
      BY <1>11, ReportValues DEF ReportFails, Crash, TypeOK
    <2>2. \E c \in {"1", "killed"} : Exit(c)
      BY <1>11 DEF ReportFails, Crash
    <2> QED
      BY <1>2, <2>1, <2>2
  <1>12. CASE Write \/ Mail
    <2>1. wrote' \subseteq {Passes[i] : i \in DOMAIN Passes} \cup {"mail"}
      BY <1>12, Lengths DEF Write, Mail, Passing, Current, TypeOK
    <2> QED
      BY <1>12, <2>1, Lengths DEF Write, Mail, worldVars, runVars, TypeOK
  <1>13. CASE Change
    BY <1>13, Bounds, Lengths DEF Change, runVars, TypeOK
  <1>14. CASE UNCHANGED vars
    BY <1>14, Lengths DEF vars, worldVars, runVars, history, TypeOK
  <1> QED
    BY <1>1, <1>3, <1>4, <1>5, <1>6, <1>7, <1>8, <1>9, <1>10, <1>11, <1>12,
       <1>13, <1>14 DEF Next, Tool

\* Every variable stays in its domain, whatever the command lines and rows.
THEOREM TypeCorrect == Spec => []TypeOK
  BY TypeInit, TypeNext, PTL DEF Spec

-----------------------------------------------------------------------------
\* What was checked stays checked.

\* What a command line needs checked whatever the realm has.
Always(n) ==
    \/ n \in {"Keycloak", "Authentik"}
    \/ n \in {"authorization", "invalidation"} /\ ClientFlowsConcerned
    \/ n \in MailChecks /\ MailConcerned

Fresh ==
    /\ pc = "parsing" => check = 1 /\ changed = FALSE
    /\ pc \in {"parsing", "checking"} => wrote = {}
    /\ pc # "ended" => missed = "none"

Checking == pc \in {"checking", "working"}

Vetted == Checking => \A i \in 1..check - 1 : Always(Checks[i]) => Checks[i] \in checked

\* Until something changes, what was found in order is still in order.
Standing ==
    Checking /\ ~changed =>
        \A i \in 1..check - 1 :
            Concerns(Checks[i]) => Checks[i] \in checked /\ CanHold(Checks[i])

Ready ==
    pc = "working" =>
        check = 11 /\ (changed \/ found = IF InScope("idps") THEN idps ELSE {})

Inv == TypeOK /\ Fresh /\ Vetted /\ Standing /\ Ready /\ WritesAreVetted /\ NoSurprise

CheckNames == {Checks[i] : i \in 1..10}

LEMMA Names ==
    /\ "Keycloak" \in CheckNames /\ "Authentik" \in CheckNames
    /\ "authorization" \in CheckNames /\ "invalidation" \in CheckNames
    /\ "pre_authentication" \in CheckNames
    /\ "authentication" \in CheckNames /\ "enrollment" \in CheckNames
    /\ \A n \in MailChecks : n \in CheckNames
  <1>1. /\ Checks[1] = "email stage given" /\ Checks[2] = "Keycloak"
        /\ Checks[3] = "Authentik" /\ Checks[4] = "authorization"
        /\ Checks[5] = "invalidation" /\ Checks[6] = "pre_authentication"
        /\ Checks[7] = "authentication" /\ Checks[8] = "enrollment"
        /\ Checks[9] = "recovery flow" /\ Checks[10] = "email stage"
    BY DEF Checks
  <1>2. \A i \in 1..10 : Checks[i] \in CheckNames
    BY DEF CheckNames
  <1>3. 1 \in 1..10 /\ 2 \in 1..10 /\ 3 \in 1..10 /\ 4 \in 1..10 /\ 5 \in 1..10
        /\ 6 \in 1..10 /\ 7 \in 1..10 /\ 8 \in 1..10 /\ 9 \in 1..10 /\ 10 \in 1..10
    OBVIOUS
  <1> QED
    BY <1>1, <1>2, <1>3, Zenon DEF MailChecks

\* When the passes begin, every check has been made.
LEMMA AllVetted ==
    ASSUME Vetted, Ready, pc = "working"
    PROVE  \A n \in CheckNames : Always(n) => n \in checked
  BY DEF Vetted, Ready, Checking, CheckNames

LEMMA AllStanding ==
    ASSUME Standing, Ready, pc = "working", ~changed
    PROVE  \A n \in CheckNames : Concerns(n) => n \in checked /\ CanHold(n)
  BY DEF Standing, Ready, Checking, CheckNames

\* What concerns a run depends on its command line and on the realm.
LEMMA SameConcerns ==
    ASSUME cmd' = cmd
    PROVE  /\ \A n : Always(n)' <=> Always(n)
           /\ idps' = idps => \A n : Concerns(n)' <=> Concerns(n)
           /\ flows' = flows => \A n : CanHold(n)' <=> CanHold(n)
  BY DEF Always, Concerns, CanHold, ClientFlowsConcerned, MailConcerned, InScope

LEMMA InvInit == Init => Inv
  <1> SUFFICES ASSUME Init PROVE Inv
    OBVIOUS
  <1>1. Fresh /\ Vetted /\ Standing /\ Ready
    BY DEF Init, Fresh, Vetted, Standing, Ready, Checking
  <1>2. WritesAreVetted /\ NoSurprise
    BY DEF Init, WritesAreVetted, NoSurprise
  <1> QED
    BY <1>1, <1>2, TypeInit DEF Inv

\* A run that is over keeps its history.
LEMMA InvExit ==
    ASSUME Inv, NEW c, Exit(c), missed' = missed
    PROVE  Fresh' /\ Vetted' /\ Standing' /\ Ready' /\ WritesAreVetted' /\ NoSurprise'
  <1>1. Fresh' /\ Vetted' /\ Standing' /\ Ready'
    BY DEF Exit, Fresh, Vetted, Standing, Ready, Checking
  <1>2. WritesAreVetted' /\ NoSurprise'
    BY DEF Inv, Exit, WritesAreVetted, NoSurprise, InScope, MailChecks
  <1> QED
    BY <1>1, <1>2

\* A step within the passes that keeps what was checked.
LEMMA InvStay ==
    ASSUME Inv, pc' = pc, check' = check, found' = found, wrote' = wrote,
           checked' = checked, changed' = changed, missed' = missed, cmd' = cmd,
           idps' = idps, flows' = flows
    PROVE  Fresh' /\ Vetted' /\ Standing' /\ Ready' /\ WritesAreVetted' /\ NoSurprise'
  <1>1. Fresh' /\ Ready'
    BY DEF Inv, Fresh, Ready, InScope
  <1>2. Vetted' /\ Standing'
    BY SameConcerns DEF Inv, Vetted, Standing, Checking
  <1>3. WritesAreVetted' /\ NoSurprise'
    BY DEF Inv, WritesAreVetted, NoSurprise, InScope
  <1> QED
    BY <1>1, <1>2, <1>3

LEMMA PassNames == \A i \in 1..8 : Passes[i] # "mail"
  <1>1. /\ Passes[1] # "mail" /\ Passes[2] # "mail" /\ Passes[3] # "mail"
        /\ Passes[4] # "mail" /\ Passes[5] # "mail" /\ Passes[6] # "mail"
        /\ Passes[7] # "mail" /\ Passes[8] # "mail"
    BY DEF Passes
  <1>2. \A i \in 1..8 : i = 1 \/ i = 2 \/ i = 3 \/ i = 4 \/ i = 5 \/ i = 6 \/ i = 7 \/ i = 8
    OBVIOUS
  <1> QED
    BY <1>1, <1>2

\* A flow that a pass needs was checked, if the realm is as it was.
LEMMA UsesConcern ==
    ASSUME Inv, Passing, ~changed,
           NEW f \in Uses(Current), cmd.flow[f] # Empty
    PROVE  f \in FlowFlags /\ Concerns(f) /\ CanHold(f)
  <1>1. pc = "working" /\ Ready /\ Standing
    BY DEF Passing, Inv
  <1>2. CASE Current = "clients"
    <2>1. f \in {"authorization", "invalidation"}
      BY <1>2 DEF Uses
    <2>2. InScope("clients")
      BY <1>2 DEF Passing, Current, Needed
    <2>3. Concerns(f) /\ f \in FlowFlags /\ f \in CheckNames
      BY <2>1, <2>2, Names DEF Concerns, ClientFlowsConcerned, FlowFlags
    <2> QED
      BY <1>1, <2>3, AllStanding
  <1>3. CASE Current = "idps" /\ Writes("idps")
    <2>1. InScope("idps") /\ found = idps
      BY <1>1, <1>3 DEF Writes, Ready
    <2>2. CASE f = "pre_authentication"
      <3>1. "saml" \in found
        BY <1>3, <2>2 DEF Uses
      <3>2. Concerns(f) /\ f \in FlowFlags /\ f \in CheckNames
        BY <2>1, <2>2, <3>1, Names DEF Concerns, FlowFlags
      <3> QED
        BY <1>1, <3>2, AllStanding
    <2>3. CASE f \in {"authentication", "enrollment"}
      <3>1. found \cap Supported # {} /\ cmd.flow[f] # None
        BY <1>3, <2>3 DEF Uses
      <3>2. Given(cmd.flow[f])
        BY <3>1 DEF Given
      <3>3. Concerns(f) /\ f \in FlowFlags /\ f \in CheckNames
        BY <2>1, <2>3, <3>1, <3>2, Names DEF Concerns, FlowFlags
      <3> QED
        BY <1>1, <3>3, AllStanding
    <2> QED
      BY <1>3, <2>2, <2>3 DEF Uses
  <1> QED
    BY <1>2, <1>3 DEF Uses

LEMMA InvNext == Inv /\ [Next]_vars => Inv'
  <1> SUFFICES ASSUME Inv, [Next]_vars
               PROVE  /\ Fresh' /\ Vetted' /\ Standing' /\ Ready'
                      /\ WritesAreVetted' /\ NoSurprise'
    BY TypeNext DEF Inv
  <1> DEFINE Goal == /\ Fresh' /\ Vetted' /\ Standing' /\ Ready'
                     /\ WritesAreVetted' /\ NoSurprise'
  <1>1. ASSUME NEW c \in Commands, Start(c) PROVE Goal
    <2>1. /\ pc' = "parsing" /\ check' = 1 /\ changed' = FALSE /\ wrote' = {}
          /\ missed' = "none"
      BY <1>1 DEF Start
    <2> QED
      BY <2>1 DEF Fresh, Vetted, Standing, Ready, Checking, WritesAreVetted, NoSurprise
  <1>2. CASE RefuseUsage \/ RefuseCheck \/ Report \/ ReportFails \/ Crash
    <2>1. missed' = missed /\ \E c : Exit(c)
      BY <1>2 DEF RefuseUsage, RefuseCheck, Report, ReportFails, Crash
    <2> QED
      BY <2>1, InvExit
  <1>3. CASE Parse
    <2>1. /\ pc' = "checking" /\ check' = 1 /\ wrote' = {} /\ missed' = "none"
          /\ changed' = changed
      BY <1>3 DEF Parse, history, Inv, Fresh
    <2> QED
      BY <2>1 DEF Fresh, Vetted, Standing, Ready, Checking, WritesAreVetted, NoSurprise
  <1>4. CASE Check
    <2>1. /\ pc = "checking" /\ pc' = pc /\ wrote' = wrote /\ missed' = missed
          /\ check' = check + 1 /\ check \in 1..10
          /\ cmd' = cmd /\ idps' = idps /\ flows' = flows /\ changed' = changed
          /\ Concerns(Checks[check]) => CanHold(Checks[check])
          /\ checked' = IF Concerns(Checks[check]) THEN checked \cup {Checks[check]}
                        ELSE checked
      BY <1>4, Lengths DEF Check, worldVars, Inv, TypeOK
    <2>2. Fresh' /\ Ready'
      BY <2>1 DEF Inv, Fresh, Ready
    <2>3. \A n : Always(n) => Concerns(n)
      BY DEF Always, Concerns
    <2>4. \A i \in 1..check' - 1 : i \in 1..check - 1 \/ i = check
      BY <2>1
    <2>5. Vetted'
      BY <2>1, <2>3, <2>4, SameConcerns DEF Inv, Vetted, Checking
    <2>6. Standing'
      BY <2>1, <2>4, SameConcerns DEF Inv, Standing, Checking
    <2>7. WritesAreVetted' /\ NoSurprise'
      BY <2>1 DEF Inv, Fresh, WritesAreVetted, NoSurprise
    <2> QED
      BY <2>2, <2>5, <2>6, <2>7
  <1>5. CASE Work
    <2>1. /\ pc = "checking" /\ check = 11 /\ pc' = "working" /\ check' = check
          /\ found' = (IF InScope("idps") THEN idps ELSE {})
          /\ cmd' = cmd /\ idps' = idps /\ flows' = flows /\ changed' = changed
          /\ checked' = checked /\ wrote' = wrote /\ missed' = missed
      BY <1>5, Lengths DEF Work, worldVars, history, Inv, TypeOK
    <2>2. Fresh' /\ Ready'
      BY <2>1 DEF Inv, Fresh, Ready, InScope
    <2>3. Vetted' /\ Standing'
      BY <2>1, SameConcerns DEF Inv, Vetted, Standing, Checking
    <2>4. WritesAreVetted' /\ NoSurprise'
      BY <2>1 DEF Inv, Fresh, WritesAreVetted, NoSurprise
    <2> QED
      BY <2>2, <2>3, <2>4
  <1>6. CASE LookUp \/ EndPass \/ Skip \/ UNCHANGED vars
    BY <1>6, InvStay
    DEF LookUp, EndPass, Skip, vars, worldVars, runVars, history
  <1>7. CASE Change
    <2>1. /\ cmd' = cmd /\ pc' = pc /\ check' = check /\ found' = found
          /\ checked' = checked /\ wrote' = wrote /\ missed' = missed
          /\ changed' = (changed \/ pc \in {"checking", "working"})
      BY <1>7 DEF Change, runVars
    <2>2. Fresh' /\ Standing' /\ Ready'
      BY <2>1 DEF Inv, Fresh, Standing, Ready, Checking
    <2>3. Vetted'
      BY <2>1, SameConcerns DEF Inv, Vetted, Checking
    <2>4. WritesAreVetted' /\ NoSurprise'
      BY <2>1 DEF Inv, WritesAreVetted, NoSurprise, InScope
    <2> QED
      BY <2>2, <2>3, <2>4
  <1> HIDE DEF Goal
  <1>8. CASE LookUpFails
    <2>1. Passing /\ Exit("1")
      BY <1>8 DEF LookUpFails
    <2>2. PICK f \in Uses(Current) : ~Resolves(cmd.flow[f]) /\ missed' = f
      BY <1>8 DEF LookUpFails
    <2>3. ASSUME ~changed, cmd.flow[f] # Empty PROVE FALSE
      <3>1. f \in FlowFlags /\ CanHold(f)
        BY <2>1, <2>3, UsesConcern
      <3> QED
        BY <2>2, <3>1 DEF CanHold, Resolves
    <2>4. Fresh' /\ Vetted' /\ Standing' /\ Ready'
      BY <2>1 DEF Exit, Fresh, Vetted, Standing, Ready, Checking
    <2>5. WritesAreVetted'
      BY <2>1 DEF Inv, Exit, WritesAreVetted, InScope, MailChecks
    <2>6. NoSurprise'
      BY <2>1, <2>2, <2>3 DEF Exit, NoSurprise
    <2> QED
      BY <2>4, <2>5, <2>6 DEF Goal
  <1>9. ASSUME NEW w, wrote' = wrote \cup {w}, pc = "working", cmd.apply,
               UNCHANGED <<worldVars, report, runVars, checked, changed, missed>>,
               w \notin {"mail", "assignments"} => InScope(w),
               w = "assignments" => InScope("roles"),
               w = "mail" => cmd.mail /\ InScope("users"),
               w = "idps" => \/ changed
                             \/ /\ "saml" \in found => "pre_authentication" \in checked
                                /\ \A f \in {"authentication", "enrollment"} :
                                      Given(cmd.flow[f]) => f \in checked
        PROVE  Goal
    <2>1. \A n \in CheckNames : Always(n) => n \in checked
      BY <1>9, AllVetted DEF Inv
    <2>2. "Keycloak" \in checked /\ "Authentik" \in checked
      BY <2>1, Names DEF Always
    <2>3. InScope("clients") => {"authorization", "invalidation"} \subseteq checked
      BY <2>1, Names DEF Always, ClientFlowsConcerned
    <2>4. cmd.mail => MailChecks \subseteq checked
      BY <2>1, Names DEF Always, MailConcerned
    <2>5. /\ pc' = pc /\ cmd' = cmd /\ check' = check /\ found' = found
          /\ idps' = idps /\ flows' = flows /\ checked' = checked
          /\ changed' = changed /\ missed' = missed
      BY <1>9 DEF worldVars, runVars
    <2>6. Fresh' /\ Ready'
      BY <1>9, <2>5 DEF Inv, Fresh, Ready, InScope
    <2>7. Vetted' /\ Standing'
      BY <2>5, SameConcerns DEF Inv, Vetted, Standing, Checking
    <2>8. WritesAreVetted'
      BY <1>9, <2>2, <2>3, <2>4, <2>5 DEF Inv, WritesAreVetted, InScope
    <2>9. NoSurprise'
      BY <2>5 DEF Inv, NoSurprise
    <2> QED
      BY <2>6, <2>7, <2>8, <2>9 DEF Goal
  <1>10. CASE Write
    <2>1. /\ wrote' = wrote \cup {Current} /\ Passing /\ Writes(Current) /\ Equipped(Current)
          /\ UNCHANGED <<worldVars, report, runVars, checked, changed, missed>>
      BY <1>10 DEF Write
    <2>2. pc = "working" /\ Current # "mail"
      BY <2>1, PassNames, Lengths DEF Passing, Current, Inv, TypeOK
    <2>3. ASSUME Current = "idps", ~changed,
                 NEW f \in {"authentication", "enrollment"}, Given(cmd.flow[f])
          PROVE  f \in checked
      <3>1. InScope("idps") /\ found = idps
        BY <2>1, <2>2, <2>3 DEF Writes, Inv, Ready
      <3>2. found \cap Supported # {}
        BY <2>1, <2>3 DEF Equipped, Supported
      <3>3. Concerns(f) /\ f \in CheckNames
        BY <2>3, <3>1, <3>2, Names DEF Concerns
      <3> QED
        BY <2>2, <2>3, <3>3, AllStanding DEF Inv
    <2>3a. ASSUME Current = "idps", ~changed, "saml" \in found
           PROVE  "pre_authentication" \in checked
      <3>1. InScope("idps") /\ found = idps
        BY <2>1, <2>2, <2>3a DEF Writes, Inv, Ready
      <3>2. Concerns("pre_authentication") /\ "pre_authentication" \in CheckNames
        BY <2>3a, <3>1, Names DEF Concerns
      <3> QED
        BY <2>2, <2>3a, <3>2, AllStanding DEF Inv
    <2>4. /\ cmd.apply
          /\ Current # "assignments" => InScope(Current)
          /\ Current = "assignments" => InScope("roles")
      BY <2>1 DEF Writes
    <2>5. PICK w : w = Current
      OBVIOUS
    <2>6. Goal
      BY <1>9, <2>1, <2>2, <2>3, <2>3a, <2>4, <2>5
    <2> QED
      BY <2>6 DEF Goal
  <1>11. CASE Mail
    <2>1. /\ pc = "working" /\ cmd.apply /\ cmd.mail /\ InScope("users")
          /\ wrote' = wrote \cup {"mail"}
          /\ UNCHANGED <<worldVars, report, runVars, checked, changed, missed>>
      BY <1>11 DEF Mail, Passed, Writes
    <2>2. PICK w : w = "mail"
      OBVIOUS
    <2>3. Goal
      BY <1>9, <2>1, <2>2
    <2> QED
      BY <2>3 DEF Goal
  <1> QED
    BY <1>1, <1>2, <1>3, <1>4, <1>5, <1>6, <1>7, <1>8, <1>10, <1>11
    DEF Next, Tool, Goal

LEMMA Invariance == Spec => []Inv
  BY InvInit, InvNext, PTL DEF Spec

\* No run is killed by a flow that check_preconditions has seen, unless flows
\* or providers changed, or the option was an empty string.
THEOREM NeverSurprised == Spec => []NoSurprise
  BY Invariance, PTL DEF Inv

\* What is written was selected, applied, and checked beforehand, for every
\* command line and with any number of changes on the way.
THEOREM WritesWereVetted == Spec => []WritesAreVetted
  BY Invariance, PTL DEF Inv

-----------------------------------------------------------------------------
\* The contract.

ReportInv == report \in {NoReport, OtherReport} \/ report.by = "this"

LEMMA ReportInvariance == Spec => []ReportInv
  <1>1. Init => ReportInv
    BY DEF Init, ReportInv
  <1>2. ReportInv /\ [Next]_vars => ReportInv'
    <2> SUFFICES ASSUME ReportInv, [Next]_vars PROVE ReportInv'
      OBVIOUS
    <2>1. ASSUME NEW c \in Commands, Start(c) PROVE ReportInv'
      BY <2>1 DEF Start, ReportInv
    <2>2. CASE Report
      BY <2>2 DEF Report, ReportInv
    <2>3. CASE ReportFails
      BY <2>3 DEF ReportFails, ReportInv
    <2>4. CASE report' = report
      BY <2>4 DEF ReportInv
    <2> QED
      BY <2>1, <2>2, <2>3, <2>4
      DEF Next, Tool, RefuseUsage, Parse, Check, RefuseCheck, Work, LookUp,
          LookUpFails, EndPass, Skip, Crash, Write, Mail, Change, vars
  <1> QED
    BY <1>1, <1>2, PTL DEF Spec

\* The exit code is about the rows that the report has.
LEMMA CodeOfReport ==
    ASSUME TypeOK
    PROVE  ExitCode(rows) = IF \E r \in rows : NeedsFollowUp(r) THEN "1" ELSE "0"
  <1>1. \A r \in rows : r \in RowKinds
    BY CliAssumption DEF TypeOK
  <1>2. \A r \in RowKinds :
            NeedsFollowUp(r) <=> \/ r.outcome \in {"CONFLICT", "FAILED"}
                                 \/ \E t \in r.unmapped : t \notin NonGating
    BY DEF RowKinds, NeedsFollowUp, NonGating
  <1> QED
    BY <1>1, <1>2 DEF ExitCode

LEMMA SaysSame == report' = report => ReportSays' = ReportSays
  BY DEF ReportSays, NeedsFollowUp

\* The safety part of the contract.
VerdictSafety == Contract!Init /\ [][Contract!Next]_(Contract!verdictVars)

LEMMA ContractInit == Init => Contract!Init
  <1> SUFFICES ASSUME Init PROVE Contract!Init
    OBVIOUS
  <1>1. cmd.apply = FALSE /\ ReportSays = "none"
    BY DEF Init, Idle, NoReport, ReportSays
  <1> QED
    BY <1>1 DEF Init, Contract!Init

LEMMA ContractNext ==
    Inv /\ ReportInv /\ [Next]_vars => [Contract!Next]_(Contract!verdictVars)
  <1> SUFFICES ASSUME Inv, ReportInv, [Next]_vars
               PROVE  Contract!Next \/ UNCHANGED Contract!verdictVars
    OBVIOUS
  <1>1. ASSUME NEW c \in Commands, Start(c) PROVE Contract!Begin
    <2>1. c.apply \in BOOLEAN
      BY Bounds DEF CommandLines
    <2>2. ReportSays' = IF ReportSays = "none" THEN "none" ELSE "other"
      BY <1>1 DEF Start, ReportInv, ReportSays, NoReport, OtherReport
    <2> QED
      BY <1>1, <2>1, <2>2 DEF Start, Alive, Contract!Begin, Contract!Alive
  <1>2. ASSUME NEW c, Exit(c)
        PROVE  pc' = "ended" /\ code' = c /\ Contract!End
    BY <1>2 DEF Exit, Contract!End
  <1>3. CASE RefuseUsage
    BY <1>2, <1>3, SaysSame DEF RefuseUsage, Contract!Refuse, Contract!Next
  <1>4. CASE RefuseCheck
    BY <1>2, <1>4, SaysSame DEF RefuseCheck, Contract!Refuse, Contract!Next
  <1>5. CASE Parse \/ Work
    BY <1>5, SaysSame DEF Parse, Work, history, Contract!GoOn, Contract!Next
  <1>6. CASE Check \/ LookUp \/ EndPass \/ Skip \/ Change \/ UNCHANGED vars
    BY <1>6, SaysSame
    DEF Check, LookUp, EndPass, Skip, Change, vars, runVars, history, Contract!verdictVars
  <1>7. CASE LookUpFails
    BY <1>2, <1>7, SaysSame DEF LookUpFails, Passing, Contract!Die, Contract!Alive, Contract!Next
  <1>8. CASE Write \/ Mail
    <2>1. pc = "working" /\ cmd.apply /\ wrote' # {} /\ UNCHANGED <<runVars, report>>
      BY <1>8 DEF Write, Mail, Passing, Passed, Writes
    <2> QED
      BY <2>1, SaysSame DEF runVars, Contract!Write, Contract!Next
  <1>9. CASE Report
    <2>1. /\ pc = "working" /\ pc' = "ended" /\ code' = ExitCode(rows) /\ Contract!End
          /\ report' = [by |-> "this", rows |-> rows]
      BY <1>2, <1>9 DEF Report, Passed
    <2>2. ReportSays' = IF \E r \in rows : NeedsFollowUp(r) THEN "findings" ELSE "clean"
      BY <2>1 DEF ReportSays, NeedsFollowUp
    <2> QED
      BY <2>1, <2>2, CodeOfReport DEF Inv, Contract!Complete, Contract!Next
  <1>10. CASE ReportFails
    <2>1. pc = "working" /\ code' \in {"1", "killed"} /\ Contract!End
      BY <1>2, <1>10 DEF ReportFails, Passed
    <2>2. ReportSays' = ReportSays \/ ReportSays' = "other"
      BY <1>10, SaysSame DEF ReportFails, ReportSays, OtherReport
    <2> QED
      BY <2>1, <2>2 DEF Contract!Die, Contract!Alive, Contract!Next
  <1>11. CASE Crash
    BY <1>2, <1>11, SaysSame DEF Crash, Alive, Contract!Die, Contract!Alive, Contract!Next
  <1> QED
    BY <1>1, <1>3, <1>4, <1>5, <1>6, <1>7, <1>8, <1>9, <1>10, <1>11
    DEF Next, Tool, Contract!Next

\* Every step of the command is a step of the contract or leaves it alone:
\* what exit code and report say is right for every command line, every flow
\* and every kind of row.
THEOREM ImplementsVerdictSafety == Spec => VerdictSafety
  BY ContractInit, ContractNext, Invariance, ReportInvariance, PTL
  DEF Spec, VerdictSafety
=============================================================================
