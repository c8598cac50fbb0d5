------------------------------ MODULE Verdict ------------------------------
(***************************************************************************)
(* What whoever calls the command, a person or a script, may conclude from *)
(* its exit code and from the report file.  3 and 2: nothing was written,  *)
(* there is no new report, and 3 came before any request was sent.  0: the *)
(* report is this run's, and nothing in it needs a follow-up.  1: either   *)
(* the report is this run's and something in it does, or the run died, and *)
(* then it may have written anything and the file is not about it.  Cli    *)
(* implements this.                                                        *)
(***************************************************************************)
VARIABLES
    stage,          \* idle, parsing, checking, working, ended
    code,           \* none, 0, 1, 2, 3, or killed
    apply,          \* writes are enabled
    wrote,          \* this run has changed Authentik or sent a mail
    report          \* the report file: none, other (not this run's), clean,
                    \* findings

verdictVars == <<stage, code, apply, wrote, report>>

Reports == {"none", "other", "clean", "findings"}
Alive == stage \in {"parsing", "checking", "working"}

Init ==
    /\ stage = "idle"
    /\ code = "none"
    /\ apply = FALSE
    /\ wrote = FALSE
    /\ report = "none"

Begin ==
    /\ ~Alive
    /\ stage' = "parsing"
    /\ code' = "none"
    /\ apply' \in BOOLEAN
    /\ wrote' = FALSE
    /\ report' = IF report = "none" THEN "none" ELSE "other"

GoOn ==
    /\ \/ stage = "parsing" /\ stage' = "checking"
       \/ stage = "checking" /\ stage' = "working"
    /\ UNCHANGED <<code, apply, wrote, report>>

Write ==
    /\ stage = "working" /\ apply
    /\ wrote' = TRUE
    /\ UNCHANGED <<stage, code, apply, report>>

End == stage' = "ended" /\ UNCHANGED <<apply, wrote>>

Refuse ==
    /\ \/ stage = "parsing" /\ code' \in {"2", "3"}
       \/ stage = "checking" /\ code' = "2"
    /\ End
    /\ report' = report

Complete ==
    /\ stage = "working"
    /\ End
    /\ \/ code' = "0" /\ report' = "clean"
       \/ code' = "1" /\ report' = "findings"

\* Dying while the file is written leaves part of it.
Die ==
    /\ Alive
    /\ End
    /\ code' \in {"1", "killed"}
    /\ report' = report \/ (stage = "working" /\ report' = "other")

Next == Begin \/ GoOn \/ Write \/ Refuse \/ Complete \/ Die

Spec ==
    /\ Init /\ [][Next]_verdictVars
    /\ WF_verdictVars(Refuse \/ Complete \/ Die)
=============================================================================
