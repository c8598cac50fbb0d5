--------------------------- MODULE DirectoryPlan ---------------------------
(***************************************************************************)
(* Directory with the memory that a dry run leaves with its reader:        *)
(* promised is what the dry run before the current applied run said, and   *)
(* calm says whether anything but the tool has acted since that dry run    *)
(* began.                                                                  *)
(***************************************************************************)
EXTENDS Directory

VARIABLES
    calm,
    promised        \* NoPlan, or the rows

planVars == <<vars, calm, promised>>

NoPlan == <<>>

PlanInit == Init /\ calm = FALSE /\ promised = NoPlan

Starts == ~Running /\ Running'

PlanNext ==
    /\ Next
    /\ calm' =
          IF Starts /\ ~opts'.apply THEN late = {}
          ELSE calm /\ <<faults, foreign, late>>' = <<faults, foreign, late>>
    /\ promised' =
          IF ~Starts THEN promised
          ELSE IF phase = "done" /\ calm /\ ~opts.apply
                  /\ opts' = [opts EXCEPT !.apply = TRUE] THEN rows
          ELSE NoPlan

PlanSpec == PlanInit /\ [][PlanNext]_planVars

\* "A dry run cannot promise a clean plan that --apply then contradicts"
\* (README): if nothing else happens, the applied run ends with the planned
\* rows, also for collisions that only the run itself brings about.
PlanIsHonoured ==
    phase = "done" /\ opts.apply /\ promised # NoPlan /\ calm =>
        promised = rows
=============================================================================
