---------------------------- MODULE SourcesPlan ----------------------------
(***************************************************************************)
(* Sources with the memory that a dry run leaves with its reader: promised *)
(* is what the dry run before the current applied run said, and calm says  *)
(* whether anything but the tool has acted since that dry run began.       *)
(***************************************************************************)
EXTENDS Sources

VARIABLES
    calm,
    promised        \* NoPlan, or the rows and what they say is missing

planVars == <<vars, calm, promised>>

NoPlan == [res |-> "none"]

Rows == [res |-> res,
         tags |-> [a \in Aliases |-> tags[a] \ {"federated_link_unwritable"}]]

PlanInit == Init /\ calm = FALSE /\ promised = NoPlan

Starts == ~Running /\ Running'

PlanNext ==
    /\ Next
    /\ calm' =
          IF Starts /\ ~opts'.apply THEN TRUE
          ELSE calm /\ <<faults, foreign, late>>' = <<faults, foreign, late>>
    /\ promised' =
          IF ~Starts THEN promised
          ELSE IF phase = "done" /\ ~opts.apply
                  /\ opts' = [opts EXCEPT !.apply = TRUE] THEN Rows
          ELSE NoPlan

PlanSpec == PlanInit /\ [][PlanNext]_planVars

\* Every slug is free or held by a source of the provider's own type; one of
\* another type is found by a dry run, but cannot be updated.
SlugsMatch ==
    \A a \in Supported :
        source[SlugOf[a]] # NoSource => source[SlugOf[a]].kind = KindOf[a]

\* What a dry run says of the providers, secrets and flows that are missing
\* included, is what the applied run then says if nothing else happens: the
\* count of providers created disabled is known before --apply, not just after
\* (migrator.py:139-143).
PlanIsHonoured ==
    phase = "links" /\ opts.apply /\ promised # NoPlan /\ calm /\ SlugsMatch =>
        promised = Rows
=============================================================================
