------------------------- MODULE MCRepliesAndRoutes -------------------------
(***************************************************************************)
(* For TLC, each on its own: the addresses a relay answers to, and the     *)
(* choice among three routes with figures around the thresholds.           *)
(***************************************************************************)
EXTENDS ReturnPaths, Scheduler

VARIABLE part

Grid(e, t, j, l) == [endpoint |-> e, latency |-> t, jitter |-> j, loss |-> l]

OneServer == <<Grid({"a"}, {20, 160}, {0, 60}, {0}),
               Grid({"a", "b"}, {26}, {0}, {0}),
               Grid({"b"}, {26}, {0}, {0})>>
Unnamed == <<Grid({"none"}, {20, 160}, {0}, {0}),
             Grid({"a"}, {20}, {0}, {0}),
             Grid({"b"}, {26}, {0}, {0, 60})>>
MCProfiles == {OneServer, Unnamed}

(* What does not move is in one state beside the part that does.           *)
MCInit ==
  /\ Init /\ SchedulerInit
  /\ part \in {"replies", "routes"}
  /\ part = "routes" => decision_mask = Paths
  /\ part = "replies" =>
       /\ strategy = "AllPaths" /\ profile = OneServer
       /\ fallback = Routes /\ metrics[2].endpoint = "a"

(* Only the part chosen moves.                                             *)
MCNext ==
  /\ IF part = "replies" THEN Next ELSE UNCHANGED vars
  /\ IF part = "routes" THEN SchedulerNext ELSE UNCHANGED schedulerVars
  /\ UNCHANGED part

MCSpec == MCInit /\ [][MCNext]_<<vars, schedulerVars, part>>

=============================================================================
