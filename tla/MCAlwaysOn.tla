----------------------------- MODULE MCAlwaysOn -----------------------------
(***************************************************************************)
(* Parts that never come to rest, for TLC, each on its own: the recovery   *)
(* of a session's paths, and the slots of the service.                     *)
(***************************************************************************)
EXTENDS PathRecovery, ServiceSlots

VARIABLE part

Request(m, a, n) == [mode |-> m, app |-> a, native |-> n]

MCGame == {Request("split", FALSE, FALSE), Request("all", FALSE, FALSE)}
MCVpn == {Request("split", TRUE, FALSE), Request("all", FALSE, TRUE)}
MCSplitVpn == {Request("split", TRUE, FALSE)}
OneEach == [s \in Slots |-> 1]
MCBypasses == {{}, {"endpoint"}}

MCInit ==
  /\ Init /\ SlotsInit
  /\ part \in {"recovery", "slots"}

(* Only the part chosen moves.                                             *)
MCNext ==
  /\ IF part = "recovery" THEN Next ELSE UNCHANGED vars
  /\ IF part = "slots" THEN SlotsNext ELSE UNCHANGED slotsVars
  /\ UNCHANGED part

(* Fairness, when it is the paths that move.                               *)
Recovery(A) == part = "recovery" /\ A

MCFairness ==
  /\ \A p \in Paths :
       /\ WF_vars(Recovery(DialInstalled(p))) /\ WF_vars(Recovery(DialFailed(p)))
       /\ WF_vars(Recovery(DialDiscarded(p))) /\ WF_vars(Recovery(ConsiderRedial(p)))
       /\ WF_vars(Recovery(SendProbe(p))) /\ WF_vars(Recovery(ProbeExpires(p)))
       /\ WF_vars(Recovery(Pong(p))) /\ WF_vars(Recovery(DialStep(p)))
  /\ WF_vars(Recovery(\E reply \in BOOLEAN : UplinkProbe(reply)))
  /\ WF_vars(Recovery(UplinkReturns))
  /\ WF_vars(Recovery(WindowPasses))

MCSpec == MCInit /\ [][MCNext]_<<vars, slotsVars, part>> /\ MCFairness

(* The slots alone, for what they come to.                                 *)
MCSlotsInit == MCInit /\ part = "slots"

MCSlotsSpec ==
  /\ MCSlotsInit
  /\ [][MCNext]_<<vars, slotsVars, part>> /\ SlotsFairness

(* Every path of a session recovers.                                       *)
PathsRecover == part = "recovery" => EveryPathRecovers

(* What both slots come to: the VPN beside a game that takes all traffic   *)
(* ends, and neither a lock nor a lease that ran out is held for ever.     *)
SlotsMoveOn == AllTrafficEndsVpn /\ NothingIsHeldForEver
=============================================================================
