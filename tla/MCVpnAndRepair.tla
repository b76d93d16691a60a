-------------------------- MODULE MCVpnAndRepair ----------------------------
(***************************************************************************)
(* For TLC, each on its own: the VPN's controller, and the two ends of     *)
(* loss repair.  The receiver sees two groups whose packets share decoder  *)
(* slots, a group of three, groups of one, and numbers far enough apart    *)
(* for the replay window to leave a group behind.                          *)
(***************************************************************************)
EXTENDS VpnSession, RepairIngress, RepairSender

VARIABLE part

MCSequences == 1..8

Pairs == (3 :> {1, 2}) @@ (6 :> {4, 5})
MCGroupings == { Pairs,
                 (4 :> {1, 2, 3}) @@ (8 :> {5, 6, 7}),
                 (4 :> {1, 2, 3}) @@ (6 :> {5}),
                 (3 :> {1}) @@ (5 :> {2, 4}) }

MCInit ==
  /\ VpnInit /\ IngressInit /\ SenderInit
  /\ part \in {"vpn", "ingress", "sender"}
  /\ part # "ingress" => groups = Pairs
  /\ part # "sender" => encoder.group_size = 1

(* Only the part chosen moves.                                             *)
MCNext ==
  /\ IF part = "vpn" THEN VpnNext ELSE UNCHANGED vpnVars
  /\ IF part = "ingress" THEN IngressNext ELSE UNCHANGED ingressVars
  /\ IF part = "sender" THEN SenderNext ELSE UNCHANGED senderVars
  /\ UNCHANGED part

(* FairSpec of VpnSession, when it moves.                                  *)
Vpn(A) == part = "vpn" /\ A

(* Threads that have the processor keep running, deadlines pass, and the   *)
(* stopping thread finishes; nothing is asked of the idle timeout.         *)
Sender(A) == part = "sender" /\ A

MCFairness ==
  /\ WF_vpnVars(Vpn(Controller)) /\ WF_vpnVars(Vpn(Service)) /\ WF_vpnVars(Vpn(ReconnectTimer))
  /\ WF_vpnVars(Vpn(LateRequest)) /\ WF_vpnVars(Vpn(LeaseExpires))
  /\ WF_vpnVars(Vpn(PollSends)) /\ WF_vpnVars(Vpn(PollAnswered)) /\ WF_vpnVars(Vpn(PollApplied))
  /\ WF_vpnVars(Vpn(Game)) /\ WF_vpnVars(Vpn(GameLeaseExpires)) /\ WF_vpnVars(Vpn(NodeReturns))
  /\ WF_senderVars(Sender(FlusherLocks)) /\ WF_senderVars(Sender(FlusherReadsStop))
  /\ WF_senderVars(Sender(FlusherWaits)) /\ WF_senderVars(Sender(FlusherCloses))
  /\ WF_senderVars(Sender(FlusherTimesOut)) /\ WF_senderVars(Sender(GroupAges))
  /\ WF_senderVars(Sender(wake_flusher))
  /\ \A t \in Threads : WF_senderVars(Sender(notify_one(t)))

MCSpec ==
  MCInit /\ [][MCNext]_<<vpnVars, ingressVars, senderVars, part>> /\ MCFairness

(* The receiver delivers each packet once, as it was sent, and leaves no   *)
(* repair waiting that it could use.                                       *)
RepairsAreUsed == ConsumedIsDeliveredOnce /\ NoReadyRepairWaits
=============================================================================
