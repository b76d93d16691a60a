--------------------------- MODULE MCServiceParts ---------------------------
(***************************************************************************)
(* For TLC, each on its own: the start of a session, direct sessions, the  *)
(* service's hold on an engine's capture, the routes and the L2TP          *)
(* connection left with Windows, the service's requests, and the control   *)
(* of loss repair.                                                         *)
(***************************************************************************)
EXTENDS
  RelayStart, DirectSession, CaptureControl, DirectRoutes, NativeL2tp, ServiceListener, LossRepair

VARIABLE part

Net(a, p) == [address |-> a, prefix |-> p]
MCSpecs == {
  [networks |-> {Net(2, 3), Net(3, 3), Net(4, 2), Net(0, 0)}, exact |-> {}, suffixes |-> {<<"ir">>}],
  [networks |-> {Net(5, 2)}, exact |-> {<<"ir">>}, suffixes |-> {}]}
MCReplies == {
  [question |-> <<"a", "ir">>, names |-> {<<"a", "ir">>}, addresses |-> {1, 7}],
  [question |-> <<"com">>, names |-> {<<"com">>, <<"ir">>}, addresses |-> {0}]}

Want(h, m) == [healthy |-> h, decision |-> OfferWorkers, multi |-> 4, mtu |-> m]
MCWanted == {Want({}, 1), Want({"u"}, 1), Want({"u", "v"}, 2)}

MCInit ==
  /\ part \in {"start", "direct", "capture", "routes", "native", "listener", "offers", "losses"}
  /\ part # "start" => served = {}
  /\ part # "direct" =>
       /\ kinds = [n \in Nodes |-> "wireguard"]
       /\ transport = [n \in Nodes |-> 0]
  /\ part # "capture" =>
       /\ setup = [mode |-> "all", remote |-> FALSE, vpn |-> FALSE]
       /\ foreign = {}
  /\ JInit /\ DInit /\ KInit /\ XInit /\ NInit /\ SrvInit /\ NegInit /\ PlInit

(* Only the part chosen moves.                                             *)
MCNext ==
  /\ IF part = "start" THEN JNext ELSE UNCHANGED jVars
  /\ IF part = "direct" THEN DNext ELSE UNCHANGED dVars
  /\ IF part = "capture" THEN KNext ELSE UNCHANGED kVars
  /\ IF part = "routes" THEN XNext ELSE UNCHANGED xVars
  /\ IF part = "native" THEN NNext ELSE UNCHANGED nVars
  /\ IF part = "listener" THEN SrvNext ELSE UNCHANGED srvVars
  /\ IF part = "offers" THEN NegNext ELSE UNCHANGED negVars
  /\ IF part = "losses" THEN PlNext ELSE UNCHANGED plVars
  /\ UNCHANGED <<part, kinds>>

(* NegFairness, when it is the negotiation that moves.                     *)
Offers(A) == part = "offers" /\ A

MCFairness ==
  /\ \A w \in OfferWorkers :
       /\ WF_negVars(Offers(offer_due(w))) /\ WF_negVars(Offers(TakeTurn(w)))
       /\ WF_negVars(Offers(SendOffer(w)))
  /\ WF_negVars(Offers(OfferClock))
  /\ WF_negVars(Offers(offer_accepted(1))) /\ WF_negVars(Offers(apply_repair_offer(1)))

MCSpec ==
  /\ MCInit
  /\ [][MCNext]_<<jVars, dVars, kVars, xVars, nVars, srvVars, negVars, plVars, part>>
  /\ MCFairness


=============================================================================
