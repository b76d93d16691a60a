----------------------------- MODULE MCTraffic ------------------------------
(***************************************************************************)
(* What happens to packets, for TLC, each part on its own: the three of a  *)
(* split capture, fragments and sizes, name lookups and cache flushes, and *)
(* the tap and the path queues.                                            *)
(***************************************************************************)
EXTENDS
  SplitCapture, PacketSizes, NameLookups, LocalTap, PathQueues

VARIABLE part

MCLengths == [p1 |-> 1, p2 |-> 2, p3 |-> 1, p4 |-> 2]

MCInit ==
  /\ part \in {"flows", "verdict", "bypass", "router", "reassembly", "sizes",
               "lookups", "flush", "tap", "queues"}
  /\ part # "verdict" =>
       /\ packet = CHOOSE p \in PacketFacts : Possible(p)
       /\ options = CHOOSE o \in Options : ~(o.own_apps_only /\ o.yields)
  /\ part # "sizes" =>
       /\ session = [mode |-> "relay", kinds |-> {"wireguard"}, link |-> LINK_MTU, limit |-> 0]
       /\ carries = [e \in Endpoints |-> LINK_MTU]
  /\ SInit /\ VInit /\ BInit /\ FInit /\ RInit /\ MInit
  /\ LInit /\ YInit /\ TapInit /\ QInit

(* Only the part chosen moves.                                             *)
MCNext ==
  /\ IF part = "flows" THEN SNext ELSE UNCHANGED sVars
  /\ IF part = "verdict" THEN VNext ELSE UNCHANGED vVars
  /\ IF part = "bypass" THEN BNext ELSE UNCHANGED bVars
  /\ IF part = "router" THEN FNext ELSE UNCHANGED fVars
  /\ IF part = "reassembly" THEN RNext ELSE UNCHANGED rVars
  /\ IF part = "sizes" THEN MNext ELSE UNCHANGED mVars
  /\ IF part = "lookups" THEN LNext ELSE UNCHANGED lookVars
  /\ IF part = "flush" THEN YNext ELSE UNCHANGED yVars
  /\ IF part = "tap" THEN TapNext ELSE UNCHANGED tapVars
  /\ IF part = "queues" THEN QNext ELSE UNCHANGED pqVars
  /\ UNCHANGED part

MCSpec ==
  MCInit /\ [][MCNext]_<<sVars, vVars, bVars, fVars, rVars, mVars, lookVars, yVars, tapVars, pqVars, part>>

(* A packet is decided on once, by whoever has it to decide: the pieces of *)
(* a datagram together, and a lookup by the session it is assigned to.     *)
DecidedOnce == SelectorsAgree /\ VerdictsHold /\ OneRoute /\ LookupsAreAssigned


(* Packets of the size senders are told fit their paths, and those that    *)
(* had to be cut are rebuilt as they were.                                 *)
PacketsFit == SizesFit /\ RebuiltIsSent
=============================================================================
