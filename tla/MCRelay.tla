------------------------------ MODULE MCRelay -------------------------------
(***************************************************************************)
(* For TLC, each on its own: the sessions of the relay, its registry of    *)
(* clients, the client's watch over the relay, and the L2TP dials that     *)
(* join a session.                                                         *)
(***************************************************************************)
EXTENDS RelaySessions, RelayRegistry, RelayFailover, L2tpJoin

VARIABLE part

(* The split is looked at only after a direct probe was answered.          *)
MCInit ==
  /\ SessionsInit /\ RegistryInit /\ FailoverInit /\ Init
  /\ part \in {"sessions", "registry", "failover", "joins"}
  /\ relays.split => relays.direct
  /\ part # "failover" => relays.direct /\ relays.split

(* Only the part chosen moves.                                             *)
MCNext ==
  /\ IF part = "sessions" THEN SessionsNext ELSE UNCHANGED sessionsVars
  /\ IF part = "registry" THEN RegistryNext ELSE UNCHANGED registryVars
  /\ IF part = "failover" THEN FailoverNext ELSE UNCHANGED failoverVars
  /\ IF part = "joins" THEN Next ELSE UNCHANGED vars
  /\ UNCHANGED part

(* The reload thread never stops while the relay runs; systemd starts the  *)
(* relay again.  Nothing is assumed of administrators.                     *)
Registry(A) == part = "registry" /\ A

(* FailoverFairSpec, and FairSpec of L2tpJoin, when they move.             *)
Failover(A) == part = "failover" /\ A
Joins(A) == part = "joins" /\ A

MCFairness ==
  /\ WF_registryVars(Registry(ReloadLists)) /\ WF_registryVars(Registry(ReloadOpens))
  /\ WF_registryVars(Registry(ReloadApplies)) /\ WF_registryVars(Registry(RelayStarts))
  /\ WF_failoverVars(Failover(Poll)) /\ WF_failoverVars(Failover(ProbeEnds))
  /\ WF_failoverVars(Failover(MoveFindsStandbyDown \/ MoveQueues))
  /\ WF_failoverVars(Failover(TransitionBegins))
  /\ WF_failoverVars(Failover(StartEnds \/ MoveEnds))
  /\ WF_vars(Joins(StartSucceeds \/ StartFails))
  /\ WF_vars(Joins(\E g \in Generations : JoinReceives(g) \/ JoinReturns(g)))
  /\ WF_vars(Joins(\E g \in Generations, r \in Routes : Thread(g, r)))

MCSpec ==
  /\ MCInit /\ [][MCNext]_<<sessionsVars, registryVars, failoverVars, vars, part>>
  /\ MCFairness

=============================================================================
