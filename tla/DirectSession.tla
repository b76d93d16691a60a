----------------------------- MODULE DirectSession ---------------------------
(***************************************************************************)
(* A direct session of the engine: one worker per node, which watches the  *)
(* health of its transport with probes and authenticated traffic and dials *)
(* the node again (engine/src/session/direct_worker.rs, start.rs,          *)
(* nodes.rs, and DirectPath in engine/src/relay_path.rs).                  *)
(***************************************************************************)
EXTENDS Integers, FiniteSets

CONSTANTS
  Nodes,
  DIRECT_LOSS_LIMIT,
  MaxOpens, MaxProbes        \* bounds: transports and probes per transport

ASSUME DirectConstants ==
  DIRECT_LOSS_LIMIT \in Nat /\ MaxOpens \in Nat /\ MaxProbes \in Nat

VARIABLES
  kinds,       \* node -> its kind
  transport,   \* node -> the number of its transport, or 0
  tunnel,      \* SessionNodes: node -> the transport whose address it has
  watch,       \* node -> PathWatch
  dial,        \* node -> "none", "running", "opened" or "failed"
  redial,      \* node -> next_redial: "none", "later" or "due"
  uplinkUp,
  echoes,     \* node -> sequences of echo replies under way
  directHealthy,     \* healthy_mask
  directStatus,      \* node -> PathSessionStatus
  opens        \* node -> transports opened so far

dVars == <<kinds, transport, tunnel, watch, dial, redial, uplinkUp, echoes, directHealthy, directStatus, opens>>

needs_redial_when_lost(n) == kinds[n] = "openvpn"
terminates_locally(n) == kinds[n] = "socks5"

(* PathWatch::new; "handshake" is handshake_latency_ms having a value:     *)
(* only WireGuard opens before its handshake.                              *)
NewWatch(n) ==
  [handshake |-> kinds[n] # "wireguard", answered |-> FALSE, losses |-> 0, received |-> FALSE,
   pending |-> 0, sequence |-> 0, published |-> FALSE, looked |-> FALSE]

NewStatus(joined) ==
  [joining |-> ~joined, reachable |-> FALSE, sent |-> 0, received |-> 0, lost |-> 0]

(* start_direct opens every node, and one of the session has to open; the  *)
(* nodes here are some of them.                                            *)
DInit ==
  /\ kinds \in [Nodes -> {"wireguard", "openvpn", "socks5"}]
  /\ \E opened \in SUBSET Nodes :
       /\ transport = [n \in Nodes |-> IF n \in opened THEN 1 ELSE 0]
       /\ redial = [n \in Nodes |-> IF n \in opened THEN "none" ELSE "later"]
       /\ directStatus = [n \in Nodes |-> NewStatus(n \in opened)]
  /\ tunnel = transport /\ opens = transport
  /\ watch = [n \in Nodes |-> NewWatch(n)]
  /\ dial = [n \in Nodes |-> "none"]
  /\ uplinkUp = TRUE
  /\ echoes = [n \in Nodes |-> {}]
  /\ directHealthy = {}

-----------------------------------------------------------------------------
(* The dial's own thread, the clock and the uplink monitor.                *)
DialEnds(n, ok) ==
  /\ dial[n] = "running" /\ (ok => opens[n] < MaxOpens)
  /\ dial' = [dial EXCEPT ![n] = IF ok THEN "opened" ELSE "failed"]
  /\ UNCHANGED <<transport, tunnel, watch, redial, uplinkUp, echoes, directHealthy, directStatus, opens>>

BackoffPasses(n) ==
  /\ redial[n] = "later"
  /\ redial' = [redial EXCEPT ![n] = "due"]
  /\ UNCHANGED <<transport, tunnel, watch, dial, uplinkUp, echoes, directHealthy, directStatus, opens>>

UplinkTurns ==
  /\ uplinkUp' = ~uplinkUp
  /\ UNCHANGED <<transport, tunnel, watch, dial, redial, echoes, directHealthy, directStatus, opens>>

LivenessWindowPasses(n) ==
  /\ watch[n].received
  /\ watch' = [watch EXCEPT ![n].received = FALSE, ![n].looked = FALSE]
  /\ UNCHANGED <<transport, tunnel, dial, redial, uplinkUp, echoes, directHealthy, directStatus, opens>>

-----------------------------------------------------------------------------
(* run_direct_path: a dial that opened replaces the transport, and health  *)
(* starts from nothing; replies to the old one are gone with it.           *)
Installed(n) ==
  /\ dial[n] = "opened"
  /\ dial' = [dial EXCEPT ![n] = "none"]
  /\ opens' = [opens EXCEPT ![n] = @ + 1]
  /\ transport' = [transport EXCEPT ![n] = opens[n] + 1]
  /\ tunnel' = [tunnel EXCEPT ![n] = opens[n] + 1]
  /\ watch' = [watch EXCEPT ![n] = NewWatch(n)]
  /\ directHealthy' = directHealthy \ {n}
  /\ directStatus' = [directStatus EXCEPT ![n].joining = FALSE, ![n].reachable = FALSE]
  /\ echoes' = [echoes EXCEPT ![n] = {}]
  /\ UNCHANGED <<redial, uplinkUp>>

DialFailed(n) ==
  /\ dial[n] = "failed"
  /\ dial' = [dial EXCEPT ![n] = "none"]
  /\ redial' = [redial EXCEPT ![n] = "later"]
  /\ UNCHANGED <<transport, tunnel, watch, uplinkUp, echoes, directHealthy, directStatus, opens>>

begin_dial(n) ==
  /\ dial[n] = "none" /\ redial[n] = "due" /\ uplinkUp
  /\ redial' = [redial EXCEPT ![n] = "none"]
  /\ dial' = [dial EXCEPT ![n] = "running"]
  /\ UNCHANGED <<transport, tunnel, watch, uplinkUp, echoes, directHealthy, directStatus, opens>>

probe_outage(n) ==
  /\ terminates_locally(n) \/ watch[n].answered
  /\ watch[n].losses >= DIRECT_LOSS_LIMIT
  /\ ~watch[n].received

(* Health is decided, a lost link given a redial, and what moved is        *)
(* published.  The first redial of an outage is due at once.               *)
PublishHealth(n) ==
  LET losing == probe_outage(n)
      up == watch[n].handshake /\ ~losing
  IN /\ transport[n] # 0
     /\ redial' = IF losing /\ needs_redial_when_lost(n) /\ dial[n] = "none" /\ redial[n] = "none"
                  THEN [redial EXCEPT ![n] = "due"] ELSE redial
     /\ directHealthy' = IF up = watch[n].published THEN directHealthy
                   ELSE IF up THEN directHealthy \cup {n} ELSE directHealthy \ {n}
     /\ directStatus' = IF up = watch[n].published THEN directStatus ELSE [directStatus EXCEPT ![n].reachable = up]
     /\ watch' = [watch EXCEPT ![n].published = up, ![n].looked = TRUE]
     /\ UNCHANGED <<transport, tunnel, dial, uplinkUp, echoes, opens>>

(* A probe, when none is pending; the peer may answer it.  Until one probe *)
(* is answered the probes of a node that may filter echoes are not counted.*)
send_probe(n) ==
  LET w == watch[n]
      counted == w.answered \/ terminates_locally(n)
  IN /\ transport[n] # 0 /\ w.pending = 0 /\ w.sequence < MaxProbes
     /\ watch' = [watch EXCEPT ![n].sequence = w.sequence + 1, ![n].pending = w.sequence + 1, ![n].looked = FALSE]
     /\ directStatus' = [directStatus EXCEPT ![n].sent = IF counted THEN @ + 1 ELSE @]
     /\ \/ UNCHANGED echoes
        \/ w.handshake /\ echoes' = [echoes EXCEPT ![n] = @ \cup {w.sequence + 1}]
     /\ UNCHANGED <<transport, tunnel, dial, redial, uplinkUp, directHealthy, opens>>

take_matching_probe(n, s) == watch[n].pending = s

(* An echo reply counts only for the probe it answers.                     *)
Reply(n, s) ==
  LET first == ~watch[n].answered
  IN /\ transport[n] # 0 /\ s \in echoes[n]
     /\ echoes' = [echoes EXCEPT ![n] = @ \ {s}]
     /\ IF take_matching_probe(n, s)
        THEN /\ watch' = [watch EXCEPT ![n].pending = 0, ![n].answered = TRUE, ![n].losses = 0,
                                       ![n].received = TRUE, ![n].looked = FALSE]
             /\ directStatus' = [directStatus EXCEPT ![n].received = @ + 1,
                             ![n].sent = IF first /\ ~terminates_locally(n) THEN @ + 1 ELSE @]
        ELSE UNCHANGED <<watch, directStatus>>
     /\ UNCHANGED <<transport, tunnel, dial, redial, uplinkUp, directHealthy, opens>>

(* A handshake completes, and the node sends packets: authenticated ones,  *)
(* or for a local stack payload it forwarded.                              *)
Traffic(n) ==
  /\ transport[n] # 0 /\ ~(watch[n].handshake /\ watch[n].received)
  /\ watch' = [watch EXCEPT ![n].handshake = TRUE, ![n].received = TRUE, ![n].looked = FALSE]
  /\ UNCHANGED <<transport, tunnel, dial, redial, uplinkUp, echoes, directHealthy, directStatus, opens>>

ProbeTimesOut(n) ==
  LET counted == watch[n].answered \/ terminates_locally(n)
  IN /\ transport[n] # 0 /\ watch[n].pending # 0
     /\ watch' = [watch EXCEPT ![n].pending = 0, ![n].looked = FALSE,
                    ![n].losses = IF counted /\ @ < DIRECT_LOSS_LIMIT THEN @ + 1 ELSE @]
     /\ directStatus' = [directStatus EXCEPT ![n].lost = IF counted THEN @ + 1 ELSE @]
     /\ UNCHANGED <<transport, tunnel, dial, redial, uplinkUp, echoes, directHealthy, opens>>

DNext ==
  \/ \E n \in Nodes :
       \/ \E ok \in BOOLEAN : DialEnds(n, ok)
       \/ BackoffPasses(n) \/ LivenessWindowPasses(n)
       \/ Installed(n) \/ DialFailed(n) \/ begin_dial(n) \/ PublishHealth(n)
       \/ send_probe(n) \/ Traffic(n) \/ ProbeTimesOut(n)
       \/ \E s \in echoes[n] : Reply(n, s)
  \/ UplinkTurns

DSpec == DInit /\ [][DNext /\ UNCHANGED kinds]_dVars

-----------------------------------------------------------------------------
DTypeOK == \A n \in Nodes : /\ dial[n] \in {"none", "running", "opened", "failed"}
                            /\ redial[n] \in {"none", "later", "due"}

(* What the session says of a node is about the transport it has now:      *)
(*  - dispatch, the status and the worker agree on its health, and packets *)
(*    are rewritten to the address of the transport that carries them;     *)
(*  - a node without a transport, and an OpenVPN link the worker has found *)
(*    lost, are always being dialled or waiting to be;                     *)
(*  - a probe is counted once, as answered, lost or pending, whatever      *)
(*    order late replies, timeouts and redials come in; one that another   *)
(*    transport took along stays unanswered.                               *)
NodesAreWatched ==
  /\ DTypeOK
  /\ \A n \in Nodes :
       /\ (n \in directHealthy) = (transport[n] # 0 /\ watch[n].published)
       /\ directStatus[n].reachable = (n \in directHealthy)
       /\ directStatus[n].joining = (transport[n] = 0)
       /\ tunnel[n] = transport[n]
       /\ transport[n] = 0 \/ (needs_redial_when_lost(n) /\ watch[n].looked /\ probe_outage(n)) =>
            dial[n] # "none" \/ redial[n] # "none"
       /\ directStatus[n].received + directStatus[n].lost
            + (IF watch[n].pending # 0 /\ (watch[n].answered \/ terminates_locally(n)) THEN 1 ELSE 0)
          <= directStatus[n].sent
       /\ watch[n].losses >= DIRECT_LOSS_LIMIT => directStatus[n].lost >= DIRECT_LOSS_LIMIT

=============================================================================
