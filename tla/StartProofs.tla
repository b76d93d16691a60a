----------------------------- MODULE StartProofs -----------------------------
(***************************************************************************)
(* What a session starts it accounts for, for any number of nodes, routes, *)
(* addresses and attempts.                                                 *)
(*                                                                         *)
(* DirectSession: every node of a direct session is watched or redialled,  *)
(* and its figures add up.  The inductive invariant, DirectInv, holds node *)
(* by node (NodeInv): what the worker knows agrees with what it has        *)
(* published (Agreed), a node that is down or loses probes has a dial or a *)
(* redial to wait for (Awaited), and a probe is counted once (Tallied).    *)
(*                                                                         *)
(* RelayStart: every route of a relay session is open, joining or skipped  *)
(* for a reason.  The inductive invariant, StartInv, adds to what          *)
(* RoutesAreAccountedFor says that a dial which has ended and is still     *)
(* listened to has left a last word (Owed), that the service's dials wait  *)
(* until the session has started (Dialled), and that the addresses of the  *)
(* routes still joining are routed around the capture already (Gated).     *)
(***************************************************************************)
EXTENDS RelayStart, DirectSession, WellFoundedInduction, TLAPS

(* The nodes of a direct session.                                          *)
PathWatches ==
  [handshake : BOOLEAN, answered : BOOLEAN, losses : Nat, received : BOOLEAN,
   pending : Nat, sequence : Nat, published : BOOLEAN, looked : BOOLEAN]
Statuses == [joining : BOOLEAN, reachable : BOOLEAN, sent : Nat, received : Nat, lost : Nat]
Kinds == {"wireguard", "openvpn", "socks5"}

DTyped ==
  /\ kinds \in [Nodes -> Kinds]
  /\ transport \in [Nodes -> Nat] /\ tunnel \in [Nodes -> Nat] /\ opens \in [Nodes -> Nat]
  /\ watch \in [Nodes -> PathWatches] /\ directStatus \in [Nodes -> Statuses]
  /\ dial \in [Nodes -> {"none", "running", "opened", "failed"}]
  /\ redial \in [Nodes -> {"none", "later", "due"}]
  /\ echoes \in [Nodes -> SUBSET (Nat \ {0})]

Counting(k, w) == w.answered \/ k = "socks5"
Lossy(k, w) == Counting(k, w) /\ w.losses >= DIRECT_LOSS_LIMIT /\ ~w.received

(* What the worker of a node of kind k knows and what it has published. *)
Agreed(t, u, w, h, st) ==
  /\ h <=> t # 0 /\ w.published
  /\ st.reachable <=> h
  /\ st.joining <=> t = 0
  /\ u = t
Awaited(k, t, w, d, r) ==
  t = 0 \/ (k = "openvpn" /\ w.looked /\ Lossy(k, w)) => d # "none" \/ r # "none"
Tallied(k, w, st) ==
  /\ st.received + st.lost + (IF w.pending # 0 /\ Counting(k, w) THEN 1 ELSE 0) <= st.sent
  /\ w.losses <= st.lost

NodeInv(n) ==
  /\ Agreed(transport[n], tunnel[n], watch[n], n \in directHealthy, directStatus[n])
  /\ Awaited(kinds[n], transport[n], watch[n], dial[n], redial[n])
  /\ Tallied(kinds[n], watch[n], directStatus[n])

DirectInv == DTyped /\ \A n \in Nodes : NodeInv(n)

LEMMA NewWatchFields ==
  ASSUME DTyped, NEW n \in Nodes
  PROVE  /\ NewWatch(n) \in PathWatches /\ ~NewWatch(n).published /\ ~NewWatch(n).looked
         /\ NewWatch(n).pending = 0 /\ NewWatch(n).losses = 0
BY Zenon DEF NewWatch, PathWatches, DTyped

LEMMA NodesStart == DInit => DirectInv
<1>. SUFFICES ASSUME DInit PROVE DirectInv
  BY Zenon
<1>1. PICK opened \in SUBSET Nodes :
        /\ transport = [n \in Nodes |-> IF n \in opened THEN 1 ELSE 0]
        /\ redial = [n \in Nodes |-> IF n \in opened THEN "none" ELSE "later"]
        /\ directStatus = [n \in Nodes |-> NewStatus(n \in opened)]
  BY Zenon DEF DInit
<1>2. /\ tunnel = transport /\ opens = transport /\ kinds \in [Nodes -> Kinds]
      /\ watch = [n \in Nodes |-> NewWatch(n)] /\ dial = [n \in Nodes |-> "none"]
      /\ echoes = [n \in Nodes |-> {}] /\ directHealthy = {}
  BY Zenon DEF DInit, Kinds
<1>3. \A n \in Nodes : /\ NewWatch(n) \in PathWatches /\ ~NewWatch(n).published /\ ~NewWatch(n).looked
                       /\ NewWatch(n).pending = 0 /\ NewWatch(n).losses = 0
  BY Zenon, <1>2 DEF NewWatch, PathWatches
<1>4. \A n \in Nodes :
        /\ directStatus[n] \in Statuses /\ ~directStatus[n].reachable
        /\ directStatus[n].joining <=> n \notin opened
        /\ directStatus[n].sent = 0 /\ directStatus[n].received = 0 /\ directStatus[n].lost = 0
  BY Zenon, <1>1 DEF NewStatus, Statuses
<1>5. /\ transport \in [Nodes -> Nat] /\ redial \in [Nodes -> {"none", "later", "due"}]
      /\ directStatus \in [Nodes -> Statuses]
  BY Zenon, <1>1, <1>4
<1>6. DTyped
  BY Zenon, <1>2, <1>3, <1>5 DEF DTyped
<1>7. ASSUME NEW n \in Nodes PROVE NodeInv(n)
  <2>1. watch[n] = NewWatch(n)
    BY Zenon, <1>2
  <2>2. Agreed(transport[n], tunnel[n], watch[n], n \in directHealthy, directStatus[n])
    BY <1>1, <1>2, <1>3, <1>4, <2>1 DEF Agreed
  <2>3. Awaited(kinds[n], transport[n], watch[n], dial[n], redial[n])
    BY <1>1, <1>3, <2>1 DEF Awaited
  <2>4. Tallied(kinds[n], watch[n], directStatus[n])
    BY <1>3, <1>4, <2>1 DEF Tallied
  <2>. QED  BY Zenon, <2>2, <2>3, <2>4 DEF NodeInv
<1>. QED  BY Zenon, <1>6, <1>7 DEF DirectInv

(* A step of one node leaves the others as they were. *)
OthersKept(n) ==
  \A m \in Nodes \ {n} :
    /\ kinds'[m] = kinds[m] /\ transport'[m] = transport[m] /\ tunnel'[m] = tunnel[m]
    /\ watch'[m] = watch[m] /\ directStatus'[m] = directStatus[m]
    /\ dial'[m] = dial[m] /\ redial'[m] = redial[m]
    /\ m \in directHealthy' <=> m \in directHealthy

LEMMA OneNode ==
  ASSUME DirectInv, DTyped', NEW n \in Nodes, OthersKept(n),
         Agreed(transport'[n], tunnel'[n], watch'[n], n \in directHealthy', directStatus'[n]),
         Awaited(kinds'[n], transport'[n], watch'[n], dial'[n], redial'[n]),
         Tallied(kinds'[n], watch'[n], directStatus'[n])
  PROVE  DirectInv'
<1>1. ASSUME NEW m \in Nodes, m # n PROVE NodeInv(m)'
  BY <1>1 DEF DirectInv, NodeInv, OthersKept, Agreed
<1>2. NodeInv(n)'
  BY Zenon DEF NodeInv
<1>. QED  BY Zenon, <1>1, <1>2 DEF DirectInv

LEMMA DialSteps ==
  ASSUME DirectInv, NEW n \in Nodes, UNCHANGED kinds,
         (\E ok \in BOOLEAN : DialEnds(n, ok)) \/ BackoffPasses(n) \/ DialFailed(n) \/ begin_dial(n)
  PROVE  DirectInv'
<1>1. /\ DTyped /\ NodeInv(n)
      /\ UNCHANGED <<transport, tunnel, watch, echoes, directHealthy, directStatus, opens>>
  BY Zenon DEF DirectInv, DialEnds, BackoffPasses, DialFailed, begin_dial
<1>2. /\ dial' \in [Nodes -> {"none", "running", "opened", "failed"}]
      /\ redial' \in [Nodes -> {"none", "later", "due"}]
      /\ \A m \in Nodes \ {n} : dial'[m] = dial[m] /\ redial'[m] = redial[m]
      /\ dial[n] # "none" \/ redial[n] # "none" => dial'[n] # "none" \/ redial'[n] # "none"
  BY Zenon, <1>1 DEF DTyped, DialEnds, BackoffPasses, DialFailed, begin_dial
<1>3. DTyped'
  BY Zenon, <1>1, <1>2 DEF DTyped
<1>4. OthersKept(n)
  BY Zenon, <1>1, <1>2 DEF OthersKept
<1>5. Awaited(kinds'[n], transport'[n], watch'[n], dial'[n], redial'[n])
  BY Zenon, <1>1, <1>2 DEF NodeInv, Awaited
<1>6. /\ Agreed(transport'[n], tunnel'[n], watch'[n], n \in directHealthy', directStatus'[n])
      /\ Tallied(kinds'[n], watch'[n], directStatus'[n])
  BY Zenon, <1>1 DEF NodeInv
<1>. QED  BY Zenon, <1>3, <1>4, <1>5, <1>6, OneNode

LEMMA InstalledSteps ==
  ASSUME DirectInv, NEW n \in Nodes, UNCHANGED kinds, Installed(n)
  PROVE  DirectInv'
<1>. DEFINE w == NewWatch(n)
            st == [directStatus[n] EXCEPT !.joining = FALSE, !.reachable = FALSE]
<1>1. /\ DTyped /\ NodeInv(n) /\ directStatus[n] \in Statuses /\ opens[n] \in Nat
      /\ dial' = [dial EXCEPT ![n] = "none"] /\ opens' = [opens EXCEPT ![n] = opens[n] + 1]
      /\ transport' = [transport EXCEPT ![n] = opens[n] + 1] /\ tunnel' = [tunnel EXCEPT ![n] = opens[n] + 1]
      /\ watch' = [watch EXCEPT ![n] = w] /\ directHealthy' = directHealthy \ {n}
      /\ echoes' = [echoes EXCEPT ![n] = {}] /\ redial' = redial
  BY Zenon DEF DirectInv, DTyped, Installed
<1>2. directStatus' = [directStatus EXCEPT ![n] = st]
  BY Zenon DEF Installed
<1>3. /\ w \in PathWatches /\ ~w.published /\ ~w.looked /\ w.pending = 0 /\ w.losses = 0
  BY Zenon, <1>1, NewWatchFields
<1>4. /\ st \in Statuses /\ ~st.joining /\ ~st.reachable /\ st.sent = directStatus[n].sent
      /\ st.received = directStatus[n].received /\ st.lost = directStatus[n].lost
  BY Zenon, <1>1 DEF Statuses
<1>. HIDE DEF w, st
<1>5. DTyped'
  BY <1>1, <1>2, <1>3, <1>4 DEF DTyped
<1>6. OthersKept(n)
  BY Zenon, <1>1, <1>2 DEF OthersKept, DTyped
<1>7. /\ watch'[n] = w /\ directStatus'[n] = st /\ transport'[n] = opens[n] + 1 /\ tunnel'[n] = opens[n] + 1
      /\ n \notin directHealthy'
  BY Zenon, <1>1, <1>2 DEF DTyped
<1>8. Agreed(transport'[n], tunnel'[n], watch'[n], n \in directHealthy', directStatus'[n])
  BY <1>1, <1>3, <1>4, <1>7 DEF Agreed
<1>9. Awaited(kinds'[n], transport'[n], watch'[n], dial'[n], redial'[n])
  BY <1>1, <1>3, <1>7 DEF Awaited
<1>10. Tallied(kinds'[n], watch'[n], directStatus'[n])
  <2>1. directStatus[n].received + directStatus[n].lost <= directStatus[n].sent
    BY <1>1 DEF NodeInv, Tallied, Statuses
  <2>. QED  BY <1>1, <1>3, <1>4, <1>7, <2>1 DEF Tallied, Statuses
<1>. QED  BY Zenon, <1>5, <1>6, <1>8, <1>9, <1>10, OneNode

LEMMA PublishSteps ==
  ASSUME DirectInv, NEW n \in Nodes, UNCHANGED kinds, PublishHealth(n)
  PROVE  DirectInv'
<1>. DEFINE k == kinds[n]
            old == watch[n]
            losing == probe_outage(n)
            up == old.handshake /\ ~losing
            w == [old EXCEPT !.published = up, !.looked = TRUE]
            st == IF up = old.published THEN directStatus[n] ELSE [directStatus[n] EXCEPT !.reachable = up]
<1>1. /\ DTyped /\ NodeInv(n) /\ directStatus[n] \in Statuses /\ old \in PathWatches
      /\ transport[n] # 0 /\ UNCHANGED <<transport, tunnel, dial, echoes, opens>>
      /\ redial' = IF losing /\ k = "openvpn" /\ dial[n] = "none" /\ redial[n] = "none"
                   THEN [redial EXCEPT ![n] = "due"] ELSE redial
      /\ directHealthy' = IF up = old.published THEN directHealthy
                          ELSE IF up THEN directHealthy \cup {n} ELSE directHealthy \ {n}
  BY Zenon DEF DirectInv, DTyped, PublishHealth, needs_redial_when_lost
<1>2. /\ watch' = [watch EXCEPT ![n] = w]
      /\ directStatus' = [directStatus EXCEPT ![n] = st]
  <2>1. watch' = [watch EXCEPT ![n] = w]
    BY Zenon DEF PublishHealth
  <2>2. directStatus' = IF up = old.published THEN directStatus ELSE [directStatus EXCEPT ![n].reachable = up]
    BY Zenon DEF PublishHealth
  <2>3. directStatus \in [Nodes -> Statuses]
    BY Zenon, <1>1 DEF DTyped
  <2>. HIDE DEF up
  <2>4. directStatus' = [directStatus EXCEPT ![n] = st]
    BY Zenon, <2>2, <2>3
  <2>. QED  BY Zenon, <2>1, <2>4
<1>3. up \in BOOLEAN /\ losing \in BOOLEAN /\ old.published \in BOOLEAN /\ (losing <=> Lossy(k, old))
  BY Zenon, <1>1 DEF probe_outage, terminates_locally, Lossy, Counting, PathWatches
<1>. HIDE DEF up, losing
<1>4. /\ w \in PathWatches /\ w.published = up /\ w.looked /\ w.answered = old.answered /\ w.losses = old.losses
      /\ w.received = old.received /\ w.pending = old.pending
  BY Zenon, <1>1, <1>3 DEF PathWatches
<1>5. /\ st \in Statuses /\ st.joining = directStatus[n].joining /\ st.sent = directStatus[n].sent
      /\ st.received = directStatus[n].received /\ st.lost = directStatus[n].lost
      /\ st.reachable = IF up = old.published THEN directStatus[n].reachable ELSE up
  BY Zenon, <1>1, <1>3 DEF Statuses
<1>. HIDE DEF w, st
<1>6. /\ watch'[n] = w /\ directStatus'[n] = st
      /\ watch' \in [Nodes -> PathWatches] /\ directStatus' \in [Nodes -> Statuses]
      /\ redial' \in [Nodes -> {"none", "later", "due"}]
      /\ \A m \in Nodes \ {n} : watch'[m] = watch[m] /\ directStatus'[m] = directStatus[m] /\ redial'[m] = redial[m]
  BY Zenon, <1>1, <1>2, <1>4, <1>5 DEF DTyped
<1>7. DTyped'
  BY Zenon, <1>1, <1>6 DEF DTyped
<1>8. OthersKept(n)
  <2>1. \A m \in Nodes \ {n} : m \in directHealthy' <=> m \in directHealthy
    BY Zenon, <1>1
  <2>. QED  BY Zenon, <1>1, <1>6, <2>1 DEF OthersKept
<1>9. Agreed(transport'[n], tunnel'[n], watch'[n], n \in directHealthy', directStatus'[n])
  <2>1. /\ n \in directHealthy <=> old.published
        /\ directStatus[n].reachable <=> old.published
        /\ directStatus[n].joining <=> transport[n] = 0
        /\ tunnel[n] = transport[n]
    BY Zenon, <1>1 DEF NodeInv, Agreed
  <2>2. CASE up = old.published
    BY Zenon, <1>1, <1>3, <1>4, <1>5, <1>6, <2>1, <2>2 DEF Agreed, Statuses
  <2>3. CASE up # old.published
    <3>1. n \in directHealthy' <=> up
      BY Zenon, <1>1, <1>3, <2>3
    <3>. QED  BY Zenon, <1>1, <1>3, <1>4, <1>5, <1>6, <2>1, <2>3, <3>1 DEF Agreed, Statuses
  <2>. QED  BY Zenon, <2>2, <2>3
<1>10. Awaited(kinds'[n], transport'[n], watch'[n], dial'[n], redial'[n])
  <2>1. losing /\ k = "openvpn" => dial'[n] # "none" \/ redial'[n] # "none"
    BY Zenon, <1>1 DEF DTyped
  <2>2. Lossy(k, w) <=> losing
    BY Zenon, <1>3, <1>4 DEF Lossy, Counting
  <2>. QED  BY Zenon, <1>1, <1>6, <2>1, <2>2 DEF Awaited
<1>11. Tallied(kinds'[n], watch'[n], directStatus'[n])
  BY Zenon, <1>1, <1>4, <1>5, <1>6 DEF NodeInv, Tallied, Counting
<1>. QED  BY Zenon, <1>7, <1>8, <1>9, <1>10, <1>11, OneNode

(* Steps that touch only the watch and the counters of a node: its health is
   as published, and has not been looked at since. *)
LEMMA ProbeSteps ==
  ASSUME DirectInv, NEW n \in Nodes, UNCHANGED <<kinds, transport, tunnel, dial, redial, directHealthy, opens>>,
         echoes' \in [Nodes -> SUBSET (Nat \ {0})],
         NEW w \in PathWatches, NEW st \in Statuses,
         watch' = [watch EXCEPT ![n] = w], directStatus' = [directStatus EXCEPT ![n] = st],
         w.published = watch[n].published, ~w.looked,
         st.joining = directStatus[n].joining, st.reachable = directStatus[n].reachable,
         Tallied(kinds[n], w, st)
  PROVE  DirectInv'
<1>1. DTyped /\ NodeInv(n)
  BY Zenon DEF DirectInv
<1>2. /\ watch'[n] = w /\ directStatus'[n] = st
      /\ \A m \in Nodes \ {n} : watch'[m] = watch[m] /\ directStatus'[m] = directStatus[m]
  BY Zenon, <1>1 DEF DTyped
<1>3. DTyped'
  BY Zenon, <1>1 DEF DTyped
<1>4. OthersKept(n)
  BY Zenon, <1>2 DEF OthersKept
<1>5. Agreed(transport'[n], tunnel'[n], watch'[n], n \in directHealthy', directStatus'[n])
  BY Zenon, <1>1, <1>2 DEF NodeInv, Agreed
<1>6. Awaited(kinds'[n], transport'[n], watch'[n], dial'[n], redial'[n])
  BY Zenon, <1>1, <1>2 DEF NodeInv, Awaited
<1>7. Tallied(kinds'[n], watch'[n], directStatus'[n])
  BY Zenon, <1>2
<1>. QED  BY Zenon, <1>3, <1>4, <1>5, <1>6, <1>7, OneNode

LEMMA TrafficSteps ==
  ASSUME DirectInv, NEW n \in Nodes, UNCHANGED kinds, Traffic(n) \/ LivenessWindowPasses(n)
  PROVE  DirectInv'
<1>. DEFINE old == watch[n]
            w == [old EXCEPT !.handshake = TRUE, !.received = TRUE, !.looked = FALSE]
            v == [old EXCEPT !.received = FALSE, !.looked = FALSE]
            st == directStatus[n]
<1>1. /\ DTyped /\ NodeInv(n) /\ old \in PathWatches /\ st \in Statuses
      /\ directStatus' = [directStatus EXCEPT ![n] = st]
      /\ UNCHANGED <<transport, tunnel, dial, redial, echoes, directHealthy, opens>>
      /\ echoes' \in [Nodes -> SUBSET (Nat \ {0})]
  BY Zenon DEF DirectInv, DTyped, Traffic, LivenessWindowPasses
<1>2. \/ watch' = [watch EXCEPT ![n] = w]
      \/ watch' = [watch EXCEPT ![n] = v]
  BY Zenon DEF Traffic, LivenessWindowPasses
<1>3. /\ w \in PathWatches /\ w.published = old.published /\ ~w.looked
      /\ w.answered = old.answered /\ w.pending = old.pending /\ w.losses = old.losses
      /\ v \in PathWatches /\ v.published = old.published /\ ~v.looked
      /\ v.answered = old.answered /\ v.pending = old.pending /\ v.losses = old.losses
  BY Zenon, <1>1 DEF PathWatches
<1>. HIDE DEF w, v
<1>4. Tallied(kinds[n], w, st) /\ Tallied(kinds[n], v, st)
  BY Zenon, <1>1, <1>3 DEF NodeInv, Tallied, Counting
<1>. HIDE DEF st
<1>5. st.joining = directStatus[n].joining /\ st.reachable = directStatus[n].reachable
  BY Zenon DEF st
<1>. QED  BY Zenon, <1>1, <1>2, <1>3, <1>4, <1>5, ProbeSteps

LEMMA SendSteps ==
  ASSUME DirectInv, NEW n \in Nodes, UNCHANGED kinds, send_probe(n)
  PROVE  DirectInv'
<1>. DEFINE old == watch[n]
            counted == old.answered \/ kinds[n] = "socks5"
            w == [old EXCEPT !.sequence = old.sequence + 1, !.pending = old.sequence + 1, !.looked = FALSE]
            more == IF counted THEN directStatus[n].sent + 1 ELSE directStatus[n].sent
            st == [directStatus[n] EXCEPT !.sent = more]
<1>1. /\ DTyped /\ NodeInv(n) /\ old \in PathWatches /\ directStatus[n] \in Statuses /\ old.sequence \in Nat
      /\ old.pending = 0
      /\ UNCHANGED <<transport, tunnel, dial, redial, directHealthy, opens>>
  BY Zenon DEF DirectInv, DTyped, send_probe, PathWatches
<1>2. watch' = [watch EXCEPT ![n] = w]
  BY Zenon DEF send_probe
<1>3. directStatus' = [directStatus EXCEPT ![n] = st]
  BY Zenon DEF send_probe, terminates_locally
<1>4. echoes' \in [Nodes -> SUBSET (Nat \ {0})]
  <2>1. echoes \in [Nodes -> SUBSET (Nat \ {0})] /\ old.sequence + 1 \in Nat \ {0}
    BY <1>1 DEF DTyped
  <2>2. echoes' = echoes \/ echoes' = [echoes EXCEPT ![n] = echoes[n] \cup {old.sequence + 1}]
    BY Zenon DEF send_probe
  <2>. QED  BY Zenon, <2>1, <2>2
<1>5. /\ w \in PathWatches /\ w.published = old.published /\ ~w.looked
      /\ w.answered = old.answered /\ w.losses = old.losses
  <2>. DEFINE next == old.sequence + 1
  <2>1. next \in Nat /\ w = [old EXCEPT !.sequence = next, !.pending = next, !.looked = FALSE]
    BY <1>1
  <2>. HIDE DEF next, w
  <2>. QED  BY Zenon, <1>1, <2>1 DEF PathWatches
<1>6. /\ st \in Statuses /\ st.joining = directStatus[n].joining /\ st.reachable = directStatus[n].reachable
      /\ st.received = directStatus[n].received /\ st.lost = directStatus[n].lost /\ st.sent = more
  <2>1. more \in Nat
    BY <1>1 DEF Statuses
  <2>. HIDE DEF more
  <2>. QED  BY Zenon, <1>1, <2>1 DEF Statuses
<1>. HIDE DEF w, st
<1>7. Tallied(kinds[n], w, st)
  <2>1. /\ directStatus[n].received + directStatus[n].lost <= directStatus[n].sent
        /\ old.losses <= directStatus[n].lost
        /\ directStatus[n].received \in Nat /\ directStatus[n].lost \in Nat /\ directStatus[n].sent \in Nat
    BY <1>1 DEF NodeInv, Tallied, Statuses
  <2>2. CASE counted
    <3>1. more = directStatus[n].sent + 1
      BY Zenon, <2>2
    <3>. QED  BY <1>5, <1>6, <2>1, <3>1 DEF Tallied
  <2>3. CASE ~counted
    <3>1. more = directStatus[n].sent /\ ~Counting(kinds[n], w)
      BY Zenon, <1>5, <2>3 DEF Counting
    <3>. QED  BY <1>5, <1>6, <2>1, <3>1 DEF Tallied
  <2>. QED  BY Zenon, <2>2, <2>3
<1>. QED  BY Zenon, <1>1, <1>2, <1>3, <1>4, <1>5, <1>6, <1>7, ProbeSteps

LEMMA ReplySteps ==
  ASSUME DirectInv, NEW n \in Nodes, UNCHANGED kinds, NEW s \in echoes[n], Reply(n, s)
  PROVE  DirectInv'
<1>. DEFINE old == watch[n]
            w == [old EXCEPT !.pending = 0, !.answered = TRUE, !.losses = 0, !.received = TRUE, !.looked = FALSE]
            more == IF ~old.answered /\ kinds[n] # "socks5" THEN directStatus[n].sent + 1 ELSE directStatus[n].sent
            st == [directStatus[n] EXCEPT !.received = directStatus[n].received + 1, !.sent = more]
<1>1. /\ DTyped /\ NodeInv(n) /\ old \in PathWatches /\ directStatus[n] \in Statuses
      /\ s # 0
      /\ UNCHANGED <<transport, tunnel, dial, redial, directHealthy, opens>>
  BY Zenon DEF DirectInv, DTyped, Reply
<1>2. echoes' \in [Nodes -> SUBSET (Nat \ {0})]
  BY Zenon, <1>1 DEF DTyped, Reply
<1>3. CASE ~take_matching_probe(n, s)
  <2>1. watch' = watch /\ directStatus' = directStatus
    BY Zenon, <1>3 DEF Reply
  <2>2. DTyped'
    BY Zenon, <1>1, <1>2, <2>1 DEF DTyped
  <2>3. \A m \in Nodes : NodeInv(m)'
    BY Zenon, <1>1, <2>1 DEF DirectInv, NodeInv
  <2>. QED  BY Zenon, <2>2, <2>3 DEF DirectInv
<1>4. CASE take_matching_probe(n, s)
  <2>1. old.pending # 0
    BY Zenon, <1>1, <1>4 DEF take_matching_probe
  <2>2. watch' = [watch EXCEPT ![n] = w]
    BY Zenon, <1>4 DEF Reply
  <2>3. directStatus' = [directStatus EXCEPT ![n] = st]
    BY Zenon, <1>4 DEF Reply, terminates_locally
  <2>4. /\ w \in PathWatches /\ w.published = old.published /\ ~w.looked
        /\ w.pending = 0 /\ w.losses = 0
    BY Zenon, <1>1 DEF PathWatches
  <2>5. /\ st \in Statuses /\ st.joining = directStatus[n].joining /\ st.reachable = directStatus[n].reachable
        /\ st.received = directStatus[n].received + 1 /\ st.lost = directStatus[n].lost /\ st.sent = more
    <3>1. more \in Nat /\ directStatus[n].received + 1 \in Nat
      BY <1>1 DEF Statuses
    <3>. HIDE DEF more
    <3>. QED  BY Zenon, <1>1, <3>1 DEF Statuses
  <2>. HIDE DEF w, st
  <2>6. Tallied(kinds[n], w, st)
    <3>1. /\ directStatus[n].received \in Nat /\ directStatus[n].lost \in Nat /\ directStatus[n].sent \in Nat
          /\ directStatus[n].received + directStatus[n].lost
               + (IF old.pending # 0 /\ Counting(kinds[n], old) THEN 1 ELSE 0) <= directStatus[n].sent
      BY Zenon, <1>1 DEF NodeInv, Tallied, Statuses
    <3>2. CASE Counting(kinds[n], old)
      <4>1. more = directStatus[n].sent
        BY Zenon, <3>2 DEF Counting
      <4>. QED  BY <2>1, <2>4, <2>5, <3>1, <3>2, <4>1 DEF Tallied
    <3>3. CASE ~Counting(kinds[n], old)
      <4>1. more = directStatus[n].sent + 1
        BY Zenon, <3>3 DEF Counting
      <4>. QED  BY <2>4, <2>5, <3>1, <3>3, <4>1 DEF Tallied
    <3>. QED  BY Zenon, <3>2, <3>3
  <2>. QED  BY Zenon, <1>1, <1>2, <2>2, <2>3, <2>4, <2>5, <2>6, ProbeSteps
<1>. QED  BY Zenon, <1>3, <1>4

LEMMA TimeoutSteps ==
  ASSUME DirectInv, NEW n \in Nodes, UNCHANGED kinds, ProbeTimesOut(n)
  PROVE  DirectInv'
<1>. DEFINE old == watch[n]
            counted == old.answered \/ kinds[n] = "socks5"
            losses == IF counted /\ old.losses < DIRECT_LOSS_LIMIT THEN old.losses + 1 ELSE old.losses
            w == [old EXCEPT !.pending = 0, !.looked = FALSE, !.losses = losses]
            more == IF counted THEN directStatus[n].lost + 1 ELSE directStatus[n].lost
            st == [directStatus[n] EXCEPT !.lost = more]
<1>1. /\ DTyped /\ NodeInv(n) /\ old \in PathWatches /\ directStatus[n] \in Statuses /\ old.losses \in Nat
      /\ old.pending # 0
      /\ UNCHANGED <<transport, tunnel, dial, redial, echoes, directHealthy, opens>>
      /\ echoes' \in [Nodes -> SUBSET (Nat \ {0})]
  BY Zenon DEF DirectInv, DTyped, ProbeTimesOut, PathWatches
<1>2. watch' = [watch EXCEPT ![n] = w]
  BY Zenon DEF ProbeTimesOut, terminates_locally
<1>3. directStatus' = [directStatus EXCEPT ![n] = st]
  BY Zenon DEF ProbeTimesOut, terminates_locally
<1>4. losses \in Nat /\ more \in Nat
  BY <1>1, DirectConstants DEF Statuses
<1>5. /\ w \in PathWatches /\ w.published = old.published /\ ~w.looked /\ w.pending = 0 /\ w.losses = losses
  <2>. HIDE DEF losses
  <2>. QED  BY Zenon, <1>1, <1>4 DEF PathWatches
<1>6. /\ st \in Statuses /\ st.joining = directStatus[n].joining /\ st.reachable = directStatus[n].reachable
      /\ st.received = directStatus[n].received /\ st.lost = more /\ st.sent = directStatus[n].sent
  <2>. HIDE DEF more
  <2>. QED  BY Zenon, <1>1, <1>4 DEF Statuses
<1>. HIDE DEF w, st
<1>7. Tallied(kinds[n], w, st)
  <2>1. /\ directStatus[n].received \in Nat /\ directStatus[n].lost \in Nat /\ directStatus[n].sent \in Nat
        /\ directStatus[n].received + directStatus[n].lost
             + (IF old.pending # 0 /\ Counting(kinds[n], old) THEN 1 ELSE 0) <= directStatus[n].sent
        /\ old.losses <= directStatus[n].lost
    BY Zenon, <1>1 DEF NodeInv, Tallied, Statuses
  <2>2. CASE counted
    <3>1. more = directStatus[n].lost + 1 /\ losses <= old.losses + 1 /\ Counting(kinds[n], old)
      BY <1>1, <2>2, DirectConstants DEF Counting
    <3>. HIDE DEF more, losses, counted
    <3>. QED  BY <1>1, <1>4, <1>5, <1>6, <2>1, <3>1 DEF Tallied
  <2>3. CASE ~counted
    <3>1. more = directStatus[n].lost /\ losses = old.losses /\ ~Counting(kinds[n], old)
      BY Zenon, <2>3 DEF Counting
    <3>. HIDE DEF more, losses, counted
    <3>. QED  BY Zenon, <1>1, <1>5, <1>6, <2>1, <3>1 DEF Tallied
  <2>. QED  BY Zenon, <2>2, <2>3
<1>. QED  BY Zenon, <1>1, <1>2, <1>3, <1>5, <1>6, <1>7, ProbeSteps

LEMMA DirectSteps == DirectInv /\ [DNext /\ UNCHANGED kinds]_dVars => DirectInv'
<1>1. ASSUME DirectInv, UNCHANGED <<kinds, transport, tunnel, watch, dial, redial, echoes, directHealthy, directStatus, opens>>
      PROVE  DirectInv'
  BY Zenon, <1>1 DEF DirectInv, DTyped, NodeInv
<1>2. ASSUME DirectInv, UplinkTurns, UNCHANGED kinds PROVE DirectInv'
  BY Zenon, <1>1, <1>2 DEF UplinkTurns
<1>3. ASSUME DirectInv, UNCHANGED dVars PROVE DirectInv'
  BY Zenon, <1>1, <1>3 DEF dVars
<1>. QED  BY Zenon, <1>2, <1>3, DialSteps, InstalledSteps, PublishSteps, TrafficSteps, SendSteps, ReplySteps, TimeoutSteps
          DEF DNext

(* Whatever order replies, timeouts, redials and traffic come in, with any
   number of nodes: what a direct session says of a node's health is about the
   transport the node has now, a node that lost it is being dialled or waiting
   to be, and no probe is counted twice (direct_worker.rs). *)
THEOREM NodesAreAlwaysWatched == DSpec => []NodesAreWatched
<1>1. DirectInv => NodesAreWatched
  <2>. SUFFICES ASSUME DirectInv PROVE NodesAreWatched
    BY Zenon
  <2>1. DTypeOK
    BY Zenon DEF DirectInv, DTyped, DTypeOK
  <2>2. ASSUME NEW n \in Nodes
        PROVE  /\ (n \in directHealthy) = (transport[n] # 0 /\ watch[n].published)
               /\ directStatus[n].reachable = (n \in directHealthy)
               /\ directStatus[n].joining = (transport[n] = 0)
               /\ tunnel[n] = transport[n]
               /\ transport[n] = 0 \/ (needs_redial_when_lost(n) /\ watch[n].looked /\ probe_outage(n)) =>
                    dial[n] # "none" \/ redial[n] # "none"
               /\ directStatus[n].received + directStatus[n].lost
                    + (IF watch[n].pending # 0 /\ (watch[n].answered \/ terminates_locally(n)) THEN 1 ELSE 0)
                  <= directStatus[n].sent
               /\ watch[n].losses >= DIRECT_LOSS_LIMIT => directStatus[n].lost >= DIRECT_LOSS_LIMIT
    <3>1. /\ NodeInv(n) /\ watch[n] \in PathWatches /\ directStatus[n] \in Statuses
          /\ watch[n].losses \in Nat /\ directStatus[n].lost \in Nat
          /\ directStatus[n].reachable \in BOOLEAN /\ directStatus[n].joining \in BOOLEAN
      BY Zenon DEF DirectInv, DTyped, PathWatches, Statuses
    <3>2. /\ (n \in directHealthy) <=> (transport[n] # 0 /\ watch[n].published)
          /\ directStatus[n].reachable <=> (n \in directHealthy)
          /\ directStatus[n].joining <=> (transport[n] = 0)
          /\ tunnel[n] = transport[n]
      BY Zenon, <3>1 DEF NodeInv, Agreed
    <3>3. transport[n] = 0 \/ (needs_redial_when_lost(n) /\ watch[n].looked /\ probe_outage(n)) =>
            dial[n] # "none" \/ redial[n] # "none"
      BY Zenon, <3>1 DEF NodeInv, Awaited, Lossy, Counting, needs_redial_when_lost, probe_outage, terminates_locally
    <3>4. directStatus[n].received + directStatus[n].lost
            + (IF watch[n].pending # 0 /\ (watch[n].answered \/ terminates_locally(n)) THEN 1 ELSE 0)
          <= directStatus[n].sent
      BY Zenon, <3>1 DEF NodeInv, Tallied, Counting, terminates_locally
    <3>5. watch[n].losses >= DIRECT_LOSS_LIMIT => directStatus[n].lost >= DIRECT_LOSS_LIMIT
      BY <3>1, DirectConstants DEF NodeInv, Tallied
    <3>. QED  BY <3>1, <3>2, <3>3, <3>4, <3>5
  <2>. QED  BY Zenon, <2>1, <2>2 DEF NodesAreWatched
<1>. QED  BY <1>1, NodesStart, DirectSteps, PTL DEF DSpec

-----------------------------------------------------------------------------
(* The routes of a relay session.                                          *)
(* Reports, the steps of a dial, what names resolve to, and outcomes.      *)
Ends == StartAddresses \cup {Failed, Retrying}
Ats == {"resolve", "service", "check", "open", "wait", "gone"}
Names == {Unresolved} \cup SUBSET StartAddresses
Outcomes == StartAddresses \cup {Failed, Unfinished}

JTyped ==
  /\ served \in SUBSET All
  /\ startPhase \in {"dialling", "waiting", "running", "over"}
  /\ halt \in BOOLEAN
  /\ dials \in [All -> [at : Ats, attempt : Nat, refused : BOOLEAN]]
  /\ reports \in [All -> Seq(Ends)]
  /\ resolved \in [All -> Names] /\ heardAddresses \in [All -> Names]
  /\ outcomes \in [All -> Outcomes]
  /\ routes \in [All -> [is : {"none", "open", "joining", "skipped"}, address : Outcomes]]
  /\ waiting \in SUBSET All /\ reachable \in SUBSET All
(* The dials the service makes: they wait for it until the session runs.   *)
Dialled(r) ==
  /\ r \in served => outcomes[r] = Unfinished
  /\ dials[r].at = "service" => r \in served
  /\ r \in served /\ startPhase # "over" /\ dials[r].at \in {"resolve", "service"} => r \in waiting
  /\ r \in served /\ startPhase = "dialling" => dials[r].at \in {"resolve", "service"} /\ reports[r] = << >>

(* Someone still listens to the dial of r, which has a last word to say.   *)
Owing(r) ==
  \/ startPhase = "dialling" /\ r \notin served /\ outcomes[r] = Unfinished
  \/ Live /\ routes[r].is = "joining"
Told(r) == reports[r] # << >> /\ reports[r][Len(reports[r])] # Retrying
Owed(r) == Owing(r) /\ dials[r].at = "gone" => Told(r)

(* What the gate holds of a route of a session that has started.           *)
Gated(r) ==
  /\ routes[r].is = "open" => routes[r].address \in routed /\ \A q \in All \ {r} : routes[q] # routes[r]
  /\ routes[r].is = "skipped" /\ routes[r].address \in StartAddresses =>
       \/ routes[r].address \notin Resolved(heardAddresses[r])
       \/ \E q \in All : routes[q] = [is |-> "open", address |-> routes[r].address]
  /\ routes[r].is = "joining" => Resolved(heardAddresses[r]) \subseteq routed

(* The stop flag, and who has answered.                                    *)
Begun ==
  /\ halt <=> startPhase = "over"
  /\ startPhase = "dialling" => reachable = {}
  /\ \A r \in reachable : routes[r].is = "open"

StartInv == JTyped /\ Begun /\ \A r \in All : Dialled(r) /\ Owed(r) /\ (Live => Gated(r))

(* The dial of one route moves, whose own conjuncts are shown apart.       *)
LEMMA DialMoves ==
    ASSUME StartInv, NEW r \in All,
           UNCHANGED <<served, startPhase, halt, heardAddresses, outcomes, routed, routes, reachable>>,
           dials' \in [All -> [at : Ats, attempt : Nat, refused : BOOLEAN]],
           reports' \in [All -> Seq(Ends)], resolved' \in [All -> Names], waiting' \in SUBSET All,
           \A q \in All \ {r} : dials'[q] = dials[q] /\ reports'[q] = reports[q] /\ (q \in waiting => q \in waiting'),
           Dialled(r)', Owed(r)'
    PROVE  StartInv'
  <1>1. JTyped'
    BY Zenon DEF StartInv, JTyped
  <1>2. Begun'
    BY Zenon DEF StartInv, Begun
  <1>3. ASSUME NEW q \in All PROVE Dialled(q)' /\ Owed(q)'
    <2>1. CASE q = r
      BY Zenon, <2>1
    <2>2. CASE q # r
      <3>1. dials'[q] = dials[q] /\ reports'[q] = reports[q] /\ (q \in waiting => q \in waiting')
        BY Zenon, <2>2
      <3>2. Dialled(q) /\ Owed(q)
        BY Zenon DEF StartInv
      <3>3. Dialled(q)'
        BY Zenon, <3>1, <3>2 DEF Dialled
      <3>4. Owed(q)'
        BY Zenon, <3>1, <3>2 DEF Owed, Owing, Told, Live
      <3> QED BY Zenon, <3>3, <3>4
    <2> QED BY Zenon, <2>1, <2>2
  <1>4. ASSUME NEW q \in All PROVE (Live => Gated(q))'
    <2>1. Live => Gated(q)
      BY Zenon DEF StartInv
    <2> QED BY Zenon, <2>1 DEF Live, Gated
  <1> QED BY Zenon, <1>1, <1>2, <1>3, <1>4 DEF StartInv

(* What writing a dial's step leaves alone.                                *)
LEMMA AtSet ==
    ASSUME JTyped, NEW r \in All, NEW x \in Ats, dials' = [dials EXCEPT ![r].at = x]
    PROVE  /\ dials' \in [All -> [at : Ats, attempt : Nat, refused : BOOLEAN]]
           /\ dials'[r].at = x
           /\ \A q \in All \ {r} : dials'[q] = dials[q]
  <1>1. dials \in [All -> [at : Ats, attempt : Nat, refused : BOOLEAN]]
    BY Zenon DEF JTyped
  <1>2. [dials[r] EXCEPT !.at = x] \in [at : Ats, attempt : Nat, refused : BOOLEAN]
    BY Zenon, <1>1
  <1>3. dials' = [dials EXCEPT ![r] = [dials[r] EXCEPT !.at = x]]
    BY Zenon, <1>1
  <1> QED BY Zenon, <1>1, <1>2, <1>3

(* What sending a report leaves alone.                                     *)
LEMMA Reported ==
    ASSUME JTyped, NEW r \in All, NEW e \in Ends, reports' = [reports EXCEPT ![r] = Append(@, e)]
    PROVE  /\ reports' \in [All -> Seq(Ends)]
           /\ \A q \in All \ {r} : reports'[q] = reports[q]
           /\ reports'[r] # << >> /\ reports'[r][Len(reports'[r])] = e
  <1>1. reports \in [All -> Seq(Ends)]
    BY Zenon DEF JTyped
  <1>2. reports[r] \in Seq(Ends)
    BY Zenon, <1>1
  <1>3. /\ Append(reports[r], e) \in Seq(Ends) /\ Append(reports[r], e) # << >>
        /\ Append(reports[r], e)[Len(Append(reports[r], e))] = e
    BY <1>2
  <1>4. reports'[r] = Append(reports[r], e)
    BY Zenon, <1>1
  <1>5. reports' \in [All -> Seq(Ends)] /\ \A q \in All \ {r} : reports'[q] = reports[q]
    BY Zenon, <1>1, <1>3
  <1> QED BY Zenon, <1>3, <1>4, <1>5

LEMMA ResolveStep ==
    ASSUME StartInv, NEW r \in All, NEW A \in SUBSET StartAddresses, Resolve(r, A)
    PROVE  StartInv'
  <1> DEFINE x == IF r \in served THEN "service" ELSE "check"
  <1>1. JTyped /\ Dialled(r) /\ Owed(r)
    BY Zenon DEF StartInv
  <1>2. /\ dials[r].at = "resolve" /\ dials' = [dials EXCEPT ![r].at = x] /\ x \in Ats
        /\ resolved' = [resolved EXCEPT ![r] = A] /\ reports' = reports
        /\ UNCHANGED <<served, startPhase, halt, heardAddresses, outcomes, routed, routes, waiting, reachable>>
    BY Zenon DEF Resolve, Started, Ats
  <1>3. /\ dials' \in [All -> [at : Ats, attempt : Nat, refused : BOOLEAN]]
        /\ dials'[r].at = x /\ \A q \in All \ {r} : dials'[q] = dials[q]
    BY Zenon, <1>1, <1>2, AtSet
  <1>4. resolved' \in [All -> Names] /\ reports' \in [All -> Seq(Ends)] /\ waiting' \in SUBSET All
    BY Zenon, <1>1, <1>2 DEF JTyped, Names
  <1>5. Dialled(r)'
    BY Zenon, <1>1, <1>2, <1>3 DEF Dialled
  <1>6. Owed(r)'
    BY Zenon, <1>2, <1>3 DEF Owed
  <1> HIDE DEF x
  <1> QED BY Zenon, <1>2, <1>3, <1>4, <1>5, <1>6, DialMoves

LEMMA AttachStep ==
    ASSUME StartInv, NEW r \in All, NEW ok \in BOOLEAN, attach_l2tp_route(r, ok)
    PROVE  StartInv'
  <1> DEFINE d == [dials[r] EXCEPT !.at = "check", !.refused = ~ok]
  <1>1. JTyped /\ Dialled(r) /\ Owed(r)
    BY Zenon DEF StartInv
  <1>2. /\ Live /\ waiting' = waiting \ {r} /\ reports' = reports /\ resolved' = resolved
        /\ UNCHANGED <<served, startPhase, halt, heardAddresses, outcomes, routed, routes, reachable>>
    BY Zenon DEF attach_l2tp_route, Live
  <1>3. dials \in [All -> [at : Ats, attempt : Nat, refused : BOOLEAN]]
    BY Zenon, <1>1 DEF JTyped
  <1>4. dials' = [dials EXCEPT ![r] = d]
    BY Zenon, <1>3 DEF attach_l2tp_route
  <1>5. d \in [at : Ats, attempt : Nat, refused : BOOLEAN] /\ d.at = "check"
    BY Zenon, <1>3 DEF Ats
  <1> HIDE DEF d
  <1>6. /\ dials' \in [All -> [at : Ats, attempt : Nat, refused : BOOLEAN]]
        /\ dials'[r].at = "check" /\ \A q \in All \ {r} : dials'[q] = dials[q]
    BY Zenon, <1>3, <1>4, <1>5
  <1>7. resolved' \in [All -> Names] /\ reports' \in [All -> Seq(Ends)] /\ waiting' \in SUBSET All
    BY Zenon, <1>1, <1>2 DEF JTyped
  <1>8. Dialled(r)'
    BY Zenon, <1>1, <1>2, <1>6 DEF Dialled, Live
  <1>9. Owed(r)'
    BY Zenon, <1>6 DEF Owed
  <1> QED BY Zenon, <1>2, <1>6, <1>7, <1>8, <1>9, DialMoves

LEMMA CheckStep ==
    ASSUME StartInv, NEW r \in All, Check(r)
    PROVE  StartInv'
  <1> DEFINE x == IF halt THEN "gone" ELSE "open"
  <1>1. JTyped /\ Dialled(r) /\ Begun
    BY Zenon DEF StartInv
  <1>2. /\ dials[r].at = "check" /\ dials' = [dials EXCEPT ![r].at = x] /\ x \in Ats
        /\ UNCHANGED <<served, startPhase, halt, heardAddresses, outcomes, routed, routes, waiting, reachable,
                       reports, resolved>>
    BY Zenon DEF Check, Started, Ats
  <1>3. /\ dials' \in [All -> [at : Ats, attempt : Nat, refused : BOOLEAN]]
        /\ dials'[r].at = x /\ \A q \in All \ {r} : dials'[q] = dials[q]
    BY Zenon, <1>1, <1>2, AtSet
  <1>4. resolved' \in [All -> Names] /\ reports' \in [All -> Seq(Ends)] /\ waiting' \in SUBSET All
    BY Zenon, <1>1, <1>2 DEF JTyped
  <1>5. Dialled(r)'
    BY Zenon, <1>1, <1>2, <1>3 DEF Dialled
  <1>6. Owed(r)'
    BY Zenon, <1>1, <1>2, <1>3 DEF Owed, Owing, Live, Begun
  <1> HIDE DEF x
  <1> QED BY Zenon, <1>2, <1>3, <1>4, <1>5, <1>6, DialMoves

LEMMA OpenedStep ==
    ASSUME StartInv, NEW r \in All, NEW a \in StartAddresses, Opened(r, a)
    PROVE  StartInv'
  <1>1. JTyped /\ Dialled(r)
    BY Zenon DEF StartInv
  <1>2. /\ dials[r].at = "open" /\ dials' = [dials EXCEPT ![r].at = "gone"] /\ "gone" \in Ats
        /\ reports' = [reports EXCEPT ![r] = Append(@, a)] /\ a \in Ends /\ a # Retrying
        /\ UNCHANGED <<served, startPhase, halt, heardAddresses, outcomes, routed, routes, waiting, reachable,
                       resolved>>
    BY Zenon, StartConstants DEF Opened, Started, Ats, Ends
  <1>3. /\ dials' \in [All -> [at : Ats, attempt : Nat, refused : BOOLEAN]]
        /\ dials'[r].at = "gone" /\ \A q \in All \ {r} : dials'[q] = dials[q]
    BY Zenon, <1>1, <1>2, AtSet
  <1>4. /\ reports' \in [All -> Seq(Ends)] /\ \A q \in All \ {r} : reports'[q] = reports[q]
        /\ reports'[r] # << >> /\ reports'[r][Len(reports'[r])] = a
    BY Zenon, <1>1, <1>2, Reported
  <1>5. resolved' \in [All -> Names] /\ waiting' \in SUBSET All
    BY Zenon, <1>1, <1>2 DEF JTyped
  <1>6. Dialled(r)'
    BY Zenon, <1>1, <1>2, <1>3 DEF Dialled
  <1>7. Owed(r)'
    BY Zenon, <1>2, <1>4 DEF Owed, Told
  <1> QED BY Zenon, <1>2, <1>3, <1>4, <1>5, <1>6, <1>7, DialMoves

(* A dial that gives up says so, unless nobody listens any more.           *)
LEMMA OpenFailsStep ==
    ASSUME StartInv, NEW r \in All, OpenFails(r)
    PROVE  StartInv'
  <1> DEFINE last == dials[r].attempt = attempts(r)
             e == IF last THEN Failed ELSE Retrying
             x == IF last \/ ~Heard(r) THEN "gone" ELSE "wait"
  <1>1. JTyped /\ Dialled(r)
    BY Zenon DEF StartInv
  <1>2. /\ dials[r].at = "open" /\ dials' = [dials EXCEPT ![r].at = x] /\ x \in Ats
        /\ reports' = [reports EXCEPT ![r] = Append(@, e)] /\ e \in Ends
        /\ UNCHANGED <<served, startPhase, halt, heardAddresses, outcomes, routed, routes, waiting, reachable,
                       resolved>>
    <2>1. x \in Ats /\ e \in Ends
      BY Zenon DEF Ats, Ends
    <2> QED BY Zenon, <2>1 DEF OpenFails, Started
  <1>3. x \in {"gone", "wait"} /\ (x = "gone" => e # Retrying \/ ~Heard(r))
    <2>1. CASE last
      BY Zenon, <2>1 DEF Failed, Retrying
    <2>2. CASE ~last
      BY Zenon, <2>2
    <2> QED BY Zenon, <2>1, <2>2
  <1> HIDE DEF x, e
  <1>4. /\ dials' \in [All -> [at : Ats, attempt : Nat, refused : BOOLEAN]]
        /\ dials'[r].at = x /\ \A q \in All \ {r} : dials'[q] = dials[q]
    BY Zenon, <1>1, <1>2, AtSet
  <1>5. /\ reports' \in [All -> Seq(Ends)] /\ \A q \in All \ {r} : reports'[q] = reports[q]
        /\ reports'[r] # << >> /\ reports'[r][Len(reports'[r])] = e
    BY Zenon, <1>1, <1>2, Reported
  <1>6. resolved' \in [All -> Names] /\ waiting' \in SUBSET All
    BY Zenon, <1>1, <1>2 DEF JTyped
  <1>7. Dialled(r)'
    BY Zenon, <1>1, <1>2, <1>3, <1>4 DEF Dialled
  <1>8. Owed(r)'
    <2>1. ~Heard(r) => ~Owing(r)'
      BY Zenon, <1>2 DEF Heard, Owing
    <2> QED BY Zenon, <1>3, <1>4, <1>5, <2>1 DEF Owed, Told
  <1> QED BY Zenon, <1>2, <1>4, <1>5, <1>6, <1>7, <1>8, DialMoves

LEMMA WaitStep ==
    ASSUME StartInv, NEW r \in All, wait_unless_stopped(r)
    PROVE  StartInv'
  <1> DEFINE x == IF halt THEN "gone" ELSE "check"
             n == IF halt THEN dials[r].attempt ELSE dials[r].attempt + 1
             d == [dials[r] EXCEPT !.at = x, !.attempt = n]
  <1>1. JTyped /\ Dialled(r) /\ Begun
    BY Zenon DEF StartInv
  <1>2. /\ dials[r].at = "wait"
        /\ UNCHANGED <<served, startPhase, halt, heardAddresses, outcomes, routed, routes, waiting, reachable,
                       reports, resolved>>
    BY Zenon DEF wait_unless_stopped, Started
  <1>3. dials \in [All -> [at : Ats, attempt : Nat, refused : BOOLEAN]]
    BY Zenon, <1>1 DEF JTyped
  <1>4. x \in {"gone", "check"} /\ (x = "gone" => halt) /\ n \in Nat
    BY <1>3
  <1>5. dials' = [dials EXCEPT ![r].at = x, ![r].attempt = n]
    BY Zenon DEF wait_unless_stopped
  <1> HIDE DEF x, n
  <1>10. d \in [at : Ats, attempt : Nat, refused : BOOLEAN] /\ d.at = x
    BY Zenon, <1>3, <1>4 DEF Ats
  <1>11. dials' = [dials EXCEPT ![r] = d]
    BY Zenon, <1>3, <1>5
  <1> HIDE DEF d
  <1>6. /\ dials' \in [All -> [at : Ats, attempt : Nat, refused : BOOLEAN]]
        /\ dials'[r] = d /\ \A q \in All \ {r} : dials'[q] = dials[q]
    BY Zenon, <1>3, <1>10, <1>11
  <1>7. resolved' \in [All -> Names] /\ reports' \in [All -> Seq(Ends)] /\ waiting' \in SUBSET All
    BY Zenon, <1>1, <1>2 DEF JTyped
  <1>8. Dialled(r)'
    BY Zenon, <1>1, <1>2, <1>4, <1>10, <1>6 DEF Dialled
  <1>9. Owed(r)'
    BY Zenon, <1>1, <1>2, <1>4, <1>10, <1>6 DEF Owed, Owing, Live, Begun
  <1> QED BY Zenon, <1>2, <1>6, <1>7, <1>8, <1>9, DialMoves

LEMMA ServiceGoneStep ==
    ASSUME StartInv, NEW r \in All, ServiceGone(r)
    PROVE  StartInv'
  <1>1. JTyped /\ Dialled(r)
    BY Zenon DEF StartInv
  <1>2. /\ startPhase = "over" /\ dials' = [dials EXCEPT ![r].at = "gone"] /\ "gone" \in Ats
        /\ UNCHANGED <<served, startPhase, halt, heardAddresses, outcomes, routed, routes, waiting, reachable,
                       reports, resolved>>
    BY Zenon DEF ServiceGone, Started, Ats
  <1>3. /\ dials' \in [All -> [at : Ats, attempt : Nat, refused : BOOLEAN]]
        /\ dials'[r].at = "gone" /\ \A q \in All \ {r} : dials'[q] = dials[q]
    BY Zenon, <1>1, <1>2, AtSet
  <1>4. resolved' \in [All -> Names] /\ reports' \in [All -> Seq(Ends)] /\ waiting' \in SUBSET All
    BY Zenon, <1>1, <1>2 DEF JTyped
  <1>5. Dialled(r)'
    BY Zenon, <1>1, <1>2, <1>3 DEF Dialled
  <1>6. Owed(r)'
    BY Zenon, <1>2 DEF Owed, Owing, Live
  <1> QED BY Zenon, <1>2, <1>3, <1>4, <1>5, <1>6, DialMoves

-----------------------------------------------------------------------------
(* A route that joins or is skipped changes nothing for the others.        *)
LEMMA RouteEnds ==
    ASSUME StartInv, Live, NEW r \in All, routes[r].is = "joining",
           NEW new \in [is : {"open", "skipped"}, address : Outcomes],
           routes' = [routes EXCEPT ![r] = new],
           reports' \in [All -> Seq(Ends)], \A q \in All \ {r} : reports'[q] = reports[q],
           UNCHANGED <<served, startPhase, halt, dials, resolved, heardAddresses, outcomes, routed, waiting, reachable>>,
           new.is = "open" => new.address \in routed /\ \A q \in All : routes[q] # new,
           new.is = "skipped" /\ new.address \in StartAddresses =>
             \/ new.address \notin Resolved(heardAddresses[r])
             \/ \E q \in All : routes[q] = [is |-> "open", address |-> new.address]
    PROVE  StartInv'
  <1>1. /\ routes \in [All -> [is : {"none", "open", "joining", "skipped"}, address : Outcomes]]
        /\ JTyped /\ Begun /\ startPhase # "dialling"
    BY Zenon DEF StartInv, JTyped, Live
  <1>2. routes'[r] = new /\ \A q \in All \ {r} : routes'[q] = routes[q]
    BY Zenon, <1>1
  <1>3. JTyped'
    <2>1. routes' \in [All -> [is : {"none", "open", "joining", "skipped"}, address : Outcomes]]
      BY Zenon, <1>1
    <2> QED BY Zenon, <1>1, <2>1 DEF JTyped
  <1>4. Begun'
    <2>1. \A q \in reachable : q \in All /\ q # r /\ routes[q].is = "open"
      BY Zenon, <1>1 DEF Begun, JTyped
    <2> QED BY Zenon, <1>1, <1>2, <2>1 DEF Begun
  <1>5. ASSUME NEW q \in All PROVE Dialled(q)'
    BY Zenon, <1>1 DEF StartInv, Dialled
  <1>6. ASSUME NEW q \in All PROVE Owed(q)'
    <2>1. CASE q = r
      BY Zenon, <1>1, <1>2, <2>1 DEF Owed, Owing
    <2>2. CASE q # r
      <3>1. routes'[q] = routes[q] /\ reports'[q] = reports[q] /\ Owed(q)
        BY Zenon, <1>2, <2>2 DEF StartInv
      <3> QED BY Zenon, <3>1 DEF Owed, Owing, Told, Live
    <2> QED BY Zenon, <2>1, <2>2
  <1>7. ASSUME NEW q \in All, NEW a PROVE routes[q] = [is |-> "open", address |-> a] =>
                                            routes'[q] = [is |-> "open", address |-> a]
    <2>1. routes[q] = [is |-> "open", address |-> a] => q # r
      OBVIOUS
    <2> QED BY Zenon, <1>2, <2>1
  <1>8. ASSUME NEW q \in All PROVE Gated(q)'
    <2>1. CASE q = r
      <3>1. new.is = "open" => new.address \in routed' /\ \A p \in All \ {r} : routes'[p] # new
        BY Zenon, <1>2
      <3>2. new.is = "skipped" /\ new.address \in StartAddresses =>
             \/ new.address \notin Resolved(heardAddresses'[r])
             \/ \E p \in All : routes'[p] = [is |-> "open", address |-> new.address]
        BY <1>7
      <3> QED BY Zenon, <1>2, <2>1, <3>1, <3>2 DEF Gated
    <2>2. CASE q # r
      <3>1. routes'[q] = routes[q] /\ Gated(q)
        BY Zenon, <1>2, <2>2 DEF StartInv
      <3>2. routes[q].is = "open" => \A p \in All \ {q} : routes'[p] # routes[q]
        <4> SUFFICES ASSUME routes[q].is = "open", NEW p \in All \ {q} PROVE routes'[p] # routes[q]
          BY Zenon
        <4>1. CASE p = r
          <5>1. new.is = "open" => routes[q] # new
            BY Zenon
          <5>2. new.is # "open" => routes[q] # new
            BY Zenon
          <5> QED BY Zenon, <1>2, <4>1, <5>1, <5>2
        <4>2. CASE p # r
          BY Zenon, <1>2, <3>1, <4>2 DEF Gated
        <4> QED BY Zenon, <4>1, <4>2
      <3>3. routes[q].is = "skipped" /\ routes[q].address \in StartAddresses =>
              \/ routes[q].address \notin Resolved(heardAddresses[q])
              \/ \E p \in All : routes'[p] = [is |-> "open", address |-> routes[q].address]
        BY <1>7, <3>1 DEF Gated
      <3> QED BY <3>1, <3>2, <3>3 DEF Gated
    <2> QED BY Zenon, <2>1, <2>2
  <1> QED BY Zenon, <1>3, <1>4, <1>5, <1>6, <1>8 DEF StartInv

(* What is left of a longer sequence ends as it did.                       *)
LEMMA TailLast ==
    ASSUME NEW S, NEW s \in Seq(S), s # << >>, Len(s) # 1
    PROVE  Tail(s) # << >> /\ Tail(s)[Len(Tail(s))] = s[Len(s)]
  <1>1. Len(s) \in Nat /\ Len(s) # 0
    OBVIOUS
  <1>2. Len(s) > 1
    <2>1. \A n \in Nat : n # 0 /\ n # 1 => n > 1
      OBVIOUS
    <2> QED BY Zenon, <1>1, <2>1
  <1>3. Tail(s) \in Seq(S) /\ Len(Tail(s)) = Len(s) - 1
    OBVIOUS
  <1>4. Tail(s) # << >>
    <2>1. Len(Tail(s)) # 0
      BY <1>1, <1>2, <1>3
    <2>2. \A t : t = << >> => Len(t) = 0
      OBVIOUS
    <2> QED BY <2>1, <2>2, Zenon
  <1>5. \A i \in 1..(Len(s) - 1) : Tail(s)[i] = s[i + 1]
    OBVIOUS
  <1>6. Len(s) - 1 \in 1..(Len(s) - 1) /\ Len(s) - 1 + 1 = Len(s)
    BY <1>1, <1>2
  <1>7. Tail(s)[Len(s) - 1] = s[Len(s)]
    BY Zenon, <1>5, <1>6
  <1> QED BY Zenon, <1>3, <1>4, <1>7

(* The gate reads one report of a route's dial.                            *)
LEMMA AwaitJoinStep ==
    ASSUME StartInv, NEW r \in All, await_join(r)
    PROVE  StartInv'
  <1> DEFINE head == Head(reports[r])
  <1>1. /\ Live /\ routes[r].is = "joining" /\ reports[r] # << >>
        /\ reports' = [reports EXCEPT ![r] = Tail(@)]
        /\ UNCHANGED <<served, startPhase, halt, dials, resolved, heardAddresses, outcomes, routed, waiting, reachable>>
    BY Zenon DEF await_join, Running, Live
  <1>2. /\ JTyped /\ Begun /\ Dialled(r) /\ Owed(r) /\ Gated(r)
        /\ reports \in [All -> Seq(Ends)] /\ reports[r] \in Seq(Ends)
    BY Zenon, <1>1 DEF StartInv, JTyped
  <1>3. head \in Ends /\ Tail(reports[r]) \in Seq(Ends) /\ reports[r][1] = head
    BY <1>1, <1>2
  <1>4. /\ reports'[r] = Tail(reports[r]) /\ reports' \in [All -> Seq(Ends)]
        /\ \A q \in All \ {r} : reports'[q] = reports[q]
    BY Zenon, <1>1, <1>2, <1>3
  <1>5. CASE head = Retrying
    <2>1. routes' = routes
      BY Zenon, <1>3, <1>5, StartConstants DEF await_join
    <2>2. Dialled(r)'
      BY Zenon, <1>1, <1>2 DEF Dialled, Live
    <2>3. Owed(r)'
      <3> SUFFICES ASSUME dials[r].at = "gone" PROVE Told(r)'
        BY Zenon, <1>1 DEF Owed
      <3>1. reports[r][Len(reports[r])] # Retrying
        BY Zenon, <1>1, <1>2 DEF Owed, Owing, Told
      <3>2. Len(reports[r]) # 1 /\ Len(reports[r]) \in Nat
        BY <1>2, <1>3, <1>5, <3>1
      <3>3. /\ Tail(reports[r]) # << >>
            /\ Tail(reports[r])[Len(Tail(reports[r]))] = reports[r][Len(reports[r])]
        BY Zenon, <1>1, <1>2, <3>2, TailLast
      <3> QED BY Zenon, <1>4, <3>1, <3>3 DEF Told
    <2>4. /\ dials' \in [All -> [at : Ats, attempt : Nat, refused : BOOLEAN]]
          /\ resolved' \in [All -> Names] /\ waiting' \in SUBSET All
      BY Zenon, <1>1, <1>2 DEF JTyped
    <2> QED BY Zenon, <1>1, <1>4, <2>1, <2>2, <2>3, <2>4, DialMoves
  <1>6. CASE head # Retrying /\ head \in StartAddresses /\ admit(head)
    <2> DEFINE new == [is |-> "open", address |-> head]
    <2>1. routes' = [routes EXCEPT ![r] = new]
      BY Zenon, <1>6 DEF await_join
    <2>2. new \in [is : {"open", "skipped"}, address : Outcomes] /\ new.is = "open" /\ new.address = head
      BY Zenon, <1>6 DEF Outcomes
    <2>3. new.address \in routed /\ \A q \in All : routes[q] # new
      BY Zenon, <1>6 DEF admit
    <2> HIDE DEF new, head
    <2> QED BY Zenon, <1>1, <1>4, <2>1, <2>2, <2>3, RouteEnds
  <1>7. CASE head # Retrying /\ ~(head \in StartAddresses /\ admit(head))
    <2> DEFINE new == [is |-> "skipped", address |-> head]
    <2>1. routes' = [routes EXCEPT ![r] = new]
      BY Zenon, <1>7 DEF await_join
    <2>2. new \in [is : {"open", "skipped"}, address : Outcomes] /\ new.is = "skipped" /\ new.address = head
      BY Zenon, <1>3, <1>7 DEF Outcomes, Ends
    <2>3. head \in StartAddresses =>
             \/ head \notin Resolved(heardAddresses[r])
             \/ \E q \in All : routes[q] = [is |-> "open", address |-> head]
      BY Zenon, <1>1, <1>2, <1>7 DEF admit, Gated
    <2> HIDE DEF new, head
    <2> QED BY Zenon, <1>1, <1>4, <2>1, <2>2, <2>3, RouteEnds
  <1> QED BY Zenon, <1>5, <1>6, <1>7

-----------------------------------------------------------------------------
LEMMA LeastRoute ==
    ASSUME NEW S \in SUBSET All, S # {}
    PROVE  \E m \in S : \A n \in S : m <= n
  <1> DEFINE R == OpToRel(<, Nat)
  <1>1. IsWellFoundedOn(R, Nat)
    BY Zenon, NatLessThanWellFounded
  <1>2. \A x, y \in Nat : x < y => <<x, y>> \in R
    BY Zenon DEF OpToRel
  <1>3. S \in SUBSET Nat
    BY StartConstants DEF All
  <1> HIDE DEF R
  <1>4. PICK x \in S : \A y \in S : ~(<<y, x>> \in R)
    BY Zenon, <1>1, <1>3, WFMin
  <1>5. \A y \in S : ~(y < x)
    BY Zenon, <1>2, <1>3, <1>4
  <1> QED BY <1>3, <1>5

(* Of the routes of one identity the first is kept.                        *)
LEMMA OneIsKept ==
    ASSUME NEW outcome, NEW r \in All, IsOpen(outcome, r)
    PROVE  \E q \in All : KeptOpen(outcome, q) /\ outcome[q] = outcome[r]
  <1> DEFINE S == {q \in All : outcome[q] = outcome[r]}
  <1>1. PICK m \in S : \A n \in S : m <= n
    <2>1. S \in SUBSET All /\ S # {}
      BY Zenon
    <2> HIDE DEF S
    <2> QED BY Zenon, <2>1, LeastRoute
  <1>2. m \in All /\ outcome[m] = outcome[r]
    BY Zenon
  <1>3. \A q \in 1..(m - 1) : q \in All /\ ~(m <= q)
    BY <1>2, StartConstants DEF All
  <1>4. \A q \in 1..(m - 1) : outcome[q] # outcome[m]
    BY Zenon, <1>1, <1>2, <1>3
  <1> QED BY Zenon, <1>2, <1>4 DEF KeptOpen, IsOpen

(* How the session finds its routes.                                       *)
LEMMA RoutesAtStart ==
    ASSUME NEW outcome \in [All -> Outcomes], NEW r \in All
    PROVE  /\ RouteAtStart(outcome, r) \in [is : {"none", "open", "joining", "skipped"}, address : Outcomes]
           /\ RouteAtStart(outcome, r).is = "open" =>
                KeptOpen(outcome, r) /\ RouteAtStart(outcome, r).address = outcome[r]
           /\ KeptOpen(outcome, r) => RouteAtStart(outcome, r) = [is |-> "open", address |-> outcome[r]]
           /\ RouteAtStart(outcome, r).is = "skipped" => RouteAtStart(outcome, r).address = outcome[r]
           /\ RouteAtStart(outcome, r).is = "joining" => outcome[r] = Unfinished
           /\ RouteAtStart(outcome, r).is # "none"
  <1>1. CASE KeptOpen(outcome, r)
    <2>1. RouteAtStart(outcome, r) = [is |-> "open", address |-> outcome[r]]
      BY Zenon, <1>1 DEF RouteAtStart
    <2> QED BY <1>1, <2>1
  <1>2. CASE ~KeptOpen(outcome, r) /\ Ended(outcome, r)
    <2>1. RouteAtStart(outcome, r) = [is |-> "skipped", address |-> outcome[r]]
      BY Zenon, <1>2 DEF RouteAtStart
    <2> QED BY <1>2, <2>1
  <1>3. CASE ~KeptOpen(outcome, r) /\ ~Ended(outcome, r)
    <2>1. RouteAtStart(outcome, r) = [is |-> "joining", address |-> Unfinished] /\ outcome[r] = Unfinished
      BY Zenon, <1>3 DEF RouteAtStart, Ended
    <2> QED BY <1>3, <2>1 DEF Outcomes
  <1> QED BY Zenon, <1>1, <1>2, <1>3

LEMMA BypassHolds ==
    ASSUME NEW known, NEW now, NEW r \in All
    PROVE  /\ now[r].is # "skipped" => Resolved(known[r]) \subseteq bypass(known, now)
           /\ now[r].is = "open" => now[r].address \in bypass(known, now)
  <1> DEFINE N == {q \in All : now[q].is # "skipped"}
             O == {q \in All : now[q].is = "open"}
             F == {Resolved(known[q]) : q \in N}
             G == {now[q].address : q \in O}
  <1>1. bypass(known, now) = (UNION F) \cup G
    BY Zenon DEF bypass
  <1>2. (now[r].is # "skipped" => r \in N) /\ (now[r].is = "open" => r \in O)
    BY Zenon
  <1> HIDE DEF N, O
  <1>3. (r \in N => Resolved(known[r]) \in F) /\ (r \in O => now[r].address \in G)
    BY Zenon
  <1> HIDE DEF F, G
  <1>4. \A X \in F : X \subseteq UNION F
    BY Zenon
  <1>5. r \in N => Resolved(known[r]) \subseteq bypass(known, now)
    BY <1>1, <1>3, <1>4, Zenon
  <1>6. r \in O => now[r].address \in bypass(known, now)
    <2>1. \A x \in G : x \in bypass(known, now)
      BY <1>1, Zenon
    <2> QED BY Zenon, <1>3, <2>1
  <1> QED BY Zenon, <1>2, <1>5, <1>6

(* What the gate is given holds from the start.                            *)
LEMMA GateAtStart ==
    ASSUME NEW outcome \in [All -> Outcomes], NEW known, heardAddresses' = known,
           routes' = [r \in All |-> RouteAtStart(outcome, r)],
           routed' = bypass(known, routes'),
           NEW r \in All
    PROVE  Gated(r)'
  <1>1. \A q \in All : routes'[q] = RouteAtStart(outcome, q)
    BY Zenon
  <1>2. routes'[r].is = "open" => routes'[r].address \in routed'
    BY Zenon, BypassHolds
  <1>3. routes'[r].is = "open" => \A q \in All \ {r} : routes'[q] # routes'[r]
    <2> SUFFICES ASSUME routes'[r].is = "open", NEW q \in All \ {r}, routes'[q] = routes'[r] PROVE FALSE
      BY Zenon
    <2>1. KeptOpen(outcome, r) /\ routes'[r].address = outcome[r]
      BY Zenon, <1>1, RoutesAtStart
    <2>2. KeptOpen(outcome, q) /\ routes'[q].address = outcome[q]
      BY Zenon, <1>1, RoutesAtStart
    <2>3. outcome[q] = outcome[r]
      BY Zenon, <2>1, <2>2
    <2>4. q \in 1..(r - 1) \/ r \in 1..(q - 1)
      BY StartConstants DEF All
    <2> QED BY Zenon, <2>1, <2>2, <2>3, <2>4 DEF KeptOpen
  <1>4. routes'[r].is = "skipped" /\ routes'[r].address \in StartAddresses =>
          \E q \in All : routes'[q] = [is |-> "open", address |-> routes'[r].address]
    <2> SUFFICES ASSUME routes'[r].is = "skipped", routes'[r].address \in StartAddresses
                 PROVE  \E q \in All : routes'[q] = [is |-> "open", address |-> routes'[r].address]
      BY Zenon
    <2>1. routes'[r].address = outcome[r]
      BY Zenon, <1>1, RoutesAtStart
    <2>2. PICK q \in All : KeptOpen(outcome, q) /\ outcome[q] = outcome[r]
      BY Zenon, <2>1, OneIsKept DEF IsOpen
    <2>3. routes'[q] = [is |-> "open", address |-> outcome[q]]
      BY Zenon, <1>1, <2>2, RoutesAtStart
    <2> QED BY Zenon, <2>1, <2>2, <2>3
  <1>5. routes'[r].is = "joining" => Resolved(known[r]) \subseteq routed'
    BY Zenon, BypassHolds
  <1>6. Resolved(heardAddresses[r])' = Resolved(known[r])
    BY Zenon DEF Resolved
  <1> QED BY Zenon, <1>2, <1>3, <1>4, <1>5, <1>6 DEF Gated

(* What one turn of dial_routes knows of the dials.                        *)
LEMMA TurnFacts ==
    ASSUME StartInv, startPhase = "dialling", NEW r \in All
    PROVE  /\ Outcome(r) \in Outcomes
           /\ r \in served => Outcome(r) = Unfinished
           /\ Outcome(r) = Unfinished => dials[r].at # "gone"
  <1>1. /\ Dialled(r) /\ Owed(r) /\ reports[r] \in Seq(Ends) /\ outcomes[r] \in Outcomes
        /\ (r \in served => outcomes[r] = Unfinished /\ dials[r].at \in {"resolve", "service"})
    BY Zenon DEF StartInv, JTyped, Dialled
  <1>2. CASE outcomes[r] # Unfinished \/ r \in served
    <2>1. Outcome(r) = outcomes[r]
      BY Zenon, <1>2 DEF Outcome
    <2> QED BY Zenon, <1>1, <1>2, <2>1
  <1>3. CASE outcomes[r] = Unfinished /\ r \notin served /\ reports[r] = << >>
    <2>1. Outcome(r) = Unfinished
      BY Zenon, <1>3 DEF Outcome
    <2>2. ~Told(r) /\ Owing(r)
      BY Zenon, <1>3 DEF Told, Owing
    <2> QED BY Zenon, <1>1, <1>3, <2>1, <2>2 DEF Owed
  <1>4. CASE outcomes[r] = Unfinished /\ r \notin served /\ reports[r] # << >>
    <2> DEFINE end == reports[r][Len(reports[r])]
    <2>1. Outcome(r) = IF end = Retrying THEN Unfinished ELSE end
      BY Zenon, <1>4 DEF Outcome
    <2>2. end \in Ends
      BY <1>1, <1>4
    <2>3. dials[r].at = "gone" => end # Retrying
      BY Zenon, <1>1, <1>4 DEF Owed, Owing, Told
    <2> HIDE DEF end
    <2>4. end # Retrying => end \in Outcomes /\ end # Unfinished
      BY Zenon, <2>2, StartConstants DEF Ends, Outcomes, Failed, Unfinished, Retrying
    <2> QED BY Zenon, <1>1, <1>4, <2>1, <2>3, <2>4
  <1> QED BY Zenon, <1>2, <1>3, <1>4

(* One turn of dial_routes: the start goes on waiting, fails or begins.    *)
LEMMA DialRoutesStep ==
    ASSUME StartInv, NEW heard \in SUBSET All, NEW late \in BOOLEAN, dial_routes(heard, late)
    PROVE  StartInv'
  <1> DEFINE known == [r \in All |-> IF r \in heard THEN resolved[r] ELSE heardAddresses[r]]
             outcome == [r \in All |-> Outcome(r)]
             again == retries \cup {r \in All \ served : reports[r] # << >>}
             now == [r \in All |-> RouteAtStart(outcome, r)]
  <1>1. /\ startPhase = "dialling" /\ heardAddresses' = known /\ outcomes' = outcome
        /\ resolved' = [r \in All |-> IF r \in heard THEN Unresolved ELSE resolved[r]]
        /\ reports' = [r \in All |-> IF r \in served THEN reports[r] ELSE << >>]
        /\ UNCHANGED <<served, dials, waiting, reachable>>
        /\ (ready(outcome, known, again, late) /\ start_relay(outcome, known)) \/ UNCHANGED <<startPhase, halt, routes, routed>>
    BY Zenon DEF dial_routes
  <1>2. JTyped /\ Begun
    BY Zenon DEF StartInv
  <1>3. outcome \in [All -> Outcomes] /\ \A r \in All : outcome[r] = Outcome(r)
    BY Zenon, <1>1, TurnFacts
  <1>4. /\ known \in [All -> Names] /\ resolved' \in [All -> Names]
        /\ reports' \in [All -> Seq(Ends)] /\ \A r \in served : reports'[r] = reports[r]
    <2>1. /\ resolved \in [All -> Names] /\ heardAddresses \in [All -> Names]
          /\ reports \in [All -> Seq(Ends)] /\ served \subseteq All
      BY Zenon, <1>2 DEF JTyped
    <2>2. Unresolved \in Names /\ << >> \in Seq(Ends)
      BY DEF Names
    <2> QED BY Zenon, <1>1, <2>1, <2>2
  <1>5. \A r \in All : /\ r \in served => outcome[r] = Unfinished /\ dials[r].at \in {"resolve", "service"}
                                          /\ r \in waiting /\ reports'[r] = << >>
                       /\ outcome[r] = Unfinished => dials[r].at # "gone"
                       /\ dials[r].at = "service" => r \in served
    BY Zenon, <1>1, <1>3, <1>4, TurnFacts DEF StartInv, Dialled
  <1> HIDE DEF outcome, known
  <1>6. \A r \in All : Dialled(r)'
    BY Zenon, <1>1, <1>5 DEF Dialled
  <1>7. CASE UNCHANGED <<startPhase, halt, routes, routed>>
    <2>1. JTyped'
      BY Zenon, <1>1, <1>2, <1>3, <1>4, <1>7 DEF JTyped
    <2>2. Begun'
      BY Zenon, <1>1, <1>2, <1>7 DEF Begun
    <2>3. \A r \in All : Owed(r)'
      BY Zenon, <1>1, <1>5, <1>7 DEF Owed, Owing, Live
    <2> QED BY Zenon, <1>1, <1>6, <1>7, <2>1, <2>2, <2>3 DEF StartInv, Live
  <1>8. CASE start_relay(outcome, known)
    <2>1. /\ routes' = now
          /\ (startPhase' = "over" /\ halt' = TRUE) \/ (startPhase' = "waiting" /\ halt' = FALSE)
      BY Zenon, <1>8 DEF start_relay
    <2>2. now \in [All -> [is : {"none", "open", "joining", "skipped"}, address : Outcomes]]
      BY Zenon, <1>3, RoutesAtStart
    <2>3. JTyped'
      BY Zenon, <1>1, <1>2, <1>3, <1>4, <2>1, <2>2 DEF JTyped
    <2>4. Begun'
      BY Zenon, <1>1, <1>2, <2>1 DEF Begun
    <2>5. \A r \in All : Owed(r)'
      <3>1. \A r \in All : routes'[r].is = "joining" => outcome[r] = Unfinished
        BY Zenon, <1>3, <2>1, RoutesAtStart
      <3> QED BY Zenon, <1>1, <1>5, <2>1, <3>1 DEF Owed, Owing
    <2>6. \A r \in All : Gated(r)'
      <3>1. routed' = bypass(known, routes') /\ routes' = [r \in All |-> RouteAtStart(outcome, r)]
        BY Zenon, <1>8 DEF start_relay
      <3> QED BY Zenon, <1>1, <1>3, <3>1, GateAtStart
    <2> QED BY Zenon, <1>6, <2>3, <2>4, <2>5, <2>6 DEF StartInv
  <1> QED BY Zenon, <1>1, <1>7, <1>8

LEMMA RunningStep ==
    ASSUME StartInv,
           (\E settled \in BOOLEAN : wait_until_ready(settled)) \/ stop_session \/ \E r \in All : Probe(r)
    PROVE  StartInv'
  <1>1. /\ UNCHANGED <<served, dials, reports, resolved, heardAddresses, outcomes, routed, routes>>
        /\ Live /\ startPhase' \in {"waiting", "running", "over"}
        /\ halt' <=> startPhase' = "over"
        /\ waiting' = waiting \/ (waiting' = {} /\ startPhase' = "over")
        /\ reachable' = reachable \/ \E r \in All : routes[r].is = "open" /\ reachable' = reachable \cup {r}
    BY DEF wait_until_ready, stop_session, Probe, Running, Live, StartInv, Begun
  <1>2. JTyped' 
    <2>1. halt' \in BOOLEAN
      BY Zenon DEF wait_until_ready, stop_session, Probe, Running, StartInv, JTyped
    <2> QED BY Zenon, <1>1, <2>1 DEF StartInv, JTyped
  <1>3. Begun'
    BY Zenon, <1>1 DEF StartInv, Begun
  <1>4. ASSUME NEW r \in All PROVE Dialled(r)' /\ Owed(r)' /\ (Live => Gated(r))'
    <2>1. Dialled(r) /\ Owed(r) /\ Gated(r)
      BY Zenon, <1>1 DEF StartInv
    <2>2. Dialled(r)'
      BY Zenon, <1>1, <2>1 DEF Dialled, Live
    <2>3. Owed(r)'
      BY Zenon, <1>1, <2>1 DEF Owed, Owing, Told, Live
    <2>4. Gated(r)'
      BY Zenon, <1>1, <2>1 DEF Gated
    <2> QED BY Zenon, <2>2, <2>3, <2>4
  <1> QED BY Zenon, <1>2, <1>3, <1>4 DEF StartInv

LEMMA StartInit == JInit => StartInv
  <1> SUFFICES ASSUME JInit PROVE StartInv
    BY Zenon
  <1>1. /\ served \in SUBSET All /\ startPhase = "dialling" /\ halt = FALSE /\ waiting = served /\ reachable = {}
        /\ \A r \in All : dials[r].at = "resolve" /\ reports[r] = << >> /\ outcomes[r] = Unfinished
    BY Zenon, StartConstants DEF JInit
  <1>2. JTyped
    <2>1. dials \in [All -> [at : Ats, attempt : Nat, refused : BOOLEAN]]
      BY Zenon DEF JInit, Ats
    <2>2. reports \in [All -> Seq(Ends)]
      BY DEF JInit
    <2>3. resolved \in [All -> Names] /\ heardAddresses \in [All -> Names]
      BY Zenon DEF JInit, Names
    <2>4. outcomes \in [All -> Outcomes]
      BY Zenon DEF JInit, Outcomes
    <2>5. routes \in [All -> [is : {"none", "open", "joining", "skipped"}, address : Outcomes]]
      BY Zenon DEF JInit, Outcomes
    <2> QED BY Zenon, <1>1, <2>1, <2>2, <2>3, <2>4, <2>5 DEF JTyped
  <1>3. \A r \in All : Dialled(r) /\ Owed(r)
    BY Zenon, <1>1 DEF Dialled, Owed
  <1> QED BY Zenon, <1>1, <1>2, <1>3 DEF StartInv, Begun, Live

LEMMA StartStutters ==
    ASSUME StartInv, UNCHANGED jVars
    PROVE  StartInv'
  <1>1. /\ UNCHANGED <<served, startPhase, halt, dials, reports, resolved, heardAddresses, outcomes>>
        /\ UNCHANGED <<routed, routes, waiting, reachable>>
    BY Zenon DEF jVars
  <1>2. JTyped' /\ Begun'
    BY Zenon, <1>1 DEF StartInv, JTyped, Begun
  <1>3. ASSUME NEW r \in All PROVE Dialled(r)' /\ Owed(r)' /\ (Live => Gated(r))'
    <2>1. Dialled(r) /\ Owed(r) /\ (Live => Gated(r))
      BY Zenon DEF StartInv
    <2>2. Dialled(r)'
      BY Zenon, <1>1, <2>1 DEF Dialled
    <2>3. Owed(r)'
      BY Zenon, <1>1, <2>1 DEF Owed, Owing, Told, Live
    <2>4. (Live => Gated(r))'
      BY Zenon, <1>1, <2>1 DEF Gated, Live
    <2> QED BY Zenon, <2>2, <2>3, <2>4
  <1> QED BY Zenon, <1>2, <1>3 DEF StartInv

LEMMA StartNext == StartInv /\ [JNext]_jVars => StartInv'
  <1> SUFFICES ASSUME StartInv, [JNext]_jVars PROVE StartInv'
    BY Zenon
  <1>1. CASE \E r \in All :
               \/ \E A \in SUBSET StartAddresses : Resolve(r, A)
               \/ \E a \in StartAddresses : Opened(r, a)
               \/ \E ok \in BOOLEAN : attach_l2tp_route(r, ok)
               \/ Check(r) \/ OpenFails(r) \/ wait_unless_stopped(r) \/ ServiceGone(r) \/ await_join(r)
    BY Zenon, <1>1, ResolveStep, OpenedStep, AttachStep, CheckStep, OpenFailsStep, WaitStep, ServiceGoneStep, AwaitJoinStep
  <1>2. CASE \E late \in BOOLEAN : \/ dial_routes({}, late)
                                   \/ \E r \in All : resolved[r] # Unresolved /\ dial_routes({r}, late)
    <2>1. PICK heard \in SUBSET All, late \in BOOLEAN : dial_routes(heard, late)
      BY Zenon, <1>2
    <2> QED BY Zenon, <2>1, DialRoutesStep
  <1>3. CASE (\E settled \in BOOLEAN : wait_until_ready(settled)) \/ stop_session \/ \E r \in All : Probe(r)
    BY Zenon, <1>3, RunningStep
  <1>4. CASE UNCHANGED jVars
    BY Zenon, <1>4, StartStutters
  <1> QED BY Zenon, <1>1, <1>2, <1>3, <1>4 DEF JNext

(* The invariant says what RoutesAreAccountedFor asks for.                 *)
LEMMA StartInvSuffices == StartInv => RoutesAreAccountedFor
  <1> SUFFICES ASSUME StartInv PROVE RoutesAreAccountedFor
    BY Zenon
  <1>1. JTypeOK
    BY Zenon DEF StartInv, JTyped, JTypeOK, Ats
  <1>2. ASSUME Live, NEW r \in All
        PROVE  /\ Gated(r)
               /\ routes[r].is = "joining" => ~Silent(r)
               /\ dials[r].at = "service" => r \in waiting
    <2>1. Dialled(r) /\ Owed(r) /\ Gated(r) /\ startPhase # "over"
      BY Zenon, <1>2 DEF StartInv, Live
    <2>2. routes[r].is = "joining" => ~Silent(r)
      BY Zenon, <1>2, <2>1 DEF Owed, Owing, Told, Silent
    <2> QED BY Zenon, <2>1, <2>2 DEF Dialled
  <1>3. \A r \in reachable : routes[r].is = "open"
    BY Zenon DEF StartInv, Begun
  <1>4. ASSUME startPhase = "dialling", \A r \in All : heardAddresses[r] # Unresolved,
               \A r \in All \ served : Silent(r)
        PROVE  ready(outcomes, heardAddresses, retries, FALSE)
    <2>1. ASSUME NEW r \in All \ served PROVE Ended(outcomes, r)
      <3>1. Owed(r) /\ ~Told(r) /\ dials[r].at = "gone"
        BY Zenon, <1>4 DEF StartInv, Silent, Told
      <3> QED BY Zenon, <1>4, <3>1 DEF Owed, Owing, Ended
    <2>2. {r \in All \ served : ~Ended(outcomes, r)} = {}
      BY Zenon, <2>1
    <2> QED BY Zenon, <1>4, <2>2 DEF ready
  <1> QED BY Zenon, <1>1, <1>2, <1>3, <1>4 DEF RoutesAreAccountedFor, Gated

(* For any number of routes, any names and addresses and any number of     *)
(* attempts, however the dials end: the open routes of a session that has  *)
(* started have different identities and leave by routed addresses, no     *)
(* route is turned away for an address its name was known to have unless   *)
(* another route has it, a joining route's dial still has something to     *)
(* say, and a start whose dials are all over is not held up                *)
(* (dial_routes, start_relay, JoinGate::admit, await_join).                *)
THEOREM RoutesAreAlwaysAccountedFor == JSpec => []RoutesAreAccountedFor
  <1>1. JInit => StartInv
    BY Zenon, StartInit
  <1>2. StartInv /\ [JNext]_jVars => StartInv'
    BY Zenon, StartNext
  <1>3. StartInv => RoutesAreAccountedFor
    BY Zenon, StartInvSuffices
  <1> QED BY <1>1, <1>2, <1>3, PTL DEF JSpec
=============================================================================
