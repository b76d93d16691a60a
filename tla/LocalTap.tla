------------------------------ MODULE LocalTap ------------------------------
(***************************************************************************)
(* Telling the replies of the LAN proxy's own network stack from those of  *)
(* captured applications: engine/src/session/local_tap.rs, and the parts   *)
(* of engine/src/socks/tunnel_egress.rs that attach, reserve and detach.   *)
(*                                                                         *)
(* Path workers divert packets by a bitmap of ports while the proxy's      *)
(* thread takes ports, gives them back and, when the proxy stops, detaches.*)
(* Each step of the model is one atomic access of the code, so any step of *)
(* one thread may fall between two of another. What is not the stack's     *)
(* waits in the capture's queue, which a gauge measures.                   *)
(***************************************************************************)
EXTENDS Naturals, Sequences

CONSTANTS
  TapPorts,              \* ports Windows can give out
  TapWorkers,            \* path worker threads
  FRAGMENT_TRACK_LIMIT,  \* datagrams whose later pieces are followed
  INBOX_LIMIT,           \* packets the stack's inbox holds
  INBOUND_QUEUE_DEPTH,   \* packets the capture's queue holds
  MaxArrivals,           \* bound: datagrams the tunnel delivers
  MaxTenures             \* bound: times a port changes hands

VARIABLES
  tenant,     \* per port: who holds its socket, and how often it changed hands
  tap,        \* the tap: claimed ports, armed, sink, tracked datagrams
  egress,     \* the proxy's thread: its step, the port in it, its reservations
  diverting,  \* per worker: the packet in hand and the step of divert it is at
  inbound,    \* inbox and queue lengths, the gauge, the delivery thread's step
  tunnel      \* datagrams arrived so far, and later pieces still to come

tapVars == <<tenant, tap, egress, diverting, inbound, tunnel>>

Handing == [at |-> "idle"]

TapInit ==
  /\ tenant = [p \in TapPorts |-> [who |-> "free", n |-> 0]]
  /\ tap = [claims |-> {}, armed |-> FALSE, sink |-> FALSE, tracked |-> <<>>]
  /\ egress = [at |-> "none", port |-> {}, held |-> {}]
  /\ diverting = [w \in TapWorkers |-> Handing]
  /\ inbound = [inbox |-> 0, queue |-> 0, gauge |-> 0, taking |-> FALSE]
  /\ tunnel = [arrivals |-> 0, later |-> {}]

Hands(p, who) ==
  /\ tenant[p].n < MaxTenures
  /\ tenant' = [tenant EXCEPT ![p] = [who |-> who, n |-> @.n + 1]]

(* Windows gives an application a free port, and takes it back. *)
AppBinds(p) ==
  /\ tenant[p].who = "free" /\ Hands(p, "app")
  /\ UNCHANGED <<tap, egress, diverting, inbound, tunnel>>

AppCloses(p) ==
  /\ tenant[p].who = "app" /\ Hands(p, "free")
  /\ UNCHANGED <<tap, egress, diverting, inbound, tunnel>>

(* TunnelEgress::new sets the sink, then arms the tap. *)
attach ==
  /\ egress.at = "none"
  /\ tap' = [tap EXCEPT !.sink = TRUE, !.armed = TRUE]
  /\ egress' = [egress EXCEPT !.at = "open"]
  /\ UNCHANGED <<tenant, diverting, inbound, tunnel>>

(* Reservation::take binds a real socket, then claims its port. *)
Reserve(p) ==
  /\ egress.at = "open" /\ tenant[p].who = "free" /\ Hands(p, "stack")
  /\ egress' = [egress EXCEPT !.at = "claim", !.port = {p}]
  /\ UNCHANGED <<tap, diverting, inbound, tunnel>>

claim ==
  /\ egress.at = "claim"
  /\ tap' = [tap EXCEPT !.claims = @ \cup egress.port]
  /\ egress' = [at |-> "open", port |-> {}, held |-> egress.held \cup egress.port]
  /\ UNCHANGED <<tenant, diverting, inbound, tunnel>>

(* Reservation::drop withdraws the claim; its socket closes only after. *)
release(p) ==
  /\ egress.at \in {"open", "dropping"} /\ p \in egress.held
  /\ tap' = [tap EXCEPT !.claims = @ \ {p}]
  /\ egress' = [at |-> IF egress.at = "open" THEN "close" ELSE "close last",
                port |-> {p}, held |-> egress.held \ {p}]
  /\ UNCHANGED <<tenant, diverting, inbound, tunnel>>

ReservationCloses ==
  /\ egress.at \in {"close", "close last"}
  /\ \E p \in egress.port : Hands(p, "free")
  /\ egress' = [egress EXCEPT !.at = IF @ = "close" THEN "open" ELSE "dropping", !.port = {}]
  /\ UNCHANGED <<tap, diverting, inbound, tunnel>>

(* TunnelEgress::drop detaches before its flows' reservations drop: the    *)
(* tap is disarmed, loses its sink, its claims and its tracked datagrams.  *)
detach ==
  /\ \/ /\ egress.at = "open"
        /\ tap' = [tap EXCEPT !.armed = FALSE]
        /\ egress' = [egress EXCEPT !.at = "disarmed"]
     \/ /\ egress.at = "disarmed"
        /\ tap' = [tap EXCEPT !.sink = FALSE]
        /\ egress' = [egress EXCEPT !.at = "no sink"]
     \/ /\ egress.at = "no sink"
        /\ tap' = [tap EXCEPT !.claims = {}]
        /\ egress' = [egress EXCEPT !.at = "no claims"]
     \/ /\ egress.at = "no claims"
        /\ tap' = [tap EXCEPT !.tracked = <<>>]
        /\ egress' = [egress EXCEPT !.at = "dropping"]
  /\ UNCHANGED <<tenant, diverting, inbound, tunnel>>

(* SocksServerManager::stop joins the thread, so another stack attaches    *)
(* only when the last one is gone.                                         *)
EgressGone ==
  /\ egress.at = "dropping" /\ egress.held = {}
  /\ egress' = [egress EXCEPT !.at = "none"]
  /\ inbound' = [inbound EXCEPT !.inbox = 0]
  /\ UNCHANGED <<tenant, tap, diverting, tunnel>>

(* A datagram arrives for whoever holds the port: whole, or as a first     *)
(* piece with a later one behind it. No two datagrams of one source share  *)
(* an identification while one is tracked.                                 *)
Arrive(w, p, piece) ==
  /\ diverting[w].at = "idle" /\ tunnel.arrivals < MaxArrivals
  /\ tenant[p].who = "app" \/ p \in egress.held
  /\ LET packet == [at |-> "armed", port |-> p, who |-> tenant[p].who, n |-> tenant[p].n,
                    piece |-> piece, id |-> tunnel.arrivals]
     IN  /\ diverting' = [diverting EXCEPT ![w] = packet]
         /\ tunnel' = [arrivals |-> tunnel.arrivals + 1,
                       later |-> IF piece = "first" THEN tunnel.later \cup {[packet EXCEPT !.piece = "later"]}
                                                    ELSE tunnel.later]
  /\ UNCHANGED <<tenant, tap, egress, inbound>>

LaterPiece(w) ==
  /\ diverting[w].at = "idle"
  /\ \E packet \in tunnel.later :
       /\ diverting' = [diverting EXCEPT ![w] = packet]
       /\ tunnel' = [tunnel EXCEPT !.later = @ \ {packet}]
  /\ UNCHANGED <<tenant, tap, egress, inbound>>

Step(w, at) == diverting' = [diverting EXCEPT ![w].at = at]

(* LocalTap::divert, one atomic access at a time. *)
LoadArmed(w) ==
  /\ diverting[w].at = "armed"
  /\ Step(w, IF tap.armed THEN "claimed" ELSE "queue")
  /\ UNCHANGED <<tenant, tap, egress, inbound, tunnel>>

is_claimed(w) ==
  /\ diverting[w].at = "claimed" /\ diverting[w].piece # "later"
  /\ Step(w, IF diverting[w].port \notin tap.claims THEN "queue"
             ELSE IF diverting[w].piece = "first" THEN "track" ELSE "deliver")
  /\ UNCHANGED <<tenant, tap, egress, inbound, tunnel>>

track_fragment(w) ==
  /\ diverting[w].at = "track"
  /\ LET old == tap.tracked
         kept == IF Len(old) >= FRAGMENT_TRACK_LIMIT THEN Tail(old) ELSE old
     IN  tap' = [tap EXCEPT !.tracked = Append(kept, diverting[w].id)]
  /\ Step(w, "deliver")
  /\ UNCHANGED <<tenant, egress, inbound, tunnel>>

is_tracked_fragment(w) ==
  /\ diverting[w].at = "claimed" /\ diverting[w].piece = "later"
  /\ Step(w, IF \E k \in 1..Len(tap.tracked) : tap.tracked[k] = diverting[w].id THEN "deliver" ELSE "queue")
  /\ UNCHANGED <<tenant, tap, egress, inbound, tunnel>>

(* FRAGMENT_TRACK_TTL runs out for the oldest tracked datagram. *)
TrackExpires ==
  /\ tap.tracked # <<>>
  /\ tap' = [tap EXCEPT !.tracked = Tail(@)]
  /\ UNCHANGED <<tenant, egress, diverting, inbound, tunnel>>

(* Inbox::deliver, or Diversion::Full: a packet of the stack's that it     *)
(* cannot hold is dropped.                                                 *)
deliver_reply(w) ==
  /\ diverting[w].at = "deliver"
  /\ inbound' = IF tap.sink /\ inbound.inbox < INBOX_LIMIT
                THEN [inbound EXCEPT !.inbox = @ + 1] ELSE inbound
  /\ diverting' = [diverting EXCEPT ![w] = Handing]
  /\ UNCHANGED <<tenant, tap, egress, tunnel>>

(* Inbox::take *)
StackTakes ==
  /\ inbound.inbox > 0 /\ egress.at = "open"
  /\ inbound' = [inbound EXCEPT !.inbox = 0]
  /\ UNCHANGED <<tenant, tap, egress, diverting, tunnel>>

(* InboundSink::try_send puts the packet in the queue and only then counts *)
(* it; a full queue refuses it.                                            *)
try_send(w) ==
  /\ diverting[w].at = "queue"
  /\ \/ /\ inbound.queue < INBOUND_QUEUE_DEPTH
        /\ inbound' = [inbound EXCEPT !.queue = @ + 1]
        /\ Step(w, "gauge")
     \/ /\ inbound.queue = INBOUND_QUEUE_DEPTH
        /\ diverting' = [diverting EXCEPT ![w] = Handing]
        /\ UNCHANGED inbound
  /\ UNCHANGED <<tenant, tap, egress, tunnel>>

gauge_queued(w) ==
  /\ diverting[w].at = "gauge"
  /\ inbound' = [inbound EXCEPT !.gauge = @ + 1]
  /\ diverting' = [diverting EXCEPT ![w] = Handing]
  /\ UNCHANGED <<tenant, tap, egress, tunnel>>

(* DataReceiver::receive takes a packet, then tells the gauge, which never *)
(* goes below zero.                                                        *)
receive_reply ==
  /\ inbound.queue > 0 /\ ~inbound.taking
  /\ inbound' = [inbound EXCEPT !.queue = @ - 1, !.taking = TRUE]
  /\ UNCHANGED <<tenant, tap, egress, diverting, tunnel>>

taken ==
  /\ inbound.taking
  /\ inbound' = [inbound EXCEPT !.gauge = IF @ = 0 THEN 0 ELSE @ - 1, !.taking = FALSE]
  /\ UNCHANGED <<tenant, tap, egress, diverting, tunnel>>

TapNext ==
  \/ attach \/ claim \/ ReservationCloses \/ detach \/ EgressGone
  \/ TrackExpires \/ StackTakes \/ receive_reply \/ taken
  \/ \E p \in TapPorts : AppBinds(p) \/ AppCloses(p) \/ Reserve(p) \/ release(p)
  \/ \E w \in TapWorkers :
       \/ \E p \in TapPorts, piece \in {"whole", "first"} : Arrive(w, p, piece)
       \/ LaterPiece(w) \/ LoadArmed(w) \/ is_claimed(w) \/ track_fragment(w)
       \/ is_tracked_fragment(w) \/ deliver_reply(w) \/ try_send(w) \/ gauge_queued(w)

TapSpec == TapInit /\ [][TapNext]_tapVars

TapTypeOK ==
  /\ tap.claims \subseteq TapPorts /\ egress.held \subseteq TapPorts
  /\ Len(tap.tracked) <= FRAGMENT_TRACK_LIMIT
  /\ inbound.inbox <= INBOX_LIMIT /\ inbound.queue <= INBOUND_QUEUE_DEPTH

(* The holder the packet was sent to still has the port. *)
CurrentTap(packet) == tenant[packet.port].n = packet.n

(* A claimed port is one the stack holds, "so Windows can never hand the   *)
(* same port to an application whose traffic capture carries"; a stack     *)
(* that stops "cannot leave ports behind that swallow a later              *)
(* application's replies": no packet for an application that still has its *)
(* port is taken for the stack's, and while the stack runs no packet for a *)
(* port it holds goes to capture, whichever steps of the workers, the      *)
(* proxy's thread and the applications fall between the accesses of divert.*)
RepliesFindTheirSocket ==
  /\ TapTypeOK
  /\ \A p \in tap.claims : tenant[p].who = "stack"
  /\ \A w \in TapWorkers :
       LET packet == diverting[w] IN
       /\ packet.at \in {"deliver", "track"} /\ CurrentTap(packet) => packet.who = "stack"
       /\ /\ packet.at = "queue" /\ packet.who = "stack" /\ packet.piece # "later" /\ CurrentTap(packet)
          /\ egress.at \in {"open", "claim", "close"}
          => packet.port \notin egress.held
=============================================================================
