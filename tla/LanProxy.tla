------------------------------ MODULE LanProxy ------------------------------
(***************************************************************************)
(* The proxy for other devices of the network (engine/src/socks): its      *)
(* connections, flows and ports, and one connection being relayed.         *)
(***************************************************************************)
EXTENDS Integers, FiniteSets, Sequences, SequencesExt, FiniteSetsExt

(***************************************************************************)
(* The proxy for other devices of the network (engine/src/socks): client   *)
(* connections through their handshake, their flows through the session,   *)
(* UDP associations, the resolver that lookups wait in, and the local      *)
(* ports claimed for flows (socks/tunnel_egress.rs, session/local_tap.rs). *)
(* One thread runs everything: an action is one connection's share of a    *)
(* turn.                                                                   *)
(***************************************************************************)

CONSTANTS
  Devices, DevicePorts, HostNames,
  MAX_CONNECTIONS, MAX_CONNECTIONS_PER_CLIENT, MAX_ASSOCIATIONS_PER_CLIENT,
  PENDING_DATAGRAMS,     \* PENDING_DATAGRAMS_PER_ASSOCIATION
  MaxConnected, MaxFlows \* bounds on a behaviour: connections, flows

VARIABLES lan        \* the Server with its Egress, Resolver and ClientBook

Empty == [x \in {} |-> 0]
With(f, k, v) == [x \in DOMAIN f \cup {k} |-> IF x = k THEN v ELSE f[x]]
Less(f, S) == [x \in DOMAIN f \ S |-> f[x]]

NewServer ==
  [up |-> TRUE, connections |-> Empty, associations |-> Empty, flows |-> Empty, lingering |-> {},
   claimed |-> {}, resolving |-> 0, pending |-> Empty, cache |-> Empty,
   active |-> [d \in Devices |-> [tcp |-> 0, udp |-> 0]], accepted |-> 0, opened |-> 0]

NewConnection(d) == [phase |-> "Sniff", client |-> d, flow |-> 0, counted |-> FALSE, finished |-> FALSE]

Phase(s, t, phase) == [s EXCEPT !.connections[t].phase = phase]
fail(s, t) == Phase(s, t, "Closing")
Finish(s, t) == [s EXCEPT !.connections[t].finished = TRUE]

-----------------------------------------------------------------------------
(* The egress: flows, each with a local port of its own, named like it.    *)

(* Reservation::take and insert.                                           *)
OpenFlow(s, to) ==
  LET f == s.opened + 1
  IN [s EXCEPT !.opened = f, !.flows = With(@, f, to), !.claimed = @ \cup {f}]

udp_release(s, f) == [s EXCEPT !.flows = Less(@, {f}), !.claimed = @ \ {f}]

(* A released connection stays until its end has been sent.                *)
tcp_release(s, f) == [s EXCEPT !.flows = Less(@, {f}), !.lingering = @ \cup {f}]

Lingered(f) ==
  /\ f \in lan.lingering
  /\ lan' = [lan EXCEPT !.lingering = @ \ {f}, !.claimed = @ \ {f}]

-----------------------------------------------------------------------------
(* The resolver.  A lookup is Ready, Failed or Pending, with the state it  *)
(* leaves.                                                                 *)

lookup(s, name, waiter) ==
  LET result(what, t) == [what |-> what, s |-> t]
      asked(t) == [t EXCEPT !.pending = With(@, name, <<waiter>>)]
  IN IF name \in DOMAIN s.cache THEN {result(IF s.cache[name] THEN "Ready" ELSE "Failed", s)}
     ELSE IF name \in DOMAIN s.pending
     THEN {result("Pending", [s EXCEPT !.pending[name] = Append(@, waiter)])}
     ELSE IF s.resolving # 0 THEN {result("Pending", asked(s))}
     ELSE {result("Failed", s),
           result("Pending", asked([OpenFlow(s, "udp") EXCEPT !.resolving = s.opened + 1]))}

-----------------------------------------------------------------------------
(* Connections. *)

accept_connection(d) ==
  /\ lan.up /\ lan.accepted < MaxConnected
  /\ Cardinality(DOMAIN lan.connections) < MAX_CONNECTIONS
  /\ lan.active[d].tcp < MAX_CONNECTIONS_PER_CLIENT
  /\ lan' = [lan EXCEPT !.accepted = @ + 1,
                        !.connections = With(@, lan.accepted + 1, NewConnection(d))]

(* open: refused for what may not be reached or cannot be opened.          *)
open(s, t) ==
  {fail(s, t),
   [Phase(OpenFlow(s, "tcp"), t, "Connecting") EXCEPT !.connections[t].flow = s.opened + 1]}

(* begin_connect: to an address, to a name, or to nothing it can reach.    *)
begin_connect(s, t) ==
  {fail(s, t)} \cup open(s, t)
  \cup UNION {CASE r.what = "Ready" -> open(r.s, t)
                [] r.what = "Failed" -> {fail(r.s, t)}
                [] r.what = "Pending" -> {Phase(r.s, t, "Resolving")}
              : r \in UNION {lookup(s, n, [for |-> "connection", id |-> t]) : n \in HostNames}}

associate(s, t) ==
  LET d == s.connections[t].client
      own == {a \in DOMAIN s.associations : s.associations[a].client = d}
      f == s.opened + 1
      association(port) == [client |-> d, port |-> port, flow |-> f, pending |-> 0]
  IN {fail(s, t)} \cup
     (IF Cardinality(own) >= MAX_ASSOCIATIONS_PER_CLIENT THEN {}
      ELSE {[Phase(OpenFlow(s, "udp"), t, "UdpControl") EXCEPT
               !.associations = With(@, t, association(port)), !.active[d].udp = @ + 1]
            : port \in DevicePorts \cup {0}})

(* step_connection: each part of the handshake is read whole, is wrong, or *)
(* leads to the next; a login is asked for or not.                         *)
step_connection(s, t) ==
  LET c == s.connections[t]
  IN CASE c.phase = "Sniff" -> {Phase(s, t, "Greeting"), Phase(s, t, "HttpHead"), Finish(s, t)}
       [] c.phase = "Greeting" ->
            {Phase(s, t, "UserPass"), Phase(s, t, "Request"), fail(s, t), Finish(s, t)}
       [] c.phase = "UserPass" -> {Phase(s, t, "Request"), fail(s, t), Finish(s, t)}
       [] c.phase = "Request" -> begin_connect(s, t) \cup associate(s, t) \cup {Finish(s, t)}
       [] c.phase = "HttpHead" -> begin_connect(s, t) \cup {Finish(s, t)}
       [] c.phase \in {"Relaying", "UdpControl"} -> {Finish(s, t)}
       [] OTHER -> {}

Steps(t) ==
  /\ lan.up /\ ~lan.connections[t].finished /\ lan.opened + 1 < MaxFlows
  /\ \E s \in step_connection(lan, t) : lan' = s

(* deliver: the outcome of a connect, the end of a relayed connection, or  *)
(* the last of a closing one.                                              *)
deliver(t) ==
  LET c == lan.connections[t]
  IN /\ lan.up
     /\ \/ /\ c.phase = "Connecting"
           /\ lan' = [Phase(lan, t, "Relaying") EXCEPT
                        !.connections[t].counted = TRUE, !.active[c.client].tcp = @ + 1]
        \/ /\ c.phase = "Connecting"
           /\ lan' = fail(tcp_release(lan, c.flow), t)
        \/ /\ c.phase \in {"Relaying", "Closing"} /\ ~c.finished
           /\ lan' = Finish(lan, t)

(* expire: the deadline of a handshake, a connect or a closing.            *)
expire(t) ==
  LET c == lan.connections[t]
  IN /\ lan.up /\ ~c.finished /\ c.phase \notin {"Relaying", "UdpControl"}
     /\ lan' = CASE c.phase = "Connecting" -> fail(tcp_release(lan, c.flow), t)
                 [] c.phase = "Resolving" -> fail(lan, t)
                 [] OTHER -> Finish(Phase(lan, t, "Closing"), t)

(* reap, of one connection.                                                *)
Reaped(s, t) ==
  LET c == s.connections[t]
      gone == [s EXCEPT !.connections = Less(@, {t}),
                        !.active[c.client].tcp = IF c.counted THEN @ - 1 ELSE @]
  IN CASE c.phase \in {"Connecting", "Relaying"} -> tcp_release(gone, c.flow)
       [] c.phase = "UdpControl" ->
            [udp_release(gone, s.associations[t].flow) EXCEPT
               !.associations = Less(@, {t}), !.active[c.client].udp = @ - 1]
       [] OTHER -> gone

reap(t) == lan.up /\ lan.connections[t].finished /\ lan' = Reaped(lan, t)

-----------------------------------------------------------------------------
(* Lookups that end, and datagrams. *)

Woken(S, waiter, found) ==
  UNION {CASE waiter.for = "connection" /\ waiter.id \in DOMAIN s.connections ->
                IF s.connections[waiter.id].phase # "Resolving" THEN {s}
                ELSE IF found THEN open(s, waiter.id) ELSE {fail(s, waiter.id)}
           [] waiter.for = "datagram" /\ waiter.id \in DOMAIN s.associations ->
                {[s EXCEPT !.associations[waiter.id].pending = IF @ > 0 THEN @ - 1 ELSE 0]}
           [] OTHER -> {s}
         : s \in S}

(* poll and finish_lookups: an answer, kept for a while, or none in time.  *)
finish_lookups(name) ==
  /\ lan.up /\ name \in DOMAIN lan.pending
  /\ lan.opened + Len(lan.pending[name]) < MaxFlows
  /\ \E found \in BOOLEAN, answered \in BOOLEAN :
       LET s == [lan EXCEPT !.pending = Less(@, {name}),
                            !.cache = IF answered THEN With(@, name, found) ELSE @]
       IN /\ found => answered
          /\ \E t \in FoldLeft(LAMBDA S, w : Woken(S, w, found), {s}, lan.pending[name]) : lan' = t

CacheExpires(name) ==
  name \in DOMAIN lan.cache /\ lan' = [lan EXCEPT !.cache = Less(@, {name})]

(* association_for: the one that speaks from this port, else the oldest    *)
(* that has not spoken, which takes the port.                              *)
association_for(s, d, port) ==
  LET own == {a \in DOMAIN s.associations : s.associations[a].client = d}
      exact == {a \in own : s.associations[a].port = port}
      silent == {a \in own : s.associations[a].port = 0}
  IN IF exact # {} THEN exact ELSE IF silent # {} THEN {Min(silent)} ELSE {}

(* receive_client_datagrams, of one datagram.                              *)
receive_client_datagram(d, port) ==
  /\ lan.up
  /\ \E a \in association_for(lan, d, port) :
       LET s == [lan EXCEPT !.associations[a].port = port]
       IN \/ lan' = s
          \/ /\ s.associations[a].pending < PENDING_DATAGRAMS /\ lan.opened + 1 < MaxFlows
             /\ \E n \in HostNames :
                  \E r \in lookup(s, n, [for |-> "datagram", id |-> a]) :
                    lan' = IF r.what = "Pending"
                           THEN [r.s EXCEPT !.associations[a].pending = @ + 1] ELSE r.s

-----------------------------------------------------------------------------
(* SocksServerManager::stop: every connection is reaped, the resolver gives*)
(* up its flow, and the egress is dropped, which detaches the tap and      *)
(* drops what reservations are left.                                       *)
stop ==
  /\ lan.up
  /\ LET closed == FoldLeft(Reaped, lan, SetToSeq(DOMAIN lan.connections))
         s == IF closed.resolving = 0 THEN closed
              ELSE [udp_release(closed, closed.resolving) EXCEPT !.resolving = 0]
     IN lan' = [s EXCEPT !.up = FALSE, !.lingering = {}, !.claimed = {}, !.pending = Empty,
                         !.cache = Empty]

start ==
  /\ ~lan.up
  /\ lan' = [NewServer EXCEPT !.accepted = lan.accepted, !.opened = lan.opened]

LanInit == lan = NewServer

LanNext ==
  \/ \E d \in Devices : accept_connection(d) \/ \E p \in DevicePorts : receive_client_datagram(d, p)
  \/ \E t \in DOMAIN lan.connections : Steps(t) \/ deliver(t) \/ expire(t) \/ reap(t)
  \/ \E n \in HostNames : finish_lookups(n) \/ CacheExpires(n)
  \/ \E f \in lan.lingering : Lingered(f)
  \/ stop \/ start

LanSpec == LanInit /\ [][LanNext]_lan

-----------------------------------------------------------------------------

LanTypeOK ==
  /\ DOMAIN lan.connections \subseteq 1..MaxConnected
  /\ DOMAIN lan.flows \cup lan.lingering \subseteq 1..lan.opened
  /\ \A t \in DOMAIN lan.connections : lan.connections[t].phase \in
       {"Sniff", "Greeting", "UserPass", "Request", "HttpHead", "Resolving", "Connecting",
        "Relaying", "UdpControl", "Closing"}

(* Every flow has exactly one owner, a connection, an association or the   *)
(* resolver, and every owner its flow, however connects, lookups, deadlines*)
(* and ends cross; a local port is claimed exactly as long as its flow or  *)
(* the rest of it lives, and none once the proxy has stopped ("a stack     *)
(* that stops cannot leave ports behind that swallow a later application's *)
(* replies").  The counts behind the limits are those of what is open.     *)
FlowsAreOwned ==
  LET c == lan.connections
      a == lan.associations
      using == {t \in DOMAIN c : c[t].phase \in {"Connecting", "Relaying"}}
      tcp == {f \in DOMAIN lan.flows : lan.flows[f] = "tcp"}
      udp == {f \in DOMAIN lan.flows : lan.flows[f] = "udp"}
  IN /\ LanTypeOK
     /\ tcp = {c[t].flow : t \in using} /\ Cardinality(tcp) = Cardinality(using)
     /\ udp = {a[t].flow : t \in DOMAIN a} \cup ({lan.resolving} \ {0})
     /\ Cardinality(udp) = Cardinality(DOMAIN a) + (IF lan.resolving = 0 THEN 0 ELSE 1)
     /\ \A t \in DOMAIN a : t \in DOMAIN c /\ c[t].phase = "UdpControl" /\ c[t].client = a[t].client
     /\ lan.claimed = DOMAIN lan.flows \cup lan.lingering
     /\ ~lan.up => DOMAIN lan.flows = {} /\ lan.claimed = {} /\ DOMAIN c = {}
     /\ \A d \in Devices :
          /\ lan.active[d].tcp = Cardinality({t \in using : c[t].phase = "Relaying" /\ c[t].client = d})
          /\ lan.active[d].udp = Cardinality({t \in DOMAIN a : a[t].client = d})
          /\ lan.active[d].udp <= MAX_ASSOCIATIONS_PER_CLIENT
     /\ \A t \in DOMAIN c : c[t].phase = "Resolving" =>
          \E n \in DOMAIN lan.pending : [for |-> "connection", id |-> t] \in ToSet(lan.pending[n])

-----------------------------------------------------------------------------
(***************************************************************************)
(* One relayed connection of the LAN proxy: the Relaying phase of Server   *)
(* (engine/src/socks/server.rs) between a device's socket and a flow of    *)
(* either egress, the session's own stack (tunnel_egress.rs) or a socket   *)
(* bound to the tunnel's interface (interface_egress.rs).  A stream is the *)
(* number of its pieces in each place.                                     *)
(***************************************************************************)

CONSTANTS
  READ_CHUNK, CLIENT_BACKLOG,
  SendBuffer, ReceiveBuffer,   \* of the flow
  MaxUp, MaxDown               \* bounds: pieces the client and the remote send

ASSUME RelayAssumption ==
  /\ READ_CHUNK \in Nat \ {0} /\ CLIENT_BACKLOG \in Nat \ {0}
  /\ {SendBuffer, ReceiveBuffer, MaxUp, MaxDown} \subseteq Nat

VARIABLES egress, turn, device, connection, upstream, remote

relayVars == <<egress, turn, device, connection, upstream, remote>>

RelayInit ==
  /\ egress \in {"tunnel", "interface"}
  /\ turn = "advance"
  /\ device = [sent |-> 0, unread |-> 0, ended |-> FALSE, gone |-> FALSE, got |-> 0]
  /\ connection = [input |-> 0, backlog |-> 0, client_done |-> FALSE, upstream_shut |-> FALSE,
                   client_shut |-> FALSE, finished |-> FALSE]
  /\ upstream = [queued |-> 0, received |-> 0, ended |-> FALSE, seen |-> FALSE, failed |-> FALSE]
  /\ remote = [sent |-> 0, got |-> 0]

Least(m, n) == IF m < n THEN m ELSE n

-----------------------------------------------------------------------------
(* The two ends and the network between. *)

ClientSends ==
  /\ device.sent < MaxUp /\ ~device.ended /\ ~device.gone
  /\ device' = [device EXCEPT !.sent = @ + 1, !.unread = @ + 1]
  /\ UNCHANGED <<egress, turn, connection, upstream, remote>>

ClientEnds ==
  /\ ~device.ended /\ ~device.gone
  /\ \/ device' = [device EXCEPT !.ended = TRUE]
     \/ device' = [device EXCEPT !.gone = TRUE]
  /\ UNCHANGED <<egress, turn, connection, upstream, remote>>

RemoteSends ==
  /\ remote.sent < MaxDown /\ ~upstream.ended /\ ~upstream.failed /\ upstream.received < ReceiveBuffer
  /\ remote' = [remote EXCEPT !.sent = @ + 1]
  /\ upstream' = [upstream EXCEPT !.received = @ + 1]
  /\ UNCHANGED <<egress, turn, device, connection>>

RemoteTakes ==
  /\ upstream.queued > 0 /\ ~upstream.failed
  /\ upstream' = [upstream EXCEPT !.queued = @ - 1]
  /\ remote' = [remote EXCEPT !.got = @ + 1]
  /\ UNCHANGED <<egress, turn, device, connection>>

RemoteEnds ==
  /\ ~upstream.failed
  /\ \/ ~upstream.ended /\ upstream' = [upstream EXCEPT !.ended = TRUE]
     \/ upstream' = [upstream EXCEPT !.failed = TRUE]
  /\ UNCHANGED <<egress, turn, device, connection, remote>>

-----------------------------------------------------------------------------
(* tcp_state: the stack tells at once that the remote has finished; the    *)
(* socket once its data has been read to the end.                          *)
tcp_state(f) ==
  IF f.failed THEN "Closed"
  ELSE IF (egress = "tunnel" /\ f.ended) \/ f.seen THEN "RemoteClosed" ELSE "Open"

tcp_send_idle(f) == egress = "interface" \/ f.queued = 0

(* How much tcp_send takes. *)
tcp_send(f, n) == IF f.failed THEN 0 ELSE Least(n, SendBuffer - f.queued)

(* read_client, of what has come. *)
read_client(c) ==
  LET n == Least(READ_CHUNK - c.input, device.unread)
  IN [c EXCEPT !.input = @ + n,
               !.client_done = device.ended /\ n = device.unread /\ c.input + n < READ_CHUNK]

(* Mutant: the end is passed on with data still waiting. *)
step_early(c, f) ==
  LET sent == tcp_send(f, c.input)
  IN [c EXCEPT !.input = @ - sent, !.upstream_shut = @ \/ c.client_done]

(* step, of a Relaying connection: what the flow takes, then the end. *)
relay_step(c, f) ==
  LET sent == tcp_send(f, c.input)
  IN [c EXCEPT !.input = @ - sent, !.upstream_shut = @ \/ (c.input = sent /\ c.client_done)]

(* advance: a read, unless the last one still waits, then steps for as     *)
(* long as they make room for another read.                                *)
relay_advance ==
  LET c == IF connection.input = 0 /\ ~connection.client_done
           THEN read_client(connection) ELSE connection
      d == relay_step(c, upstream)
      more == d.input = 0 /\ ~d.client_done /\ device.unread > c.input - connection.input
  IN /\ turn = "advance" /\ ~connection.finished
     /\ IF device.gone /\ c # connection
        THEN connection' = [connection EXCEPT !.finished = TRUE] /\ UNCHANGED <<device, upstream, turn>>
        ELSE /\ connection' = d
             /\ device' = [device EXCEPT !.unread = @ - (c.input - connection.input)]
             /\ upstream' = [upstream EXCEPT !.queued = @ + (c.input - d.input)]
             /\ turn' = IF more THEN "advance" ELSE "deliver"
     /\ UNCHANGED <<egress, remote>>

(* Received(f, c): what deliver's loop takes from the upstream. *)
Received(f, c) ==
  IF c.backlog >= CLIENT_BACKLOG \/ f.seen THEN 0
  ELSE Least(f.received, ((CLIENT_BACKLOG - c.backlog + READ_CHUNK - 1) \div READ_CHUNK) * READ_CHUNK)

(* deliver: what was received goes to the backlog, what the device's socket*)
(* takes out of it; then the end is passed on and the relay may be done.   *)
relay_deliver ==
  /\ turn = "deliver" /\ ~connection.finished
  /\ LET n == Received(upstream, connection)
         full == connection.backlog + n
         f == [upstream EXCEPT !.received = @ - n,
                           !.seen = @ \/ (upstream.ended /\ n = upstream.received /\ full < CLIENT_BACKLOG)]
         remote_done == tcp_state(f) # "Open"
     IN \E written \in 0..full :
          LET left == full - written
              shut == connection.client_shut \/ (remote_done /\ left = 0)
              both_done == shut /\ ((connection.client_done /\ tcp_send_idle(f)) \/ f.failed)
              broken == written > 0 /\ (device.gone \/ connection.client_shut)
          IN /\ upstream' = f
             /\ connection' = [connection EXCEPT !.backlog = left, !.client_shut = shut,
                                                 !.finished = both_done \/ broken]
             /\ device' = [device EXCEPT !.got = IF broken THEN @ ELSE @ + written]
  /\ turn' = "advance"
  /\ UNCHANGED <<egress, remote>>

RelayNext ==
  ClientSends \/ ClientEnds \/ RemoteSends \/ RemoteTakes \/ RemoteEnds \/ relay_advance \/ relay_deliver

RelaySpec == RelayInit /\ [][RelayNext]_relayVars

-----------------------------------------------------------------------------

RelayTypeOK ==
  /\ turn \in {"advance", "deliver"}
  /\ connection.input \in 0..READ_CHUNK /\ connection.backlog \in 0..(CLIENT_BACKLOG + READ_CHUNK - 1)
  /\ upstream.queued \in 0..SendBuffer /\ upstream.received \in 0..ReceiveBuffer

(* The end of the device's stream goes upstream behind everything it sent, *)
(* nothing in either direction is lost or repeated while the relay runs    *)
(* ("Sends FIN once queued data has gone"), and a relay ends itself only   *)
(* when the client has had the end of the answer; through a socket of the  *)
(* interface that is the whole answer.                                     *)
EndsFollowData ==
  /\ RelayTypeOK
  /\ connection.upstream_shut => connection.client_done /\ connection.input = 0 /\ device.unread = 0
  /\ device.sent = device.unread + connection.input + upstream.queued + remote.got
  /\ ~connection.finished => remote.sent = upstream.received + connection.backlog + device.got
  /\ connection.finished => connection.client_shut \/ device.gone
  /\ egress = "interface" /\ connection.client_shut /\ ~upstream.failed
       => connection.backlog = 0 /\ upstream.received = 0 /\ upstream.ended

(* A client is told that the answer has ended only when all of it has been *)
(* handed over: "The remote end finished sending; data it sent may still   *)
(* be buffered" (egress.rs).                                               *)
AnswerIsWhole ==
  connection.client_shut /\ ~upstream.failed => upstream.received = 0
=============================================================================
