---------------------------- MODULE SplitCapture ----------------------------
(***************************************************************************)
(* A split capture (engine/src/split_capture.rs), in three machines that do *)
(* not share state: which process owns which flow, what is done with an    *)
(* outbound packet, and how a packet gets back on the network.             *)
(***************************************************************************)
EXTENDS Integers, Sequences, SequencesExt, FiniteSets, FiniteSetsExt

(***************************************************************************)
(* Which process owns which flow while a split capture runs                *)
(* (engine/src/split_capture.rs): the tracker of socket events, the reaper *)
(* of flows whose close was never seen, the capture threads that classify  *)
(* packets with a published table, and the return paths of the flows in    *)
(* the tunnel.  A selector is a local port, as for every UDP socket; the   *)
(* sockets are those of selected applications.                             *)
(***************************************************************************)

CONSTANTS
  SocketIds, Pids, Ports,
  CaptureThreads,
  STALE_FLOW_CONFIRMATIONS,
  MaxPackets, MaxReplaced    \* bounds: packets sent, captures replaced

VARIABLES
  sockets,    \* socket -> [state, pid, port], Windows' own
  events,     \* socket events the tracker has not read
  flowOwners,     \* flow_owners: port -> sequence of [endpoint, pid, stale]
  table,      \* the published table: port -> process
  version,    \* table_version
  unbumped,   \* the table is written and its version is not: the lock is held
  threads,    \* thread -> [phase, loaded, version, table]
  paths,      \* return_paths: port -> [pid, recent]
  removing,   \* "tracker", "reaper" -> the (pid, port) pairs whose routes go next
  reaping,    \* what the reaper saw: [active, recent], or none
  unseen,     \* history: (pid, port) -> snapshots in a row without it
  packets, replaced

sVars == <<sockets, events, flowOwners, table, version, unbumped, threads, paths, removing, reaping,
           unseen, packets, replaced>>

NoPid == "none"
Nobody == [state |-> "unused", pid |-> NoPid, port |-> 0]
NoPath == [pid |-> NoPid, recent |-> FALSE]
NotReaping == [on |-> FALSE, active |-> {}, recent |-> {}]
Owner(endpoint, pid) == [endpoint |-> endpoint, pid |-> pid, stale |-> 0]
PidOnly == "pid"           \* the endpoint of an owner found without an event

Opened == {s \in SocketIds : sockets[s].state = "open"}
Held(pid, port) == \E s \in Opened : sockets[s].pid = pid /\ sockets[s].port = port

Last1(o) == IF o = <<>> THEN NoPid ELSE o[Len(o)].pid
build_with_owners(o) == [port \in Ports |-> Last1(o[port])]

(* A new tracker starts with the sockets that are already there.           *)
Seeds == SetToSeq({[kind |-> "seed", socket |-> s] : s \in Opened})

SInit ==
  /\ sockets = [s \in SocketIds |-> Nobody]
  /\ events = <<>>
  /\ flowOwners = [port \in Ports |-> <<>>]
  /\ table = [port \in Ports |-> NoPid] /\ version = 0 /\ unbumped = FALSE
  /\ threads = [t \in CaptureThreads |-> [phase |-> "recv", loaded |-> 0, version |-> 0, table |-> table]]
  /\ paths = [port \in Ports |-> NoPath]
  /\ removing = [w \in {"tracker", "reaper"} |-> {}]
  /\ reaping = NotReaping
  /\ unseen = [x \in Pids \X Ports |-> 0]
  /\ packets = 0 /\ replaced = 0

-----------------------------------------------------------------------------
(* Windows: a port has one socket at a time.                               *)

Open(s, pid, port) ==
  /\ sockets[s] = Nobody
  /\ \A o \in Opened : sockets[o].port # port
  /\ sockets' = [sockets EXCEPT ![s] = [state |-> "open", pid |-> pid, port |-> port]]
  /\ events' = Append(events, [kind |-> "bind", socket |-> s])
  /\ UNCHANGED <<flowOwners, table, version, unbumped, threads, paths, removing, reaping, unseen, packets, replaced>>

Close(s) ==
  /\ s \in Opened
  /\ sockets' = [sockets EXCEPT ![s].state = "closed"]
  /\ events' = Append(events, [kind |-> "close", socket |-> s])
  /\ UNCHANGED <<flowOwners, table, version, unbumped, threads, paths, removing, reaping, unseen, packets, replaced>>

-----------------------------------------------------------------------------
(* Selectors, under one lock.  Publishing writes the table, then bumps its *)
(* version.                                                                *)

publish_selectors(changed) ==
  /\ flowOwners' = changed
  /\ table' = build_with_owners(changed)
  /\ unbumped' = TRUE

Bump ==
  /\ unbumped
  /\ version' = version + 1
  /\ unbumped' = FALSE
  /\ UNCHANGED <<sockets, events, flowOwners, table, threads, paths, removing, reaping, unseen, packets, replaced>>

(* A record with an endpoint replaces the one found without it.            *)
add_process_selector(port, pid, endpoint) ==
  LET kept == IF endpoint = PidOnly THEN flowOwners[port]
              ELSE SelectSeq(flowOwners[port], LAMBDA o : ~(o.endpoint = PidOnly /\ o.pid = pid))
      known == {i \in DOMAIN kept : kept[i].endpoint = endpoint /\ kept[i].pid = pid}
      added == IF known = {} THEN Append(kept, Owner(endpoint, pid))
               ELSE [i \in DOMAIN kept |-> IF i \in known THEN Owner(endpoint, pid) ELSE kept[i]]
  IN /\ ~unbumped
     /\ IF known = {} THEN publish_selectors([flowOwners EXCEPT ![port] = added])
        ELSE flowOwners' = [flowOwners EXCEPT ![port] = added] /\ UNCHANGED <<table, unbumped>>

(* The processes that lost their last record for a port.                   *)
Gone(before, after) ==
  {x \in Pids \X Ports : /\ \E i \in DOMAIN before[x[2]] : before[x[2]][i].pid = x[1]
                         /\ \A i \in DOMAIN after[x[2]] : after[x[2]][i].pid # x[1]}

remove_closed_socket(s) ==
  LET left == [port \in Ports |-> SelectSeq(flowOwners[port], LAMBDA o : o.endpoint # s)]
  IN /\ ~unbumped
     /\ IF left = flowOwners THEN UNCHANGED <<flowOwners, table, unbumped>> ELSE publish_selectors(left)
     /\ removing' = [removing EXCEPT !["tracker"] = Gone(flowOwners, left)]

Tracker ==
  LET e == Head(events)
  IN /\ events # <<>> /\ removing["tracker"] = {}
     /\ events' = Tail(events)
     /\ \/ /\ e.kind = "close"
           /\ remove_closed_socket(e.socket)
        \/ /\ e.kind = "bind"
           /\ add_process_selector(sockets[e.socket].port, sockets[e.socket].pid, e.socket)
           /\ UNCHANGED removing
        \/ /\ e.kind = "seed"
           /\ add_process_selector(sockets[e.socket].port, sockets[e.socket].pid, PidOnly)
           /\ UNCHANGED removing
     /\ UNCHANGED <<sockets, version, threads, paths, reaping, unseen, packets, replaced>>

(* After the selector lock is dropped.                                     *)
remove_owned_routes(w) ==
  /\ removing[w] # {} /\ ~unbumped
  /\ paths' = [port \in Ports |-> IF <<paths[port].pid, port>> \in removing[w] THEN NoPath ELSE paths[port]]
  /\ removing' = [removing EXCEPT ![w] = {}]
  /\ UNCHANGED <<sockets, events, flowOwners, table, version, unbumped, threads, reaping, unseen, packets, replaced>>

-----------------------------------------------------------------------------
(* The reaper: a snapshot of Windows' sockets, which may miss some, and of *)
(* the flows that carried a packet lately; then a verdict under the lock.  *)

Snapshot(missed) ==
  /\ ~reaping.on /\ removing["reaper"] = {}
  /\ reaping' = [on |-> TRUE,
                 active |-> {<<sockets[s].pid, sockets[s].port>> : s \in Opened \ missed},
                 recent |-> {<<paths[p].pid, p>> : p \in {q \in Ports : paths[q].recent}}]
  /\ UNCHANGED <<sockets, events, flowOwners, table, version, unbumped, threads, paths, removing, unseen, packets, replaced>>

(* Mutant: an owner is never cleared by being seen again.                  *)
observed_once(port) ==
  [i \in DOMAIN flowOwners[port] |->
     LET o == flowOwners[port][i]
         seen == <<o.pid, port>> \in reaping.active \cup reaping.recent
     IN [o EXCEPT !.stale = IF seen THEN @ ELSE @ + 1]]

Observed(port) ==
  [i \in DOMAIN flowOwners[port] |->
     LET o == flowOwners[port][i]
         seen == <<o.pid, port>> \in reaping.active \cup reaping.recent
     IN [o EXCEPT !.stale = IF seen THEN 0 ELSE @ + 1]]

reap_stale_flows ==
  LET after == [port \in Ports |->
                  SelectSeq(Observed(port), LAMBDA o : o.stale < STALE_FLOW_CONFIRMATIONS)]
  IN /\ reaping.on /\ ~unbumped
     /\ IF \A port \in Ports : Len(after[port]) = Len(flowOwners[port])
        THEN flowOwners' = after /\ UNCHANGED <<table, unbumped>>
        ELSE publish_selectors(after)
     /\ removing' = [removing EXCEPT !["reaper"] = Gone(flowOwners, after)]
     /\ reaping' = NotReaping
     /\ unseen' = [x \in DOMAIN unseen |-> IF x \in reaping.active \cup reaping.recent THEN 0
                                          ELSE IF unseen[x] < STALE_FLOW_CONFIRMATIONS THEN unseen[x] + 1
                                          ELSE unseen[x]]
     /\ UNCHANGED <<sockets, events, version, threads, paths, packets, replaced>>

(* ACTIVE_CONNECTION_WINDOW passes without a packet.                       *)
Quiet(port) ==
  /\ paths[port].recent
  /\ paths' = [paths EXCEPT ![port].recent = FALSE]
  /\ UNCHANGED <<sockets, events, flowOwners, table, version, unbumped, threads, removing, reaping, unseen, packets, replaced>>

-----------------------------------------------------------------------------
(* A capture thread: it looks at the version, reads the table again when   *)
(* it has moved, and classifies a packet with the table it holds.          *)

LoadVersion(t) ==
  /\ threads[t].phase = "recv"
  /\ packets < MaxPackets
  /\ threads' = [threads EXCEPT ![t].loaded = version,
                                ![t].phase = IF version = threads[t].version THEN "classify" ELSE "reload"]
  /\ UNCHANGED <<sockets, events, flowOwners, table, version, unbumped, paths, removing, reaping, unseen, packets, replaced>>

Reload(t) ==
  /\ threads[t].phase = "reload"
  /\ threads' = [threads EXCEPT ![t].table = table, ![t].version = threads[t].loaded, ![t].phase = "classify"]
  /\ UNCHANGED <<sockets, events, flowOwners, table, version, unbumped, paths, removing, reaping, unseen, packets, replaced>>

(* A packet of socket s: its flow is in the table, or its owner is found   *)
(* in Windows' socket table and added.  The return path is noted before    *)
(* the packet is sent.                                                     *)
Classify(t, s) ==
  LET port == sockets[s].port
      found == threads[t].table[port]
      pid == IF found # NoPid THEN found ELSE sockets[s].pid
  IN /\ threads[t].phase = "classify" /\ s \in Opened
     /\ IF found # NoPid THEN UNCHANGED <<flowOwners, table, unbumped>>
        ELSE add_process_selector(port, pid, PidOnly)
     /\ paths' = [paths EXCEPT ![port] = [pid |-> pid, recent |-> TRUE]]
     /\ packets' = packets + 1
     /\ threads' = [threads EXCEPT ![t].phase = "recv"]
     /\ UNCHANGED <<sockets, events, version, removing, reaping, unseen, replaced>>

-----------------------------------------------------------------------------
(* The rules are edited: the capture is replaced by one that takes over    *)
(* its return paths, with a registry of its own.                           *)
Replace ==
  /\ replaced < MaxReplaced
  /\ replaced' = replaced + 1
  /\ flowOwners' = [port \in Ports |-> <<>>]
  /\ table' = [port \in Ports |-> NoPid]
  /\ events' = Seeds
  /\ version' = 0 /\ unbumped' = FALSE
  /\ threads' = [t \in CaptureThreads |-> [phase |-> "recv", loaded |-> 0, version |-> 0, table |-> table']]
  /\ removing' = [w \in DOMAIN removing |-> {}]
  /\ reaping' = NotReaping
  /\ UNCHANGED <<sockets, paths, unseen, packets>>

SNext ==
  \/ \E s \in SocketIds : Close(s) \/ \E pid \in Pids, port \in Ports : Open(s, pid, port)
  \/ Tracker
  \/ Bump
  \/ \E w \in DOMAIN removing : remove_owned_routes(w)
  \/ \E missed \in SUBSET Opened : Snapshot(missed)
  \/ reap_stale_flows
  \/ \E port \in Ports : Quiet(port)
  \/ \E t \in CaptureThreads : LoadVersion(t) \/ Reload(t) \/ \E s \in SocketIds : Classify(t, s)
  \/ Replace

SSpec == SInit /\ [][SNext]_sVars

-----------------------------------------------------------------------------
STypeOK ==
  /\ flowOwners \in [Ports -> Seq([endpoint : SocketIds \cup {PidOnly}, pid : Pids, stale : Nat])]
  /\ paths \in [Ports -> [pid : Pids \cup {NoPid}, recent : BOOLEAN]]
  /\ table \in [Ports -> Pids \cup {NoPid}]

Queued(kind, s) == \E i \in DOMAIN events : events[i] = [kind |-> kind, socket |-> s]

(* A capture thread that holds the current version holds the current       *)
(* table, so no thread keeps classifying with an old one for good ("the    *)
(* table is never built from a half-applied change").  A record with an    *)
(* endpoint is of an open socket or its close is still to be read: only    *)
(* records found without an event are left to the reaper.                  *)
SelectorsAgree ==
  /\ STypeOK
  /\ table = build_with_owners(flowOwners)
  /\ \A t \in CaptureThreads : threads[t].version = version /\ ~unbumped => threads[t].table = table
  /\ \A port \in Ports : \A i \in DOMAIN flowOwners[port] :
       LET o == flowOwners[port][i]
       IN o.endpoint # PidOnly => o.endpoint \in Opened \/ Queued("close", o.endpoint)
  /\ \A port \in Ports : \A i, j \in DOMAIN flowOwners[port] :
       flowOwners[port][i].endpoint = flowOwners[port][j].endpoint /\ flowOwners[port][i].pid = flowOwners[port][j].pid => i = j

(* "Never tear down a route from one fallible system snapshot": the reaper *)
(* takes a record away only after STALE_FLOW_CONFIRMATIONS snapshots in a  *)
(* row without its socket or a packet of it; and return paths go only with *)
(* the last record of their process.                                       *)
ReaperIsPatient ==
  [][ /\ \A port \in Ports : \A i \in DOMAIN flowOwners[port] :
           LET o == flowOwners[port][i]
               forgotten == \A j \in DOMAIN flowOwners'[port] :
                         flowOwners'[port][j].endpoint # o.endpoint \/ flowOwners'[port][j].pid # o.pid
           IN reaping.on /\ ~reaping'.on /\ replaced' = replaced /\ forgotten
                => unseen'[<<o.pid, port>>] >= STALE_FLOW_CONFIRMATIONS
      /\ \A port \in Ports : paths[port] # NoPath /\ paths'[port] = NoPath
           => \E w \in DOMAIN removing : <<paths[port].pid, port>> \in removing[w] ]_sVars

-----------------------------------------------------------------------------
(***************************************************************************)
(* What a split capture does with an outbound packet                       *)
(* (engine/src/split_capture.rs, engine/src/dns_policy.rs): into the       *)
(* tunnel through one of the session's nodes, back on the network, or      *)
(* held.  A packet is the facts the decision reads; a first TCP packet of  *)
(* a socket nobody knows yet waits for the socket tracker.                 *)
(***************************************************************************)

VARIABLES
  packet,     \* the packet a capture thread reads
  options,    \* the capture's options
  splitVerdict     \* [at, out, node]

vVars == <<packet, options, splitVerdict>>

(* Nodes: the default, the application's, and a local SOCKS5 proxy that    *)
(* the website and IP rules name and that answers with fake addresses.     *)
Default == 0
AppNode == 1
ProxyNode == 2

Owners == {"app", "other", "system", "proxy", "exit"}
PacketFacts ==
  [protocol : {"tcp", "udp"}, dns : BOOLEAN, to : {"public", "lan", "fake"}, syn : BOOLEAN,
   owner : Owners,       \* app: of a selected application; exit: a node's own socket
   known : BOOLEAN,      \* its flow is in the table
   visible : BOOLEAN,    \* Windows' socket table shows its owner
   address : BOOLEAN,    \* a website or IP rule matches its destination
   own_name : BOOLEAN,   \* a lookup of one of the session's own hosts
   direct : BOOLEAN,     \* its destination is on the direct list
   carried : BOOLEAN]    \* the flow has a return path

Possible(p) ==
  /\ p.syn => p.protocol = "tcp" /\ ~p.carried
  /\ p.dns => ~p.syn /\ ~p.direct /\ ~p.carried /\ ~p.address
  /\ p.own_name => p.dns /\ p.protocol = "udp"
  /\ p.known => p.owner = "app"
  /\ p.to # "public" => ~p.direct /\ ~p.address /\ ~p.carried
  /\ p.owner = "exit" => ~p.visible

Options == [kill_switch : BOOLEAN, remote_dns : BOOLEAN, own_apps_only : BOOLEAN, yields : BOOLEAN,
            fake_ip : BOOLEAN]

VInit ==
  /\ packet \in {p \in PacketFacts : Possible(p)}
  /\ options \in {o \in Options : ~(o.own_apps_only /\ o.yields)}
  /\ splitVerdict = [at |-> "read", out |-> "none", node |-> Default]

-----------------------------------------------------------------------------
(* The steps of the decision, in order.                                    *)

routable(p) == p.to = "public"
is_exit_socket(p) == p.owner = "exit"
from_application(p) == p.visible /\ p.owner \in {"app", "other", "proxy"}

(* SelectorTable::lookup; a website or IP rule decides the node.           *)
Matched(p) == p.known \/ p.address
MatchedNode(p) == IF p.address THEN ProxyNode ELSE AppNode

(* The owner of a lookup, asked of the socket table.                       *)
dns_owner(p) == ~Matched(p) /\ ~is_exit_socket(p) /\ p.dns /\ p.visible /\ p.owner = "app"
uncertain_dns_owner(p) == ~Matched(p) /\ ~is_exit_socket(p) /\ p.dns /\ ~p.visible

(* UdpClassifier: the owner of a first datagram.                           *)
udp_owner(p) ==
  /\ ~Matched(p) /\ ~dns_owner(p) /\ ~p.direct /\ ~is_exit_socket(p)
  /\ p.protocol = "udp" /\ (routable(p) \/ p.dns)
  /\ p.visible /\ p.owner = "app"

RuleSelected(p) == Matched(p) \/ dns_owner(p) \/ udp_owner(p)
RuleNode(p) == IF Matched(p) THEN MatchedNode(p) ELSE AppNode

own_lookup(p) ==
  \/ is_exit_socket(p)
  \/ p.dns /\ p.owner = "proxy"
  \/ p.own_name /\ ~from_application(p)

(* dns_policy::route                                                       *)
dns_route(p, o) ==
  /\ o.remote_dns /\ ~own_lookup(p)
  /\ RuleSelected(p) \/ (~o.own_apps_only /\ ~(o.yields /\ from_application(p)))

remote_dns(p, o) == p.dns /\ dns_route(p, o)

DnsHeld(p, o) ==
  /\ p.dns /\ o.remote_dns /\ o.own_apps_only
  /\ uncertain_dns_owner(p) /\ ~own_lookup(p) /\ ~RuleSelected(p)

(* A lookup sent to the router is answered through the tunnel.             *)
redirect(p, o) == remote_dns(p, o) /\ ~routable(p)

fake_ip(p, o) == o.fake_ip /\ p.to = "fake"

Selected(p, o) == fake_ip(p, o) \/ (IF p.dns THEN remote_dns(p, o) ELSE RuleSelected(p))

NodeOf(p, o) ==
  LET lookup == IF RuleSelected(p) THEN RuleNode(p) ELSE Default
      chosen == IF p.dns THEN lookup ELSE RuleNode(p)
  IN IF fake_ip(p, o) THEN ProxyNode ELSE chosen

(* A first TCP packet nobody selected: found in the socket table, or held  *)
(* until the tracker has seen its socket.                                  *)
Unclassified(p, o) ==
  ~Selected(p, o) /\ ~p.direct /\ ~p.dns /\ ~is_exit_socket(p) /\ p.syn

tcp_socket_process(p) == p.visible /\ p.owner = "app"

is_proxy_upstream(p, node) == p.protocol = "tcp" /\ p.owner = "proxy" /\ node = ProxyNode

(* What takes a selected packet out again.                                 *)
Unselected(p, o, node) ==
  \/ is_exit_socket(p) \/ (~p.dns /\ is_proxy_upstream(p, node))
  \/ ~fake_ip(p, o) /\ ~redirect(p, o) /\ ~routable(p)
  \/ p.direct /\ ~fake_ip(p, o) /\ ~redirect(p, o) /\ ~p.carried

-----------------------------------------------------------------------------
Done(out, node) == splitVerdict' = [at |-> "done", out |-> out, node |-> node]

(* Sent, or the tunnel is unavailable: held, or let out.                   *)
route_selected_packet(p, o, node, hold) ==
  \/ Done("tunnel", node)
  \/ Done(IF hold THEN "held" ELSE "bypass", node)

run_selected_capture ==
  LET p == packet
      o == options
      syn == Unclassified(p, o)
      selected == Selected(p, o) \/ (syn /\ tcp_socket_process(p))
      node == IF syn THEN AppNode ELSE NodeOf(p, o)
  IN /\ splitVerdict.at = "read"
     /\ \/ DnsHeld(p, o) /\ Done("held", Default)
        \/ /\ ~DnsHeld(p, o) /\ syn /\ ~tcp_socket_process(p)
           /\ splitVerdict' = [splitVerdict EXCEPT !.at = "pending"]
        \/ /\ ~DnsHeld(p, o) /\ ~(syn /\ ~tcp_socket_process(p))
           /\ ~selected \/ Unselected(p, o, node)
           /\ Done("bypass", Default)
        \/ /\ ~DnsHeld(p, o) /\ selected /\ ~Unselected(p, o, node)
           /\ route_selected_packet(p, o, node, o.kill_switch \/ remote_dns(p, o))
     /\ UNCHANGED <<packet, options>>

(* While it waits the tracker may publish its flow.                        *)
TrackerSees ==
  /\ splitVerdict.at = "pending" /\ packet.owner = "app" /\ ~packet.known
  /\ packet' = [packet EXCEPT !.known = TRUE]
  /\ UNCHANGED <<options, splitVerdict>>

(* The queue is full, the capture stops, or the wait is over.              *)
PendingPutBack ==
  /\ splitVerdict.at = "pending"
  /\ Done("bypass", Default)
  /\ UNCHANGED <<packet, options>>

run_pending_syns ==
  /\ splitVerdict.at = "pending" /\ Matched(packet)
  /\ IF is_proxy_upstream(packet, MatchedNode(packet)) THEN Done("bypass", Default)
     ELSE route_selected_packet(packet, options, MatchedNode(packet), options.kill_switch)
  /\ UNCHANGED <<packet, options>>

VNext == run_selected_capture \/ TrackerSees \/ PendingPutBack \/ run_pending_syns

VSpec == VInit /\ [][VNext]_vVars

-----------------------------------------------------------------------------
VTypeOK == splitVerdict.at \in {"read", "pending", "done"} /\ splitVerdict.out \in {"none", "tunnel", "bypass", "held"}

(* Whatever selects a packet and in whatever order the steps of the        *)
(* decision come: a node's own socket never enters the tunnel again, and a *)
(* local proxy's own connection never the proxy; with remote DNS on no     *)
(* lookup of a selected application leaves around the tunnel, and none at  *)
(* all where the capture answers for every application ("the setting must  *)
(* never leak a query"), unless it is one the session makes itself; with   *)
(* the kill switch on no packet of a flow that is known leaves around it;  *)
(* and a fake address reaches a proxy.                                     *)
VerdictsHold ==
  /\ VTypeOK
  /\ splitVerdict.out = "tunnel" => packet.owner # "exit" /\ (is_proxy_upstream(packet, splitVerdict.node) => packet.dns)
  /\ splitVerdict.out = "bypass" /\ packet.dns /\ options.remote_dns /\ ~own_lookup(packet)
       => /\ packet.owner # "app"
          /\ options.own_apps_only \/ (options.yields /\ from_application(packet))
  /\ splitVerdict.out = "bypass" /\ options.kill_switch /\ packet.known /\ packet.to = "public"
       => packet.dns \/ (packet.direct /\ ~packet.carried) \/ packet.syn
  /\ splitVerdict.out = "tunnel" /\ packet.to = "fake" => splitVerdict.node = ProxyNode \/ packet.dns \/ packet.syn

-----------------------------------------------------------------------------
(***************************************************************************)
(* Packets a split capture took from the network stack and puts back       *)
(* (engine/src/split_capture.rs): capture threads hand them to one         *)
(* injector through a queue bounded in packets and in bytes, or hold an    *)
(* unmatched SYN for the pending thread; and how all of them stop.         *)
(***************************************************************************)

CONSTANTS
  Takers,                                     \* capture threads
  BypassLengths,                                    \* packet -> its length
  BYPASS_QUEUE_DEPTH, BYPASS_QUEUE_BYTES, PENDING_SYNS

VARIABLES
  stopping,    \* stop, with the handle shut down for receiving
  taker,       \* thread -> [at, packet]
  fresh,       \* packets still to come
  queue, bytes, syns,
  injector,    \* [at, packet]
  putback,     \* packets put back, or sent into the tunnel by the pending thread
  lost         \* packets dropped with the queue

bVars == <<stopping, taker, fresh, queue, bytes, syns, injector, putback, lost>>

NoPacket == "none"
AtRecv == [at |-> "recv", packet |-> NoPacket]
Size(S) == MapThenSumSet(LAMBDA p : BypassLengths[p], S)

BInit ==
  /\ stopping = FALSE
  /\ taker = [t \in Takers |-> AtRecv]
  /\ fresh = DOMAIN BypassLengths
  /\ queue = <<>> /\ bytes = 0 /\ syns = <<>>
  /\ injector = AtRecv
  /\ putback = {} /\ lost = {}

(* Drop for SplitPacketCapture.                                            *)
Stop ==
  /\ ~stopping
  /\ stopping' = TRUE
  /\ UNCHANGED <<taker, fresh, queue, bytes, syns, injector, putback, lost>>

Take(t, p) ==
  /\ taker[t] = AtRecv /\ ~stopping
  /\ p \in fresh
  /\ fresh' = fresh \ {p}
  /\ taker' = [taker EXCEPT ![t] = [at |-> "took", packet |-> p]]
  /\ UNCHANGED <<stopping, queue, bytes, syns, injector, putback, lost>>

Leave(t) ==
  /\ taker[t] = AtRecv /\ stopping
  /\ taker' = [taker EXCEPT ![t].at = "gone"]
  /\ UNCHANGED <<stopping, fresh, queue, bytes, syns, injector, putback, lost>>

(* reinject: bytes are reserved before the packet is queued; without them  *)
(* it is put back inline.                                                  *)
reserve(t) ==
  LET p == taker[t].packet
      fits == bytes + BypassLengths[p] <= BYPASS_QUEUE_BYTES
  IN /\ taker[t].at = "took"
     /\ bytes' = IF fits THEN bytes + BypassLengths[p] ELSE bytes
     /\ putback' = IF fits THEN putback ELSE putback \cup {p}
     /\ taker' = [taker EXCEPT ![t] = IF fits THEN [@ EXCEPT !.at = "reserved"] ELSE AtRecv]
     /\ UNCHANGED <<stopping, fresh, queue, syns, injector, lost>>

BypassRefused == Len(queue) >= BYPASS_QUEUE_DEPTH \/ injector.at = "gone"


reinject(t) ==
  LET p == taker[t].packet
  IN /\ taker[t].at = "reserved"
     /\ IF BypassRefused
        THEN /\ putback' = putback \cup {p} /\ bytes' = bytes - BypassLengths[p]
             /\ UNCHANGED queue
        ELSE queue' = Append(queue, p) /\ UNCHANGED <<bytes, putback>>
     /\ taker' = [taker EXCEPT ![t] = AtRecv]
     /\ UNCHANGED <<stopping, fresh, syns, injector, lost>>

(* An unmatched SYN waits in a queue of its own, or is put back at once.   *)
hold_syn(t) ==
  LET p == taker[t].packet
  IN /\ taker[t].at = "took"
     /\ IF Len(syns) < PENDING_SYNS THEN syns' = Append(syns, p) /\ UNCHANGED putback
        ELSE putback' = putback \cup {p} /\ UNCHANGED syns
     /\ taker' = [taker EXCEPT ![t] = AtRecv]
     /\ UNCHANGED <<stopping, fresh, queue, bytes, injector, lost>>

(* run_pending_syns works its queue off until every sender has gone.       *)
pending_syn ==
  /\ syns # <<>>
  /\ syns' = Tail(syns)
  /\ putback' = putback \cup {Head(syns)}
  /\ UNCHANGED <<stopping, taker, fresh, queue, bytes, injector, lost>>

Senders == {t \in Takers : taker[t].at # "gone"}

(* run_bypass_injector: an item; a timeout on an empty queue, after which  *)
(* it looks at stop and may go, its queue with it; or no sender is left.   *)
Intercept ==
  /\ injector = AtRecv /\ queue # <<>>
  /\ injector' = [at |-> "send", packet |-> Head(queue)]
  /\ queue' = Tail(queue)
  /\ UNCHANGED <<stopping, taker, fresh, bytes, syns, putback, lost>>

injector_send(p) ==
  /\ injector = [at |-> "send", packet |-> p]
  /\ putback' = putback \cup {p}
  /\ bytes' = bytes - BypassLengths[p]
  /\ injector' = AtRecv
  /\ UNCHANGED <<stopping, taker, fresh, queue, syns, lost>>

Timeout ==
  /\ injector = AtRecv /\ queue = <<>> /\ Senders # {}
  /\ injector' = [injector EXCEPT !.at = "timeout"]
  /\ UNCHANGED <<stopping, taker, fresh, queue, bytes, syns, putback, lost>>

LookAtStop ==
  /\ injector.at = "timeout"
  /\ injector' = IF stopping THEN [injector EXCEPT !.at = "leaving"] ELSE AtRecv
  /\ UNCHANGED <<stopping, taker, fresh, queue, bytes, syns, putback, lost>>

Ended ==
  /\ injector.at = "leaving" \/ (injector = AtRecv /\ queue = <<>> /\ Senders = {})
  /\ injector' = [injector EXCEPT !.at = "gone"]
  /\ lost' = lost \cup ToSet(queue)
  /\ queue' = <<>>
  /\ UNCHANGED <<stopping, taker, fresh, bytes, syns, putback>>

BNext ==
  \/ \E t \in Takers : \/ Leave(t) \/ reserve(t) \/ reinject(t) \/ hold_syn(t)
                       \/ \E p \in DOMAIN BypassLengths : Take(t, p)
  \/ pending_syn \/ Intercept \/ (\E p \in DOMAIN BypassLengths : injector_send(p)) \/ Timeout \/ LookAtStop \/ Ended \/ Stop

BSpec == BInit /\ [][BNext]_bVars

-----------------------------------------------------------------------------
BTypeOK == bytes \in Nat /\ putback \subseteq DOMAIN BypassLengths /\ fresh \subseteq DOMAIN BypassLengths

InHand == ({taker[t].packet : t \in Takers} \cup {injector.packet}) \ {NoPacket}
Reserved == ({taker[t].packet : t \in {u \in Takers : taker[u].at = "reserved"}}
             \cup {injector.packet} \cup ToSet(queue)) \ {NoPacket}

(* Every packet taken from the stack is in one thread's hands, in one      *)
(* queue or put back, never twice and never nowhere, until the capture is  *)
(* stopped; the bytes counted are those of the packets queued or about to  *)
(* be, so that the bound holds with every thread queueing at once and      *)
(* never sticks at its limit.  What can be lost when the injector leaves   *)
(* on a timeout is a packet queued after it last looked.                   *)
NothingIsSwallowed ==
  /\ BTypeOK
  /\ DOMAIN BypassLengths = fresh \cup InHand \cup ToSet(queue) \cup ToSet(syns) \cup putback \cup lost
  /\ \A p \in putback : p \notin InHand \cup ToSet(queue) \cup ToSet(syns)
  /\ bytes = Size(Reserved) + Size(lost)
  /\ bytes <= BYPASS_QUEUE_BYTES
  /\ Len(queue) <= BYPASS_QUEUE_DEPTH
  /\ lost # {} => stopping /\ Cardinality(lost) <= Cardinality(Takers)
=============================================================================
