-------------------------- MODULE ForwardingStack ---------------------------
(***************************************************************************)
(* The forwarding stack (engine/src/tun2socks): a TCP connection, the UDP  *)
(* associations, and the name lookups through a SOCKS5 proxy.              *)
(***************************************************************************)
EXTENDS Integers, Sequences, FiniteSets, SequencesExt, FiniteSetsExt

(***************************************************************************)
(* One TCP connection through the forwarding stack                         *)
(* (engine/src/tun2socks/stack.rs, handshake.rs): the application's SYN is *)
(* held while the stack dials the exit, then bytes are pumped both ways    *)
(* between a smoltcp socket and a non-blocking stream.                     *)
(*                                                                         *)
(* The loop's turns are at most 100 ms apart, so what it tries in every    *)
(* turn needs no event; reading an open stream does (read_pending).  The   *)
(* exit's socket, mio and smoltcp are external, as the code uses them: mio *)
(* reports readiness once and again only after an operation would have     *)
(* blocked or the socket was registered again.                             *)
(*                                                                         *)
(* Bytes are numbered in each direction.                                   *)
(***************************************************************************)

CONSTANTS
  MaxBytes,       \* bound on the bytes of each direction
  PENDING_LIMIT,  \* bytes held for one direction
  StreamRoom,     \* bytes the exit's socket takes before a write would block
  Exits           \* kinds of exit: "proxy", "adapter"

VARIABLES
  flow,     \* the TcpFlow with its Upstream
  sock,     \* the smoltcp socket and what it holds
  stream,   \* the stream to the exit, and the far end behind it
  app       \* the application

tcpVars == <<flow, sock, stream, app>>

(* The words of a SOCKS5 handshake, apart from every byte.                 *)
Greeting == -1
Request == -2
Method == -3
Unacceptable == -4
Granted == -5
Refused == -6
Userpass == -7
Login == -8
Welcome == -9

NoFlow == [at |-> "none", held_syn |-> FALSE, outgoing |-> <<>>, to_app |-> <<>>,
           read_pending |-> FALSE, watching |-> FALSE, connected |-> FALSE, retry |-> FALSE,
           closed |-> FALSE, proxy_finished |-> FALSE, app_finished |-> FALSE, age |-> 0]

NoSocket == [state |-> "none", recv |-> <<>>, send |-> <<>>]

NewUpstream == [linked |-> FALSE, unread |-> <<>>, unsent |-> <<>>, end |-> "none", sentBytes |-> 0,
              stage |-> Greeting, got |-> <<>>, gotEnd |-> FALSE, armed |-> TRUE, event |-> FALSE]

NewApp == [state |-> "connecting", sent |-> 0, finished |-> FALSE, got |-> <<>>, gotEnd |-> FALSE]

Bytes(s) == SelectSeq(s, LAMBDA b : b > 0)

-----------------------------------------------------------------------------
(* The stream to the exit. *)

Readable(u) == u.unread # <<>> \/ u.end # "none"

(* Readiness is reported again, at once if there is something already.     *)
Arm(u) == [u EXCEPT !.event = @ \/ Readable(u), !.armed = ~Readable(u)]

watch_writes(f, u, watch) ==
  [f |-> [f EXCEPT !.watching = watch], u |-> IF f.watching = watch THEN u ELSE Arm(u)]

(* Upstream::flush: what the socket takes now; a write that would block is *)
(* not tried again before WRITE_RETRY has passed.                          *)
Upstream_flush(f, u) ==
  IF f.retry \/ f.closed THEN {[f |-> f, u |-> u]}
  ELSE IF ~u.linked
  THEN {IF f.outgoing = <<>> /\ f.connected THEN watch_writes(f, u, FALSE) ELSE [f |-> f, u |-> u]}
  ELSE IF f.outgoing # <<>> /\ u.end = "reset" THEN {[f |-> [f EXCEPT !.closed = TRUE], u |-> u]}
  ELSE LET room == StreamRoom - Len(u.unsent)
           count == IF room < Len(f.outgoing) THEN room ELSE Len(f.outgoing)
           wrote == [f EXCEPT !.outgoing = SubSeq(@, count + 1, Len(@)),
                              !.connected = @ \/ count > 0]
           took == [u EXCEPT !.unsent = @ \o SubSeq(f.outgoing, 1, count)]
           blocked == watch_writes([wrote EXCEPT !.retry = TRUE], Arm(took), TRUE)
       IN IF count < Len(f.outgoing) THEN {blocked}
          ELSE IF wrote.connected THEN {watch_writes(wrote, took, FALSE)}
          ELSE {[f |-> wrote, u |-> took]}

(* Upstream::read: everything there is, up to `room`.                      *)
read(f, u, room) ==
  LET n == IF room < Len(u.unread) THEN room ELSE Len(u.unread)
      rest == [u EXCEPT !.unread = SubSeq(@, n + 1, Len(@))]
      result(g, v, done) == [f |-> g, u |-> v, data |-> SubSeq(u.unread, 1, n), finished |-> done]
  IN IF ~u.linked /\ u.end = "none" THEN result([f EXCEPT !.read_pending = FALSE], u, FALSE)
     ELSE IF n >= room THEN result([f EXCEPT !.read_pending = TRUE], rest, FALSE)
     ELSE IF u.end = "fin" THEN result([f EXCEPT !.read_pending = FALSE], rest, TRUE)
     ELSE IF u.end = "reset" THEN result([f EXCEPT !.closed = TRUE], rest, TRUE)
     ELSE result([f EXCEPT !.read_pending = FALSE], Arm(rest), FALSE)

(* Upstream::dial, with the greeting queued for a proxy.                   *)
dial(exit) ==
  [NoFlow EXCEPT !.at = IF exit = "proxy" THEN "handshake" ELSE "connecting",
                 !.held_syn = TRUE, !.read_pending = TRUE, !.watching = TRUE,
                 !.outgoing = IF exit = "proxy" THEN <<Greeting>> ELSE <<>>]

(* Handshake::receive: what to say next, or what it came to.              *)
Handshake_receive(data) ==
  LET to(step, word, leftover) == [step |-> step, word |-> word, leftover |-> leftover]
  IN IF data = <<>> THEN to("Wait", <<>>, <<>>)
     ELSE CASE data[1] \in {Method, Welcome} -> to("Send", <<Request>>, <<>>)
            [] data[1] = Userpass -> to("Send", <<Login>>, <<>>)
            [] data[1] = Granted -> to("Done", <<>>, Tail(data))
            [] OTHER -> to("Error", <<>>, <<>>)

(* Upstream::advance: the answer is queued and written.                    *)
advance(f, u, a) == Upstream_flush([f EXCEPT !.outgoing = @ \o a.word], u)

-----------------------------------------------------------------------------
(* The stack's flow. *)

remove_tcp ==
  /\ flow' = NoFlow /\ sock' = NoSocket
  /\ stream' = NewUpstream

ResetSent(a) == [a EXCEPT !.state = "reset"]

(* open_tcp: the exit is dialled, or the SYN refused when the table is     *)
(* full or the dial cannot start.                                          *)
open_tcp ==
  /\ \/ \E exit \in Exits : flow' = dial(exit) /\ stream' = NewUpstream /\ app' = NewApp
     \/ UNCHANGED <<flow, stream>> /\ app' = ResetSent(NewApp)
  /\ UNCHANGED sock

(* accept_tcp: the held SYN goes to a listening socket.                    *)
accept_tcp(f, u, leftover) ==
  /\ flow' = [f EXCEPT !.at = "open", !.held_syn = FALSE, !.to_app = leftover]
  /\ sock' = [NoSocket EXCEPT !.state = "listen"]
  /\ stream' = u
  /\ UNCHANGED app

RefuseSyn == app' = ResetSent(app) /\ remove_tcp

(* pump_tcp while the far end is being opened.                             *)
PumpConnecting ==
  /\ flow.at = "connecting"
  /\ \/ /\ stream.end = "reset" /\ RefuseSyn
     \/ /\ stream.end # "reset" /\ stream.linked
        /\ \E r \in Upstream_flush([flow EXCEPT !.connected = TRUE], stream) : accept_tcp(r.f, r.u, <<>>)
     \/ stream.end = "none" /\ ~stream.linked /\ flow.age > 0 /\ RefuseSyn

PumpHandshake ==
  /\ flow.at = "handshake"
  /\ \E w \in Upstream_flush(flow, stream) :
       LET r == read(w.f, w.u, 4096)
           a == Handshake_receive(r.data)
           over == r.finished \/ r.f.closed
       IN \/ /\ r.data = <<>> /\ ~over
             /\ IF flow.age > 0 THEN RefuseSyn
                ELSE flow' = r.f /\ stream' = r.u /\ UNCHANGED <<sock, app>>
          \/ /\ a.step = "Done" /\ accept_tcp(r.f, r.u, a.leftover)
          \/ /\ r.data # <<>> \/ over
             /\ a.step = "Error" \/ (a.step \in {"Wait", "Send"} /\ over)
             /\ RefuseSyn
          \/ /\ r.data # <<>> /\ ~over /\ a.step = "Send"
             /\ \E s \in advance(r.f, r.u, a) :
                  flow' = s.f /\ stream' = s.u
             /\ UNCHANGED <<sock, app>>

(* smoltcp's answers. *)
may_send(s) == s.state \in {"established", "closewait"}
may_recv(s) == s.state \in {"established", "finwait"} \/ s.recv # <<>>

(* From the application to the exit: all that fits, then a write.          *)
AppToExit(f, s) ==
  LET room == PENDING_LIMIT - Len(f.outgoing)
      taken == IF room > 0 THEN s.recv ELSE <<>>
  IN [f |-> [f EXCEPT !.outgoing = @ \o taken],
      s |-> [s EXCEPT !.recv = SubSeq(@, Len(taken) + 1, Len(@))]]

(* From the exit to the application.                                       *)
ExitToApp(f, s, u) ==
  LET reading == f.read_pending /\ Len(f.to_app) < PENDING_LIMIT /\ ~f.proxy_finished
      r == read(f, u, PENDING_LIMIT - Len(f.to_app))
      g == IF ~reading THEN f
           ELSE [r.f EXCEPT !.to_app = @ \o r.data, !.proxy_finished = @ \/ r.finished]
      sends == may_send(s)
  IN [f |-> [g EXCEPT !.to_app = IF sends THEN <<>> ELSE @],
      u |-> IF reading THEN r.u ELSE u,
      s |-> [s EXCEPT !.send = IF sends THEN @ \o g.to_app ELSE @]]


(* The two ends, each once everything before it is delivered; a stream     *)
(* that failed is not an end.                                              *)
Ends(f, s) ==
  LET closing == f.proxy_finished /\ f.to_app = <<>> /\ may_send(s)
      t == [s EXCEPT !.state = IF ~closing THEN @
                               ELSE IF @ = "established" THEN "finwait" ELSE "lastack"]
      ends == /\ ~f.app_finished /\ ~may_recv(t) /\ f.outgoing = <<>>
              /\ t.state \in {"closewait", "lastack", "closed"}
  IN [f |-> [f EXCEPT !.app_finished = @ \/ ends],
      s |-> IF f.closed /\ ~f.proxy_finished THEN [t EXCEPT !.state = "closed"] ELSE t]

PumpOpen ==
  /\ flow.at = "open"
  /\ \E w \in Upstream_flush(flow, stream) :
     LET up == AppToExit(w.f, sock)
     IN \E v \in Upstream_flush(up.f, w.u) :
        LET down == ExitToApp(v.f, up.s, v.u)
            e == Ends(down.f, down.s)
            u == [down.u EXCEPT !.gotEnd = @ \/ e.f.app_finished]
        IN IF \/ e.s.state \in {"closed", "timewait"}
              \/ e.s.state = "listen" /\ flow.age = 2
           THEN remove_tcp /\ UNCHANGED app
           ELSE flow' = e.f /\ sock' = e.s /\ stream' = u /\ UNCHANGED app

(* Readiness reported for the flow's token.                                *)
FlowReady ==
  /\ flow.at # "none" /\ stream.event
  /\ \E w \in Upstream_flush([flow EXCEPT !.read_pending = TRUE], [stream EXCEPT !.event = FALSE]) :
       flow' = w.f /\ stream' = w.u
  /\ UNCHANGED <<sock, app>>

(* WRITE_RETRY, DIAL_TIMEOUT and twice that.                               *)
RetryDue == flow.retry /\ flow' = [flow EXCEPT !.retry = FALSE] /\ UNCHANGED <<sock, stream, app>>
Ages ==
  /\ flow.at \in {"connecting", "handshake"} \/ sock.state = "listen"
  /\ flow.age < 2 /\ flow' = [flow EXCEPT !.age = @ + 1]
  /\ UNCHANGED <<sock, stream, app>>

-----------------------------------------------------------------------------
(* The application, through on_app_packet and smoltcp.                     *)

AppConnects == app.state = "idle" /\ flow.at = "none" /\ open_tcp

(* A reset before the SYN was handed over ends the flow, after that it     *)
(* leaves the socket listening.                                            *)
AppCancels ==
  /\ app.state = "connecting" /\ app' = [app EXCEPT !.state = "gone"]
  /\ IF flow.at \in {"connecting", "handshake"} THEN remove_tcp
     ELSE UNCHANGED <<flow, sock, stream>>

AppOpens ==
  /\ app.state = "connecting" /\ sock.state = "listen"
  /\ app' = [app EXCEPT !.state = "open"]
  /\ sock' = [sock EXCEPT !.state = "established"]
  /\ UNCHANGED <<flow, stream>>

(* What belongs to no flow is answered with a reset.                       *)
AppSends ==
  /\ app.state = "open" /\ ~app.finished /\ app.sent < MaxBytes
  /\ IF flow.at = "none" THEN app' = ResetSent(app) /\ UNCHANGED sock
     ELSE /\ app' = [app EXCEPT !.sent = @ + 1]
          /\ sock' = [sock EXCEPT !.recv = Append(@, app.sent + 1)]
  /\ UNCHANGED <<flow, stream>>

AppFinishes ==
  /\ app.state = "open" /\ ~app.finished
  /\ \/ flow.at = "none" /\ app' = ResetSent(app) /\ UNCHANGED sock
     \/ /\ sock.state = "established" \/ (sock.state = "finwait" /\ app.gotEnd)
        /\ app' = [app EXCEPT !.finished = TRUE]
        /\ sock' = [sock EXCEPT !.state = IF @ = "established" THEN "closewait" ELSE "timewait"]
  /\ UNCHANGED <<flow, stream>>

AppReads ==
  /\ app.state = "open"
  /\ \/ /\ sock.send # <<>>
        /\ app' = [app EXCEPT !.got = Append(@, Head(sock.send))]
        /\ sock' = [sock EXCEPT !.send = Tail(@)]
     \/ /\ sock.send = <<>> /\ sock.state \in {"finwait", "lastack"} /\ ~app.gotEnd
        /\ app' = [app EXCEPT !.gotEnd = TRUE]
        /\ sock' = [sock EXCEPT !.state = IF @ = "lastack" THEN "closed" ELSE @]
  /\ UNCHANGED <<flow, stream>>

AppResets ==
  /\ app.state = "open" /\ sock.state # "none"
  /\ app' = [app EXCEPT !.state = "gone"] /\ sock' = [sock EXCEPT !.state = "closed"]
  /\ UNCHANGED <<flow, stream>>

-----------------------------------------------------------------------------
(* The far end, behind a proxy or an adapter.                              *)

Arrives(u) == IF u.armed THEN [u EXCEPT !.armed = FALSE, !.event = TRUE] ELSE u

Far == UNCHANGED <<flow, sock, app>>

Links ==
  /\ flow.at # "none" /\ ~stream.linked /\ stream.end = "none" /\ Far
  /\ stream' = [stream EXCEPT !.linked = TRUE,
                              !.stage = IF flow.at = "connecting" THEN Granted ELSE @]

FarReads ==
  /\ stream.unsent # <<>> /\ stream.end # "reset" /\ Far
  /\ LET what == Head(stream.unsent)
         u == [stream EXCEPT !.unsent = Tail(@)]
     IN \/ /\ what = Greeting
           /\ \E reply \in {Method, Userpass, Unacceptable} :
                stream' = Arrives([u EXCEPT !.unread = Append(@, reply)])
        \/ /\ what = Login
           /\ \E reply \in {Welcome, Unacceptable} :
                stream' = Arrives([u EXCEPT !.unread = Append(@, reply)])
        \/ /\ what = Request
           /\ \E reply \in {Granted, Refused} :
                stream' = Arrives([u EXCEPT !.unread = Append(@, reply), !.stage = reply])
        \/ /\ what \in 1..MaxBytes
           /\ stream' = [u EXCEPT !.got = Append(@, what)]

FarSends ==
  /\ stream.linked /\ stream.stage = Granted /\ stream.end = "none"
  /\ stream.sentBytes < MaxBytes /\ Far
  /\ stream' = Arrives([stream EXCEPT !.sentBytes = @ + 1, !.unread = Append(@, stream.sentBytes + 1)])

FarEnds ==
  /\ flow.at # "none" /\ stream.end = "none" /\ Far
  /\ \E how \in IF stream.linked THEN {"fin", "reset"} ELSE {"reset"} :
       stream' = Arrives([stream EXCEPT !.end = how])

-----------------------------------------------------------------------------

TcpInit ==
  /\ flow = NoFlow /\ sock = NoSocket /\ stream = NewUpstream
  /\ app = [NewApp EXCEPT !.state = "idle"]

TcpNext ==
  \/ PumpConnecting \/ PumpHandshake \/ PumpOpen \/ FlowReady \/ RetryDue \/ Ages
  \/ AppConnects \/ AppCancels \/ AppOpens \/ AppSends \/ AppFinishes \/ AppReads \/ AppResets
  \/ Links \/ FarReads \/ FarSends \/ FarEnds

TcpSpec == TcpInit /\ [][TcpNext]_tcpVars

-----------------------------------------------------------------------------

TcpTypeOK ==
  /\ flow.at \in {"none", "connecting", "handshake", "open"} /\ flow.age \in 0..2
  /\ sock.state \in {"none", "listen", "established", "closewait", "finwait", "lastack",
                     "timewait", "closed"}
  /\ app.state \in {"idle", "connecting", "open", "reset", "gone"}
  /\ stream.end \in {"none", "fin", "reset"}

Numbered(n) == [i \in 1..n |-> i]

(* A connection is answered only once the far end is open ("Answering      *)
(* first would make every connection look open while the exit is down").   *)
(* While it is, each byte of either direction is in one place, in order,   *)
(* however little the exit takes at a time; an end is passed on after all  *)
(* the bytes before it; and no byte waits at the exit without the loop     *)
(* knowing of it, although readiness is reported once.                     *)
StreamsAreKept ==
  /\ TcpTypeOK
  /\ app.state = "open" /\ flow.at # "none" => flow.at = "open" /\ stream.stage = Granted
  /\ flow.at = "open" /\ app.state = "open" =>
       /\ stream.got \o Bytes(stream.unsent \o flow.outgoing) \o sock.recv = Numbered(app.sent)
       /\ app.got \o sock.send \o flow.to_app \o Bytes(stream.unread) = Numbered(stream.sentBytes)
       /\ stream.gotEnd => app.finished /\ stream.got \o stream.unsent = Numbered(app.sent)
       /\ app.gotEnd /\ stream.end = "fin" => app.got = Numbered(stream.sentBytes)
  /\ flow.at = "open" /\ stream.unread # <<>> => flow.read_pending \/ stream.event

(* Nor does the far end's end: "Ends, in each direction, once everything   *)
(* before them is delivered" (stack.rs).                                   *)
NoEndIsMissed ==
  flow.at = "open" /\ stream.end = "fin" =>
    flow.proxy_finished \/ flow.read_pending \/ stream.event

-----------------------------------------------------------------------------
(***************************************************************************)
(* UDP through the forwarding stack (engine/src/tun2socks/stack.rs): one   *)
(* association or pinned socket per local port, in a bounded table, set up *)
(* while datagrams queue, refused for a while, and reclaimed when quiet;   *)
(* and the health probes that share the loop.  Events find their owner     *)
(* through the tokens they were registered with.                           *)
(***************************************************************************)

CONSTANTS
  LocalPorts,
  MaxDatagrams,          \* bound on the datagrams of each port
  MaxTokens,             \* bound on the tokens of a behaviour
  MAX_UDP_ASSOCIATIONS, UDP_QUEUE_LIMIT, MAX_PROBES

VARIABLES
  viaProxy,    \* the exit is a proxy, or else an adapter
  udp,         \* the table: port -> association
  owners,      \* token -> owner
  next_token,
  recency,     \* the ports of the table, quietest first
  due,         \* ports whose idle time or refusal has run out
  probes,      \* tokens of the probes under way
  datagrams,   \* history: datagrams of each port so far
  left         \* history: the newest datagram of each port that left

udpVars == <<viaProxy, udp, owners, next_token, recency, due, probes, datagrams, left>>

Put(f, k, v) == [x \in DOMAIN f \cup {k} |-> IF x = k THEN v ELSE f[x]]
Drop(f, S) == [x \in DOMAIN f \ S |-> f[x]]

(* `control` and `data` are the tokens of its two sockets, 0 for none.     *)
Association(state, control, data) ==
  [state |-> state, queue |-> <<>>, control |-> control, data |-> data]
Tokens(a) == {a.control, a.data} \ {0}

(* The part of the stack the handlers change.                              *)
Udp == [udp |-> udp, owners |-> owners, next |-> next_token, recency |-> recency, due |-> due,
        left |-> left]
UdpBecomes(s) ==
  /\ udp' = s.udp /\ owners' = s.owners /\ next_token' = s.next
  /\ recency' = s.recency /\ due' = s.due /\ left' = s.left
  /\ UNCHANGED viaProxy

token(s, owner) == [s EXCEPT !.owners = Put(@, s.next, owner), !.next = @ + 1]

remove_udp(s, port) ==
  [s EXCEPT !.udp = Drop(@, {port}), !.owners = Drop(@, Tokens(s.udp[port])),
            !.recency = SelectSeq(@, LAMBDA p : p # port), !.due = @ \ {port}]

Touch(s, port) ==
  [s EXCEPT !.recency = Append(SelectSeq(@, LAMBDA p : p # port), port),
            !.due = IF s.udp[port].state = "Refused" THEN @ ELSE @ \ {port}]

(* Mutant: the newest association makes room.                              *)
Evict_newest(s) ==
  IF Cardinality(DOMAIN s.udp) < MAX_UDP_ASSOCIATIONS THEN s ELSE remove_udp(s, Last(s.recency))

Evict(s) ==
  IF Cardinality(DOMAIN s.udp) < MAX_UDP_ASSOCIATIONS THEN s ELSE remove_udp(s, Head(s.recency))

(* A port not in the table: an association is dialled, or a socket pinned, *)
(* or neither can be had and the port is refused for a while.              *)
open_direct_udp(s, port) ==
  {[token(s, [kind |-> "data", port |-> port]) EXCEPT
      !.udp = Put(@, port, Association("Direct", 0, s.next))],
   [s EXCEPT !.udp = Put(@, port, Association("Refused", 0, 0))]}

open_udp(s, port) ==
  LET asked == token(s, [kind |-> "control", port |-> port])
  IN IF ~viaProxy THEN open_direct_udp(s, port)
     ELSE {[asked EXCEPT !.udp = Put(@, port, Association("Dialing", s.next, 0))],
           [asked EXCEPT !.udp = Put(@, port, Association("Refused", 0, 0)), !.owners = s.owners]}

(* The datagram is queued, sent or dropped; a socket may refuse it.        *)
Forward(s, port, n) ==
  LET a == s.udp[port]
  IN CASE a.state = "Dialing" ->
            IF Len(a.queue) < UDP_QUEUE_LIMIT
            THEN {[s EXCEPT !.udp[port].queue = Append(@, n)]} ELSE {s}
       [] a.state \in {"Ready", "Direct"} -> {s, [s EXCEPT !.left[port] = n]}
       [] a.state = "Refused" -> {s}

(* send_udp: a refusal that has run out is forgotten and tried again.      *)
send_udp(port) ==
  /\ datagrams[port] < MaxDatagrams /\ next_token + 1 < MaxTokens
  /\ datagrams' = [datagrams EXCEPT ![port] = @ + 1]
  /\ LET n == datagrams[port] + 1
         again == port \in DOMAIN udp /\ udp[port].state = "Refused" /\ port \in due
         base == IF again THEN remove_udp(Udp, port) ELSE Udp
         ready == IF port \in DOMAIN base.udp THEN {base} ELSE open_udp(Evict(base), port)
     IN \E s \in ready : \E t \in Forward(Touch(s, port), port, n) : UdpBecomes(t)
  /\ UNCHANGED probes

-----------------------------------------------------------------------------
(* ready, for each kind of owner. *)

refuse_association(s, port) ==
  [s EXCEPT !.udp[port] = Association("Refused", 0, 0),
            !.owners = Drop(@, {s.udp[port].control}), !.due = @ \ {port}]

(* open_association: a socket of its own, and what was queued goes first.  *)
(* A socket that cannot be bound or registered refuses the association; in *)
(* the second case its token stays behind.                                 *)
open_association(port) ==
  LET s == token(Udp, [kind |-> "data", port |-> port])
      a == udp[port]
      opened(newest) == [s EXCEPT !.udp[port] = Association("Ready", a.control, next_token),
                                  !.left[port] = newest]
  IN {opened(newest) : newest \in {left[port]} \cup ToSet(a.queue)}
     \cup {refuse_association(Udp, port), refuse_association(s, port)}

(* udp_control_ready: the proxy agreed, refused or closed the stream; the  *)
(* end of a stream that has done its work changes nothing.                 *)
udp_control_ready(port) ==
  /\ port \in DOMAIN udp /\ udp[port].state = "Dialing" /\ next_token < MaxTokens
  /\ \E s \in open_association(port) : UdpBecomes(s)
  /\ UNCHANGED <<datagrams, probes>>

(* udp_data_ready: a reply keeps the association.                          *)
udp_data_ready(port) ==
  /\ port \in DOMAIN udp /\ udp[port].state \in {"Ready", "Direct"}
  /\ UdpBecomes(Touch(Udp, port))
  /\ UNCHANGED <<datagrams, probes>>

remove_probe(t) ==
  /\ probes' = probes \ {t} /\ owners' = Drop(owners, {t})
  /\ UNCHANGED <<viaProxy, udp, next_token, recency, due, datagrams, left>>

(* An answer, an end or an error.                                          *)
probe_ready(t) == remove_probe(t)

probe ==
  /\ Cardinality(probes) < MAX_PROBES /\ next_token < MaxTokens
  /\ next_token' = next_token + 1
  /\ \/ probes' = probes \cup {next_token}
        /\ owners' = Put(owners, next_token, [kind |-> "probe", port |-> 0])
     \/ UNCHANGED <<probes, owners>>
  /\ UNCHANGED <<viaProxy, udp, recency, due, datagrams, left>>

(* An event, also one collected before its socket went.                    *)
UdpReady(t) ==
  /\ t \in DOMAIN owners
  /\ \/ owners[t].kind = "control" /\ udp_control_ready(owners[t].port)
     \/ owners[t].kind = "data" /\ udp_data_ready(owners[t].port)
     \/ owners[t].kind = "probe" /\ probe_ready(t)

(* An idle time or a refusal runs out; expire. *)
UdpTimePasses ==
  /\ \E port \in DOMAIN udp \ due : due' = due \cup {port}
  /\ UNCHANGED <<viaProxy, udp, owners, next_token, recency, probes, datagrams, left>>

UdpExpires ==
  /\ due # {}
  /\ UdpBecomes(FoldLeft(remove_udp, Udp, SetToSeq(due)))
  /\ UNCHANGED <<datagrams, probes>>

ProbeExpires == \E t \in probes : remove_probe(t)

UdpInit ==
  /\ viaProxy \in BOOLEAN
  /\ udp = [p \in {} |-> 0] /\ owners = [t \in {} |-> 0] /\ next_token = 1
  /\ recency = <<>> /\ due = {} /\ probes = {}
  /\ datagrams = [p \in LocalPorts |-> 0] /\ left = [p \in LocalPorts |-> 0]

UdpNext ==
  \/ \E port \in LocalPorts : send_udp(port)
  \/ probe \/ \E t \in 1..(next_token - 1) : UdpReady(t)
  \/ UdpTimePasses \/ UdpExpires \/ ProbeExpires

UdpSpec == UdpInit /\ [][UdpNext]_udpVars

-----------------------------------------------------------------------------

UdpTypeOK ==
  /\ DOMAIN udp \subseteq LocalPorts /\ ToSet(recency) = DOMAIN udp
  /\ \A p \in DOMAIN udp : udp[p].state \in {"Dialing", "Ready", "Direct", "Refused"}
  /\ due \subseteq DOMAIN udp /\ next_token \in 1..MaxTokens

(* Every socket of the table is found through its own token, whatever was  *)
(* evicted, refused or opened again on the same port before; the table and *)
(* the queues keep their limits; each port's datagrams leave once and in   *)
(* the order they were sent, those queued during set-up first.             *)
AssociationsAreOwned ==
  /\ UdpTypeOK
  /\ Cardinality(DOMAIN udp) <= MAX_UDP_ASSOCIATIONS
  /\ \A p \in DOMAIN udp :
       /\ udp[p].control # 0 => owners[udp[p].control] = [kind |-> "control", port |-> p]
       /\ udp[p].data # 0 => owners[udp[p].data] = [kind |-> "data", port |-> p]
       /\ udp[p].queue # <<>> => udp[p].state = "Dialing" /\ Len(udp[p].queue) <= UDP_QUEUE_LIMIT
  /\ \A t \in probes : owners[t].kind = "probe"
  /\ \A p \in DOMAIN udp : LET waiting == udp[p].queue
                          IN \A i \in 1..Len(waiting) :
                               waiting[i] > (IF i = 1 THEN left[p] ELSE waiting[i - 1])

(* ... and what leaves the table before its time is the quietest, for want *)
(* of room ("the quietest makes room, rather than a new connection being   *)
(* refused"); a refusal lasts its time unless it is that.                  *)
QuietestMakesRoom ==
  /\ AssociationsAreOwned
  /\ [][udpVars' # udpVars =>
          /\ AssociationsAreOwned' /\ \A p \in LocalPorts : left'[p] >= left[p]
          /\ \A p \in DOMAIN udp \ due :
               \/ p \in DOMAIN udp' /\ (udp[p].state = "Refused" => udp'[p] = udp[p])
               \/ p = Head(recency) /\ Cardinality(DOMAIN udp) = MAX_UDP_ASSOCIATIONS]_udpVars

-----------------------------------------------------------------------------
(***************************************************************************)
(* Name lookups through a SOCKS5 proxy (engine/src/tun2socks/stack.rs):    *)
(* each goes over one of a few TCP streams to its resolver, is sent once   *)
(* more when its stream closes under it, and is failed when no answer came *)
(* in time.  One resolver: streams to different ones do not meet.          *)
(***************************************************************************)

CONSTANTS
  Lookups,                   \* the applications' lookups
  StreamIds,                 \* 1..n, bound on the streams of a behaviour
  DNS_STREAMS_PER_RESOLVER

VARIABLES
  streams,    \* the dns map: stream -> DnsUpstream
  streamCount,     \* next_dns_stream
  atProxy,    \* lookups the proxy has, by stream
  replies,    \* history: the answers each lookup got, in order
  tries       \* history: how often each lookup was put on a stream

dnsVars == <<streams, streamCount, atProxy, replies, tries>>

DnsQuery(q, retried) == [lookup |-> q, retried |-> retried, late |-> FALSE]
NewDnsStream == [ready |-> FALSE, in_flight |-> {}, queued |-> {}, idle |-> FALSE]

(* What send_lookup and the handlers built on it change.                   *)
DnsState == [streams |-> streams, streamCount |-> streamCount, atProxy |-> atProxy, replies |-> replies,
          tries |-> tries]
DnsBecomes(s) ==
  /\ streams' = s.streams /\ streamCount' = s.streamCount
  /\ atProxy' = s.atProxy /\ replies' = s.replies /\ tries' = s.tries

Replied(s, q, what) == [s EXCEPT !.replies[q] = Append(@, what)]
fail_lookup(s, q) == Replied(s, q, "servfail")

(* dns_stream_for: an idle stream, else a new one (a dial can fail: 0), or *)
(* at the limit the least busy.  With the state it leaves.                 *)
dns_stream_for(s) ==
  LET open == DOMAIN s.streams
      idle == {i \in open : s.streams[i].in_flight = {}}
      least == {i \in open : \A j \in open :
                  Cardinality(s.streams[i].in_flight) <= Cardinality(s.streams[j].in_flight)}
      n == s.streamCount + 1
      dialled == [s EXCEPT !.streamCount = n,
                    !.streams = [i \in open \cup {n} |-> IF i = n THEN NewDnsStream ELSE s.streams[i]]]
  IN IF idle # {} THEN {[id |-> i, s |-> s] : i \in idle}
     ELSE IF Cardinality(open) >= DNS_STREAMS_PER_RESOLVER THEN {[id |-> i, s |-> s] : i \in least}
     ELSE {[id |-> 0, s |-> [s EXCEPT !.streamCount = n]], [id |-> n, s |-> dialled]}

(* send_lookup: the states it can leave.                                   *)
send_lookup(s, q, retried) ==
  {IF r.id = 0 THEN fail_lookup(r.s, q)
   ELSE IF r.s.streams[r.id].ready
   THEN [r.s EXCEPT !.streams[r.id].in_flight = @ \cup {DnsQuery(q, retried)}, !.tries[q] = @ + 1,
                    !.atProxy[r.id] = @ \cup {q}]
   ELSE [r.s EXCEPT !.streams[r.id].in_flight = @ \cup {DnsQuery(q, retried)}, !.tries[q] = @ + 1,
                    !.streams[r.id].queued = @ \cup {q}]
   : r \in dns_stream_for(s)}

WithoutStream(s, id) ==
  [s EXCEPT !.streams = [i \in DOMAIN s.streams \ {id} |-> s.streams[i]], !.atProxy[id] = {}]

-----------------------------------------------------------------------------

Lookup(q) ==
  /\ q \notin UNION {{w.lookup : w \in streams[i].in_flight} : i \in DOMAIN streams}
  /\ replies[q] = <<>> /\ streamCount < Max(StreamIds)
  /\ \E s \in send_lookup(DnsState, q, FALSE) : DnsBecomes(s)

(* dns_ready when the handshake ends: what was queued goes out.            *)
HandshakeEnds(id) ==
  /\ ~streams[id].ready
  /\ streams' = [streams EXCEPT ![id].ready = TRUE, ![id].queued = {}]
  /\ atProxy' = [atProxy EXCEPT ![id] = streams[id].queued]
  /\ UNCHANGED <<streamCount, replies, tries>>

(* The answers read from a stream: one nobody waits for is dropped.        *)
Answered(s, id, found) ==
  LET waiting == {w \in s.streams[id].in_flight : w.lookup \in found}
      rest == s.streams[id].in_flight \ waiting
      t == [s EXCEPT !.streams[id].in_flight = rest,
                     !.streams[id].idle = IF waiting # {} /\ rest = {} THEN FALSE ELSE @]
  IN [t EXCEPT !.replies = [q \in Lookups |->
        IF \E w \in waiting : w.lookup = q THEN Append(@[q], "answer") ELSE @[q]]]

Answers(id) ==
  \E found \in SUBSET atProxy[id] \ {{}} : DnsBecomes(Answered(DnsState, id, found))

(* Each lookup of a closed stream, once more or failed.                    *)
Resent(s, w) ==
  IF w.retried THEN {fail_lookup(s, w.lookup)} ELSE send_lookup(s, w.lookup, TRUE)

(* dns_ready on a stream that ended: the answers before its end, then what *)
(* still waits, in any order.                                              *)
StreamGone(id) ==
  \E found \in SUBSET atProxy[id] :
    LET s == Answered(DnsState, id, found)
        lost == s.streams[id].in_flight
    IN /\ streamCount + Cardinality(lost) <= Max(StreamIds)
       /\ \E order \in SetToSeqs(lost) :
            \E t \in FoldLeft(LAMBDA acc, w : UNION {Resent(u, w) : u \in acc},
                              {WithoutStream(s, id)}, order) : DnsBecomes(t)

(* DNS_TIMEOUT passes for what waits on a stream, or DNS_IDLE for one that *)
(* nothing waits on.                                                       *)
DnsTimePasses(id) ==
  /\ streams' = [streams EXCEPT ![id].in_flight = {[w EXCEPT !.late = TRUE] : w \in @},
                                ![id].idle = streams[id].in_flight = {}]
  /\ streams' # streams
  /\ UNCHANGED <<streamCount, atProxy, replies, tries>>

(* expire: a stream with a late lookup goes, with all lookups on it; of    *)
(* the idle ones all but one.                                              *)
DnsExpires ==
  LET late == {i \in DOMAIN streams : \E w \in streams[i].in_flight : w.late}
      idle == {i \in DOMAIN streams : streams[i].in_flight = {} /\ streams[i].idle}
  IN \E spare \in IF idle = {} THEN {0} ELSE idle :
       LET closing == late \cup (idle \ {spare})
           failed == UNION {{w.lookup : w \in streams[i].in_flight} : i \in closing}
       IN /\ closing # {}
          /\ streams' = [i \in DOMAIN streams \ closing |-> streams[i]]
          /\ atProxy' = [i \in StreamIds |-> IF i \in closing THEN {} ELSE atProxy[i]]
          /\ replies' = [q \in Lookups |->
                           IF q \in failed THEN Append(replies[q], "servfail") ELSE replies[q]]
          /\ UNCHANGED <<streamCount, tries>>

DnsInit ==
  /\ streams = [i \in {} |-> NewDnsStream] /\ streamCount = 0
  /\ atProxy = [i \in StreamIds |-> {}] /\ replies = [q \in Lookups |-> <<>>]
  /\ tries = [q \in Lookups |-> 0]

DnsNext ==
  \/ \E q \in Lookups : Lookup(q)
  \/ \E id \in DOMAIN streams : HandshakeEnds(id) \/ Answers(id) \/ StreamGone(id) \/ DnsTimePasses(id)
  \/ DnsExpires

DnsSpec == DnsInit /\ [][DnsNext]_dnsVars

-----------------------------------------------------------------------------

DnsTypeOK ==
  /\ DOMAIN streams \subseteq 1..streamCount /\ streamCount \in 0..Max(StreamIds)
  /\ replies \in [Lookups -> Seq({"answer", "servfail"})]

Waiting(q) == {i \in DOMAIN streams : \E w \in streams[i].in_flight : w.lookup = q}

(* A lookup waits in one place, which its query reached or will when the   *)
(* stream is up, or it was answered, with the proxy's answer or a failure, *)
(* exactly once, however its streams close under it, answers and deadlines *)
(* cross or a retry opens another stream ("Each is sent once more on a     *)
(* fresh stream, then failed at once rather than left for the application  *)
(* to time out").  No resolver gets more streams than it is allowed.       *)
LookupsEndOnce ==
  /\ DnsTypeOK
  /\ Cardinality(DOMAIN streams) <= DNS_STREAMS_PER_RESOLVER
  /\ \A q \in Lookups :
       /\ Cardinality(Waiting(q)) + Len(replies[q]) <= 1
       /\ tries[q] > 0 => Cardinality(Waiting(q)) + Len(replies[q]) = 1
       /\ tries[q] <= 2
       /\ \A i \in Waiting(q) : q \in IF streams[i].ready THEN atProxy[i] ELSE streams[i].queued
=============================================================================
