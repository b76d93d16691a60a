--------------------------- MODULE OpenVpnControl ---------------------------
(***************************************************************************)
(* An OpenVPN session's set-up and its renegotiations: the reliable control *)
(* channel (engine/src/openvpn/control.rs) and the stages it carries the   *)
(* session through (engine/src/openvpn/session.rs), against a server that  *)
(* speaks the same protocol, over a link that loses, duplicates and        *)
(* reorders.                                                               *)
(*                                                                         *)
(* A control packet carries one TLS message.  A generation's key id is its *)
(* number.  Acknowledgements are never held back: flush_acks runs in the   *)
(* call that receives the packet they answer.  RETRANSMIT_AFTER exceeds the *)
(* transit time: a packet is sent again once the link is empty.  A         *)
(* generation starts an hour after the one before, when everything was     *)
(* acknowledged; one straggler of the old one may still be under way.      *)
(***************************************************************************)
EXTENDS Integers, Sequences, FiniteSets, SequencesExt

CONSTANTS Generations,    \* 0..n, the key generations of a behaviour
          MaxFaults,      \* bound on the packets lost or repeated in a generation
          MaxRequests     \* bound on the repeated PUSH_REQUESTs

VARIABLES
  client,     \* Session with its ControlChannel
  server,     \* the peer
  link,       \* control packets under way
  faults      \* packets lost or repeated in this generation

controlVars == <<client, server, link, faults>>

Packet(to, key, opcode, id, body) ==
  [to |-> to, key |-> key, opcode |-> opcode, id |-> id, body |-> body]

Ack(to, key, id) == Packet(to, key, "ACK", id, "")

-----------------------------------------------------------------------------
(* ControlChannel.  A call returns the channel with `out`, what it put in  *)
(* the outgoing queue; flush empties that queue before the pass ends.      *)

Channel == [key_id |-> 0, next_packet_id |-> 0, unacknowledged |-> {}, expected_packet_id |-> 0,
            reordered |-> {}, out |-> {}]

send(c, to, opcode, body) ==
  LET packet == Packet(to, c.key_id, opcode, c.next_packet_id, body)
  IN [c EXCEPT !.next_packet_id = @ + 1, !.unacknowledged = @ \cup {packet},
               !.out = @ \cup {packet}]

send_tls(c, to, messages) == FoldLeft(LAMBDA d, m : send(d, to, "CONTROL", m), c, messages)

rekey(c, key_id) ==
  [c EXCEPT !.key_id = key_id, !.next_packet_id = 0, !.expected_packet_id = 0,
            !.unacknowledged = {}, !.reordered = {}]

(* The packets held back that are next in order, and the channel without   *)
(* them.                                                                   *)
InOrder(c) ==
  LET ids == {p.id : p \in c.reordered}
      upto == CHOOSE n \in c.expected_packet_id..(c.expected_packet_id + Cardinality(ids)) :
                /\ c.expected_packet_id..(n - 1) \subseteq ids
                /\ n \notin ids
      body(i) == (CHOOSE p \in c.reordered : p.id = i).body
  IN [channel |-> [c EXCEPT !.expected_packet_id = upto,
                            !.reordered = {p \in @ : p.id \notin c.expected_packet_id..(upto - 1)}],
      payload |-> [i \in 1..(upto - c.expected_packet_id) |->
                     body(c.expected_packet_id + i - 1)]]

Resets == {"HARD_RESET", "SOFT_RESET"}

(* Mutant: a packet of the generation being replaced is read as one of the *)
(* new.                                                                    *)
Stale_never(c, p) == FALSE

Stale(c, p) == p.key # c.key_id /\ p.opcode # "SOFT_RESET"

StepPast(c, p) == IF p.id = c.expected_packet_id THEN [c EXCEPT !.expected_packet_id = @ + 1] ELSE c

(* What a packet means: the channel after it and what the caller acts on.  *)
(* A reset takes a place in the numbering.                                 *)
receive(c, p) ==
  LET acked == [c EXCEPT !.unacknowledged = {q \in @ : q.id # p.id}]
      acking == [c EXCEPT !.out = @ \cup {Ack("server", c.key_id, p.id)}]
      held == InOrder([acking EXCEPT !.reordered = @ \cup {[id |-> p.id, body |-> p.body]}])
      nothing == [channel |-> c, means |-> "Nothing", payload |-> <<>>]
  IN IF Stale(c, p) THEN nothing
     ELSE IF p.opcode = "ACK" THEN [nothing EXCEPT !.channel = acked]
     ELSE IF p.opcode \in Resets
     THEN [channel |-> StepPast(acking, p), means |-> p.opcode, payload |-> <<>>]
     ELSE [channel |-> held.channel, payload |-> held.payload,
           means |-> IF held.payload = <<>> THEN "Nothing" ELSE "Payload"]

-----------------------------------------------------------------------------
(* Session.  `fed` is the history of the TLS bytes of this generation.     *)

begin_tls(s) ==
  IF s.tls # "none" THEN s
  ELSE [s EXCEPT !.tls = "handshaking", !.stage = "Tls", !.pending = Append(@, "client hello")]

(* Keys come into use when both the material and the settings are known;   *)
(* the generation they replace is kept.                                    *)
install_keys(s) ==
  IF ~s.material \/ ~s.pushed \/ s.channel.key_id \in ToSet(s.channels) THEN s
  ELSE LET all == Append(s.channels, s.channel.key_id)
       IN [s EXCEPT !.channels = IF Len(all) > 2 THEN Tail(all) ELSE all]

(* One TLS application message: the server's key material, then text.      *)
read_control_messages(s, message) ==
  IF ~s.server_material
  THEN IF message = "server keys"
       THEN install_keys([s EXCEPT !.material = TRUE, !.server_material = TRUE,
                                   !.stage = "Push"])
       ELSE [s EXCEPT !.stage = "failed"]
  ELSE IF message = "push reply"
  THEN IF s.pushed THEN s ELSE install_keys([s EXCEPT !.pushed = TRUE])
  ELSE [s EXCEPT !.stage = "failed"]

feed_tls(s, payload) ==
  IF s.tls = "none" THEN s
  ELSE LET heard == [s EXCEPT !.fed = @ \o payload,
                              !.tls = IF "server finished" \in ToSet(payload) THEN "up" ELSE @]
           read == FoldLeft(LAMBDA t, m :
                              IF m \in {"server hello", "server finished"} \/ t.stage = "failed"
                              THEN t ELSE read_control_messages(t, m),
                            heard, payload)
       IN IF read.tls = "up" /\ read.stage = "Tls"
          THEN [read EXCEPT !.stage = "KeyExchange", !.pending = Append(@, "client keys")]
          ELSE read

renegotiate(s, key_id) ==
  IF key_id = s.channel.key_id THEN s
  ELSE begin_tls([s EXCEPT
         !.channel = send(rekey(s.channel, key_id), "server", "SOFT_RESET", "reset"),
         !.tls = "none", !.material = FALSE, !.server_material = FALSE, !.fed = <<>>])

step(s, p) ==
  LET r == receive(s.channel, p)
      t == [s EXCEPT !.channel = r.channel]
  IN CASE r.means = "HARD_RESET" -> begin_tls(t)
       [] r.means = "Payload" -> feed_tls(t, r.payload)
       [] r.means = "SOFT_RESET" -> renegotiate(t, p.key)
       [] OTHER -> t

(* Asked for at once and then again and again until the settings arrive.   *)
request_push(s) ==
  IF ~s.server_material \/ s.pushed \/ s.requests >= MaxRequests THEN {s}
  ELSE LET asked == [s EXCEPT !.requests = @ + 1, !.pending = Append(@, "push request")]
       IN IF s.requests = 0 THEN {asked} ELSE {s, asked}

(* What TLS wants to send goes into control packets, and everything queued *)
(* onto the link, with whatever has gone unacknowledged for too long.      *)
flush(s, resent, rest) ==
  LET c == send_tls(s.channel, "server", s.pending)
  IN /\ link' = rest \cup c.out \cup resent
     /\ client' = [s EXCEPT !.channel = [c EXCEPT !.out = {}], !.pending = <<>>]

Running == client.stage # "failed"

(* One pass of run_setup or receive_inner with a packet: an error ends the *)
(* session.                                                                *)
Pass(p, rest) ==
  /\ Running
  /\ \E s \in request_push(step(client, p)) :
       IF s.stage = "failed"
       THEN client' = [s EXCEPT !.channel.out = {}, !.pending = <<>>] /\ link' = rest
       ELSE flush(s, {}, rest)
  /\ UNCHANGED server

(* A pass without one, late enough for retransmissions.                    *)
resend_stale ==
  /\ Running
  /\ link = {}
  /\ client.channel.unacknowledged # {} \/ request_push(client) # {client}
  /\ \E s \in request_push(client) : flush(s, client.channel.unacknowledged, link)
  /\ UNCHANGED <<server, faults>>

(* HANDSHAKE_TIMEOUT or SILENCE_LIMIT, before the tunnel is up.            *)
SetupTimeout ==
  /\ Running /\ ~client.pushed
  /\ client' = [client EXCEPT !.stage = "failed"]
  /\ UNCHANGED <<server, link, faults>>

-----------------------------------------------------------------------------
(* The server, as the client's code expects it: the same channel, answers  *)
(* to each message, and a new generation once the last one is in use.      *)

Answer(message, refuses) ==
  CASE message = "client hello" -> <<"server hello", "server finished">>
    [] message = "client keys" -> <<"server keys">>
    [] message = "push request" -> IF refuses THEN <<"auth failed">> ELSE <<"push reply">>
    [] message = "reset" -> <<>>

ServerReads(p, rest) ==
  LET held == InOrder([server.channel EXCEPT
                         !.reordered = @ \cup {[id |-> p.id, body |-> p.body]},
                         !.out = {Ack("client", p.key, p.id)}])
      opened == "reset" \in ToSet(held.payload) /\ p.key = 0
      greeted == IF opened THEN send(held.channel, "client", "HARD_RESET", "reset")
                 ELSE held.channel
  IN \E refuses \in IF "push request" \in ToSet(held.payload) THEN BOOLEAN ELSE {FALSE} :
     LET replies == FlattenSeq([i \in DOMAIN held.payload |-> Answer(held.payload[i], refuses)])
         c == send_tls(greeted, "client", replies)
     IN /\ server' = [server EXCEPT
             !.channel = [c EXCEPT !.out = {}], !.sent = @ \o replies,
             !.keyed = IF "client keys" \in ToSet(held.payload) THEN @ \cup {p.key} ELSE @]
        /\ link' = rest \cup c.out

(* What belongs to a generation gone by answers nothing there.             *)
ServerReceives(p, rest) ==
  /\ IF p.key # server.channel.key_id
     THEN link' = rest /\ UNCHANGED server
     ELSE IF p.opcode = "ACK"
     THEN /\ server' = [server EXCEPT !.channel.unacknowledged = {q \in @ : q.id # p.id}]
          /\ link' = rest
     ELSE ServerReads(p, rest)
  /\ UNCHANGED client

ServerResends ==
  /\ link = {} /\ server.channel.unacknowledged # {}
  /\ link' = link \cup server.channel.unacknowledged
  /\ UNCHANGED <<client, server, faults>>

ServerRekeys ==
  /\ server.channel.key_id + 1 \in Generations
  /\ server.channel.key_id \in ToSet(client.channels)
  /\ \A end \in {client, server} : end.channel.unacknowledged = {}
  /\ Cardinality(link) <= 1 /\ \A p \in link : p.opcode # "SOFT_RESET"
  /\ LET c == send(rekey(server.channel, server.channel.key_id + 1), "client", "SOFT_RESET", "reset")
     IN /\ server' = [server EXCEPT !.channel = [c EXCEPT !.out = {}], !.sent = <<>>]
        /\ link' = link \cup c.out
  /\ faults' = 0
  /\ UNCHANGED client

-----------------------------------------------------------------------------
(* The link. *)

(* A packet arrives, and a copy of it may be on its way still.             *)
Deliver(p) ==
  \E copies \in {n \in {0, 1} : faults + n <= MaxFaults} :
    LET rest == IF copies = 0 THEN link \ {p} ELSE link
    IN /\ \/ p.to = "client" /\ Pass(p, rest)
          \/ p.to = "server" /\ ServerReceives(p, rest)
       /\ faults' = faults + copies

Lose(p) ==
  /\ faults < MaxFaults
  /\ link' = link \ {p} /\ faults' = faults + 1
  /\ UNCHANGED <<client, server>>

-----------------------------------------------------------------------------

ControlInit ==
  LET opened == send(Channel, "server", "HARD_RESET", "reset")
  IN /\ client = [channel |-> [opened EXCEPT !.out = {}], stage |-> "Reset", tls |-> "none",
                  material |-> FALSE, server_material |-> FALSE, pushed |-> FALSE,
                  channels |-> <<>>, pending |-> <<>>, requests |-> 0, fed |-> <<>>]
     /\ server = [channel |-> Channel, keyed |-> {}, sent |-> <<>>]
     /\ link = opened.out /\ faults = 0

ControlNext ==
  \/ \E p \in link : Deliver(p) \/ Lose(p)
  \/ resend_stale \/ SetupTimeout \/ ServerResends \/ ServerRekeys

ControlSpec == ControlInit /\ [][ControlNext]_controlVars

-----------------------------------------------------------------------------

ServerMessages == {"server hello", "server finished", "server keys", "push reply", "auth failed"}

ControlTypeOK ==
  /\ client.stage \in {"Reset", "Tls", "KeyExchange", "Push", "failed"}
  /\ client.tls \in {"none", "handshaking", "up"}
  /\ client.fed \in Seq(ServerMessages) /\ server.sent \in Seq(ServerMessages)
  /\ client.channels \in Seq(Generations)
  /\ \A c \in {client.channel, server.channel} : c.key_id \in Generations /\ c.out = {}

(* Whatever the link does, TLS is fed exactly the server's bytes of the    *)
(* generation under way, in order and from their start, so packets of the  *)
(* generation before never mix in; and every key the client seals or opens *)
(* with is one of the server's two latest, the newest last, so what it     *)
(* sends can be opened ("reads them in order", control.rs; "the old keys   *)
(* stay until the new ones are ready", session.rs).                        *)
KeysAgree ==
  /\ ControlTypeOK
  /\ client.channel.key_id = server.channel.key_id => IsPrefix(client.fed, server.sent)
  /\ client.channel.key_id # server.channel.key_id =>
       client.channel.key_id = server.channel.key_id - 1
  /\ ToSet(client.channels) \subseteq server.keyed
  /\ Len(client.channels) \in 0..2
  /\ client.channels # <<>> =>
       /\ Last(client.channels) >= client.channel.key_id - 1
       /\ client.channels = [i \in DOMAIN client.channels |->
                               Last(client.channels) - Len(client.channels) + i]

(* Both ends wait: nothing is under way, nothing is left to retransmit,    *)
(* and the keys of the server's generation are not in use.                 *)
Stalled ==
  /\ Running /\ link = {}
  /\ \A end \in {client, server} : end.channel.unacknowledged = {}
  /\ server.channel.key_id \notin ToSet(client.channels)

(* Losses, copies and reordering never leave a session that is coming up   *)
(* with both ends waiting for each other: what went missing is still held  *)
(* for retransmission, and what came early is read when its turn comes.    *)
SetupNeverStalls == Stalled => server.channel.key_id # 0

(* Nor a renegotiation: a session up for an hour "is asked to rekey and    *)
(* has to do it" (session.rs:246), and the reader must step past the reset *)
(* that opens the generation "or it waits forever" (control.rs:395).       *)
RenegotiationNeverStalls == ~Stalled
=============================================================================
