---------------------------- MODULE PacketSizes -----------------------------
(***************************************************************************)
(* Packets and their sizes: the size a session advertises, one route for   *)
(* all the fragments of a captured datagram, and datagrams cut for the     *)
(* tunnel and rebuilt behind it.                                           *)
(***************************************************************************)
EXTENDS Integers, Sequences, SequencesExt, FiniteSets, FiniteSetsExt

(***************************************************************************)
(* The packet size a session advertises: what the encapsulation leaves     *)
(* (engine/src/mtu.rs), refined by measuring the path to each endpoint     *)
(* (engine/src/path_mtu.rs) while the session starts                       *)
(* (engine/src/session/path_mtu.rs).  Sizes are real bytes.                *)
(***************************************************************************)

CONSTANTS
  Endpoints,     \* globally routable tunnel endpoints
  LinkMtus,      \* what Windows reports for the link
  PathMtus,      \* what a path really carries
  KindSets,      \* sets of transport kinds a session runs over
  TunnelLimits   \* inner MTUs a provider's configuration asks for

VARIABLES
  session,       \* [mode, kinds, link, limit]
  carries,       \* endpoint -> the size its path really carries
  probe,         \* endpoint -> the search for it
  slot,          \* measured: the refined sizes, or none
  finished,      \* the measuring thread has ended
  captured       \* the sizes capture was started with, or none

mVars == <<session, carries, probe, slot, finished, captured>>

LINK_MTU == 1500
MIN_TUNNEL_MTU == 1280
MIN_SIGNALLED_MTU == 1228
PRECISION == 8
NoSizes == [mtu |-> 0]

-----------------------------------------------------------------------------
(* engine/src/mtu.rs                                                       *)

Clamp(n, low, high) == IF n < low THEN low ELSE IF n > high THEN high ELSE n
Monus(a, b) == IF a > b THEN a - b ELSE 0

normalize_link_mtu(reported) == Clamp(reported, MIN_TUNNEL_MTU, LINK_MTU)

(* IPv4 and UDP, the header, the tag and a repair frame's own header.      *)
RELAY_OVERLAY == 28 + 40 + 16 + 15

Overlay(mode) == IF mode = "relay" THEN RELAY_OVERLAY ELSE 0

path_overhead_bytes(mode, kind) ==
  Overlay(mode) + (CASE kind = "wireguard" -> 32 + 28
                     [] kind = "socks5" -> 10 + 28
                     [] kind = "openvpn" -> 62 + 52
                     [] OTHER -> 116)

path_packet_budget(mode, kind, link) ==
  IF kind # "wireguard" THEN Monus(link, path_overhead_bytes(mode, kind))
  ELSE Monus((Monus(link, 60) \div 16) * 16, Overlay(mode))

Sizes(mtu, budget) == [mtu |-> mtu, budget |-> budget]

(* Mutant: sized for the cheapest of the session's paths.                  *)
for_session_cheapest(mode, kinds, link) ==
  LET budget == Max({path_packet_budget(mode, k, normalize_link_mtu(link)) : k \in kinds})
  IN Sizes(Max({budget, MIN_TUNNEL_MTU}), budget)

(* The dearest path decides: the scheduler may use any of them.            *)
for_session(mode, kinds, link) ==
  LET budget == Min({path_packet_budget(mode, k, normalize_link_mtu(link)) : k \in kinds})
  IN Sizes(Max({budget, MIN_TUNNEL_MTU}), budget)

configured_tunnel_mtu(reported) == reported \in MIN_TUNNEL_MTU..LINK_MTU

with_tunnel_limit(m, limit) ==
  IF ~configured_tunnel_mtu(limit) THEN m
  ELSE Sizes(Max({Min({m.mtu, limit}), MIN_TUNNEL_MTU}), Min({m.budget, limit}))

unfragmented(m) == Clamp(m.budget, MIN_SIGNALLED_MTU, m.mtu)
own_stack(m) == Clamp(m.budget, 576, m.mtu)

Derive(link) == with_tunnel_limit(for_session(session.mode, session.kinds, link), session.limit)

-----------------------------------------------------------------------------
(* engine/src/path_mtu.rs.  A search waits for an echo of size next; a     *)
(* lost echo reads as one that did not fit.                                *)

Search(fitting, too_big, next) == [fitting |-> fitting, too_big |-> too_big, next |-> next, found |-> 0, ended |-> FALSE]
Found(size) == [Search(0, 0, 0) EXCEPT !.found = size, !.ended = TRUE]
Unknown == Found(0)

search_from(link) == IF link <= MIN_TUNNEL_MTU THEN Found(link) ELSE Search(0, link, link)

Narrowed(fitting, too_big) ==
  IF too_big - fitting <= PRECISION THEN Found(fitting)
  ELSE Search(fitting, too_big, fitting + (too_big - fitting) \div 2)

(* One answer, or none in time.                                            *)
search(s, answered) ==
  CASE s.fitting = 0 /\ s.next > MIN_TUNNEL_MTU ->
         IF answered THEN Found(s.next) ELSE Search(0, s.next, MIN_TUNNEL_MTU)
    [] s.fitting = 0 /\ s.next <= MIN_TUNNEL_MTU -> IF answered THEN Narrowed(s.next, s.too_big) ELSE Unknown
    [] OTHER -> IF answered THEN Narrowed(s.next, s.too_big) ELSE Narrowed(s.fitting, s.next)

echo(e) ==
  /\ ~probe[e].ended
  /\ \E answered \in {probe[e].next <= carries[e], FALSE} :
       LET s == search(probe[e], answered)
       IN probe' = [probe EXCEPT ![e] = IF s = Unknown THEN search_from(session.link) ELSE s]
  /\ UNCHANGED <<session, carries, slot, finished, captured>>

(* The probe's budget is spent: a size already confirmed is kept.          *)
deadline(e) ==
  /\ ~probe[e].ended
  /\ probe' = [probe EXCEPT ![e] = Found(@.fitting)]
  /\ UNCHANGED <<session, carries, slot, finished, captured>>

-----------------------------------------------------------------------------
(* engine/src/session/path_mtu.rs                                          *)

MInit ==
  /\ session \in [mode : {"relay", "direct"}, kinds : KindSets, link : LinkMtus, limit : TunnelLimits]
  /\ carries \in [Endpoints -> PathMtus]
  /\ probe = [e \in Endpoints |-> search_from(session.link)]
  /\ slot = NoSizes /\ captured = NoSizes
  /\ finished = (Endpoints = {})

derived == Derive(session.link)

(* The narrowest path that answered refines the sizes, never upwards.      *)
measured ==
  LET known == {probe[e].found : e \in Endpoints} \ {0}
  IN /\ ~finished
     /\ \A e \in Endpoints : probe[e].ended
     /\ finished' = TRUE
     /\ slot' = IF known # {} /\ unfragmented(Derive(Min(known))) < unfragmented(derived)
                THEN Derive(Min(known)) ELSE slot
     /\ UNCHANGED <<session, carries, probe, captured>>

current == IF slot # NoSizes THEN slot ELSE derived

(* Capture waits for the measurement, or for its deadline.                 *)
for_capture ==
  /\ captured = NoSizes
  /\ captured' = current
  /\ UNCHANGED <<session, carries, probe, slot, finished>>

MNext ==
  \/ \E e \in Endpoints : echo(e) \/ deadline(e)
  \/ measured
  \/ for_capture

MSpec == MInit /\ [][MNext]_mVars

-----------------------------------------------------------------------------
MTypeOK == probe \in [Endpoints -> [fitting : 0..LINK_MTU, too_big : Nat, next : Nat, found : Nat, ended : BOOLEAN]]

Fits(m) == \A k \in session.kinds, e \in Endpoints :
             probe[e].found # 0 => unfragmented(m) + path_overhead_bytes(session.mode, k) <= carries[e]

(* A size that was measured is one that its path carries.                  *)
(* Once the measurement has ended, a packet of the size senders are told   *)
(* (unfragmented) fits, with the wrapping of whichever path the scheduler  *)
(* picks, the path to every endpoint that was measured, unless the size is *)
(* already the smallest ever signalled; and the three sizes never cross    *)
(* their floors or each other, whatever the link and the provider say.     *)
(* A session on a path narrower than the link Windows reports would lose   *)
(* its large packets otherwise.                                            *)
SizesFit ==
  /\ MTypeOK
  /\ \A e \in Endpoints : session.link > MIN_TUNNEL_MTU /\ probe[e].found # 0 => probe[e].found <= carries[e]
  /\ finished /\ session.link <= LINK_MTU /\ session.link > MIN_TUNNEL_MTU
       => Fits(current) \/ unfragmented(current) = MIN_SIGNALLED_MTU
  /\ \A m \in {current, captured} \ {NoSizes} :
       /\ m.mtu \in MIN_TUNNEL_MTU..LINK_MTU
       /\ unfragmented(m) \in MIN_SIGNALLED_MTU..m.mtu
       /\ own_stack(m) <= unfragmented(m)
       /\ unfragmented(m) <= unfragmented(derived)

(***************************************************************************)
(* One route for every fragment of an outbound datagram                    *)
(* (engine/src/fragment_router.rs, used by the readers of                  *)
(* engine/src/split_capture.rs).  Only the first fragment has ports to be  *)
(* matched by; several readers take fragments in any order.                *)
(***************************************************************************)

CONSTANTS
  Ids,                       \* IPv4 identifications (with addresses: Key)
  Readers,                   \* capture threads
  MAX_DATAGRAMS, MAX_PIECES, MAX_PENDING, \* MAX_PENDING: pieces, for MAX_PENDING_BYTES
  LastPiece,                 \* a datagram is pieces 0..LastPiece
  MaxSent                    \* bound: datagrams sent

VARIABLES
  piecesSent,        \* id -> datagrams Windows sent with it
  queued,      \* pieces waiting to be read, <<id, datagram, piece>>
  heldDatagrams,   \* id -> [generation, route, waiting], oldest first in order
  order,       \* ids of datagrams by age (Datagram::started)
  generation,
  reader,      \* reader -> the first fragment it classifies, with its ticket
  routed       \* pieces that went somewhere, <<piece, route>>

fVars == <<piecesSent, queued, heldDatagrams, order, generation, reader, routed>>

NoPiece == [piece |-> <<>>, ticket |-> 0]
Routes == {"tunnel", "bypass", "drop"}
Free(f, id) == [x \in DOMAIN f \ {id} |-> f[x]]
PutPiece(f, id, d) == [x \in DOMAIN f \cup {id} |-> IF x = id THEN d ELSE f[x]]
Pending(f) == MapThenSumSet(LAMBDA id : Len(f[id].waiting), DOMAIN f)
Moved(pieces, route) == {<<p, route>> : p \in ToSet(pieces)}

FInit ==
  /\ piecesSent = [id \in Ids |-> 0]
  /\ queued = {}
  /\ heldDatagrams = [id \in {} |-> 0]
  /\ order = <<>>
  /\ generation = 0
  /\ reader = [r \in Readers |-> NoPiece]
  /\ routed = {}

(* Windows sends a datagram in fragments.  The 16-bit identification comes *)
(* round again, for the same addresses, later than VERDICT_TTL: the        *)
(* earlier datagram is forgotten, though a slow reader may still hold it.  *)
SendFragments(id) ==
  /\ MapThenSumSet(LAMBDA i : piecesSent[i], Ids) < MaxSent
  /\ \A p \in queued : p[1] # id
  /\ id \notin DOMAIN heldDatagrams
  /\ piecesSent' = [piecesSent EXCEPT ![id] = @ + 1]
  /\ queued' = queued \cup {<<id, piecesSent[id] + 1, n>> : n \in 0..LastPiece}
  /\ UNCHANGED <<heldDatagrams, order, generation, reader, routed>>

(* What the next call drops because it is older than its TTL.              *)
expire_fragments(id) ==
  /\ id \in DOMAIN heldDatagrams
  /\ heldDatagrams' = Free(heldDatagrams, id)
  /\ order' = Remove(order, id)
  /\ UNCHANGED <<piecesSent, queued, generation, reader, routed>>

make_room(id) ==
  IF id \notin DOMAIN heldDatagrams /\ Cardinality(DOMAIN heldDatagrams) >= MAX_DATAGRAMS
  THEN Free(heldDatagrams, Head(order)) ELSE heldDatagrams

Aged(id, room) == Append(SelectSeq(order, LAMBDA x : x \in DOMAIN room /\ x # id), id)

(* The first piece reserves before it is classified; pieces that came      *)
(* before it wait on.                                                      *)
begin(r, p) ==
  LET id == p[1]
      room == make_room(id)
      waiting == IF id \in DOMAIN room /\ room[id].generation = 0 THEN room[id].waiting ELSE <<>>
  IN /\ reader[r] = NoPiece /\ p \in queued /\ p[3] = 0
     /\ queued' = queued \ {p}
     /\ generation' = generation + 1
     /\ heldDatagrams' = PutPiece(room, id, [generation |-> generation + 1, route |-> "none", waiting |-> waiting])
     /\ order' = Aged(id, room)
     /\ reader' = [reader EXCEPT ![r] = [piece |-> p, ticket |-> generation + 1]]
     /\ UNCHANGED <<piecesSent, routed>>

later(r, p) ==
  LET id == p[1]
      room == make_room(id)
      known == id \in DOMAIN room
      d == IF known THEN room[id] ELSE [generation |-> 0, route |-> "none", waiting |-> <<>>]
      full == Len(d.waiting) >= MAX_PIECES \/ Pending(room) >= MAX_PENDING
  IN /\ reader[r] = NoPiece /\ p \in queued /\ p[3] > 0
     /\ queued' = queued \ {p}
     /\ order' = IF known THEN order ELSE Aged(id, room)
     /\ \/ /\ d.route # "none"
           /\ heldDatagrams' = room
           /\ routed' = routed \cup {<<p, d.route>>}
        \/ /\ d.route = "none" /\ full
           /\ heldDatagrams' = PutPiece(room, id, [d EXCEPT !.route = "drop", !.waiting = <<>>])
           /\ routed' = routed \cup Moved(Append(d.waiting, p), "drop")
        \/ /\ d.route = "none" /\ ~full
           /\ heldDatagrams' = PutPiece(room, id, [d EXCEPT !.waiting = Append(@, p)])
           /\ UNCHANGED routed
     /\ UNCHANGED <<piecesSent, generation, reader>>

(* The reader has classified and sent the first piece; its verdict is the  *)
(* datagram's, and what waited follows.                                    *)
(* Mutant: a verdict is not matched with the ticket it was reserved under. *)
finish_unticketed(r, verdict) ==
  LET p == reader[r].piece
      id == p[1]
      mine == id \in DOMAIN heldDatagrams
      route == IF mine /\ heldDatagrams[id].route = "drop" THEN "drop" ELSE verdict
  IN /\ reader[r] # NoPiece
     /\ reader' = [reader EXCEPT ![r] = NoPiece]
     /\ \/ /\ ~mine
           /\ routed' = routed \cup {<<p, verdict>>}
           /\ UNCHANGED <<heldDatagrams, order>>
        \/ /\ mine
           /\ heldDatagrams' = [heldDatagrams EXCEPT ![id].route = route, ![id].waiting = <<>>]
           /\ order' = Aged(id, heldDatagrams)
           /\ routed' = routed \cup {<<p, verdict>>} \cup Moved(heldDatagrams[id].waiting, route)
     /\ UNCHANGED <<piecesSent, queued, generation>>

finish(r, verdict) ==
  LET p == reader[r].piece
      id == p[1]
      mine == id \in DOMAIN heldDatagrams /\ heldDatagrams[id].generation = reader[r].ticket
      route == IF mine /\ heldDatagrams[id].route = "drop" THEN "drop" ELSE verdict
  IN /\ reader[r] # NoPiece
     /\ reader' = [reader EXCEPT ![r] = NoPiece]
     /\ \/ /\ ~mine
           /\ routed' = routed \cup {<<p, verdict>>}
           /\ UNCHANGED <<heldDatagrams, order>>
        \/ /\ mine
           /\ heldDatagrams' = [heldDatagrams EXCEPT ![id].route = route, ![id].waiting = <<>>]
           /\ order' = Aged(id, heldDatagrams)
           /\ routed' = routed \cup {<<p, verdict>>} \cup Moved(heldDatagrams[id].waiting, route)
     /\ UNCHANGED <<piecesSent, queued, generation>>

FNext ==
  \/ \E id \in Ids : SendFragments(id) \/ expire_fragments(id)
  \/ \E r \in Readers : \/ \E p \in queued : begin(r, p) \/ later(r, p)
                        \/ \E verdict \in Routes : finish(r, verdict)

FSpec == FInit /\ [][FNext]_fVars

-----------------------------------------------------------------------------
FTypeOK ==
  /\ piecesSent \in [Ids -> 0..MaxSent]
  /\ DOMAIN heldDatagrams \subseteq Ids /\ ToSet(order) = DOMAIN heldDatagrams
  /\ \A id \in DOMAIN heldDatagrams : heldDatagrams[id].route \in Routes \cup {"none"}

(* Every piece that leaves goes where its datagram's first piece went, in  *)
(* the tunnel or around it, whatever the order the readers took them in,   *)
(* and never ahead of its first piece: half a datagram on each path would  *)
(* be rebuilt nowhere ("sends later fragments wherever the first one       *)
(* went").  A verdict that comes after its reservation has gone is for     *)
(* nobody else.  What is held stays within its limits.                     *)
OneRoute ==
  /\ FTypeOK
  /\ \A a \in routed : a[2] # "drop" => <<<<a[1][1], a[1][2], 0>>, a[2]>> \in routed
  /\ Cardinality(DOMAIN heldDatagrams) <= MAX_DATAGRAMS
  /\ Pending(heldDatagrams) <= MAX_PENDING
  /\ \A id \in DOMAIN heldDatagrams : Len(heldDatagrams[id].waiting) <= MAX_PIECES

-----------------------------------------------------------------------------
(***************************************************************************)
(* IPv4 datagrams cut into fragments and rebuilt                           *)
(* (engine/src/ipv4_fragments.rs): split_for_tunnel and fragment at one    *)
(* end, Reassembler at the other, fragments lost, repeated and reordered   *)
(* between them.  A payload is the interval of byte positions it covers;   *)
(* lengths are real bytes.                                                 *)
(***************************************************************************)

CONSTANTS
  Keys,                      \* DatagramKey
  Payloads,                  \* payload lengths of the datagrams sent
  RouterMtu, TunnelMtu,      \* a router's link in front, and the tunnel's
  MAX_PARTIALS, MAX_FRAGMENTS, \* MAX_DATAGRAMS, MAX_FRAGMENTS_PER_DATAGRAM
  MAX_DATAGRAM_LENGTH,
  MaxDatagrams, MaxDelivered \* bounds: datagrams sent, fragments delivered

VARIABLES
  origin,      \* sequence of datagrams sent: [key, length, df]
  wire,        \* fragments under way: each arrives never, once or again and again
  partials,    \* key -> [header, pieces, end]
  started,     \* keys of partials, oldest first
  rebuilt,     \* what push has returned
  delivered    \* fragments taken from the wire

rVars == <<origin, wire, partials, started, rebuilt, delivered>>

Header == 20
None == [known |-> FALSE]

-----------------------------------------------------------------------------
(* A packet: a whole datagram or a fragment of one.  by names the datagram *)
(* its bytes come from.                                                    *)
Whole(n, d) == [by |-> n, key |-> d.key, offset |-> 0, length |-> d.length, more |-> FALSE, df |-> d.df]

is_fragment(p) == p.more \/ p.offset # 0

(* Splits what does not fit, Don't Fragment or not; a fragment is split    *)
(* further and its last piece keeps More Fragments.                        *)
split_for_tunnel(p, mtu) ==
  LET size == ((mtu - Header) \div 8) * 8
      count == (p.length + size - 1) \div size
  IN IF mtu < 28 \/ Header + p.length <= mtu THEN {p}
     ELSE {[p EXCEPT !.offset = @ + i * size,
                     !.length = IF i = count - 1 THEN p.length - i * size ELSE size,
                     !.more = p.more \/ i # count - 1] : i \in 0..count - 1}

(* What an adapter or a router does: Don't Fragment is left whole.         *)
fragment(p, mtu) == IF p.df THEN {p} ELSE split_for_tunnel(p, mtu)

RInit ==
  /\ origin = <<>>
  /\ wire = {}
  /\ partials = [k \in {} |-> 0]
  /\ started = <<>>
  /\ rebuilt = {}
  /\ delivered = 0

(* A datagram is fragmented on its way to the tunnel and split again for   *)
(* it.  An identification may be used again at once.                       *)
SendDatagram(k, length, df) ==
  LET d == [key |-> k, length |-> length, df |-> df]
      first == fragment(Whole(Len(origin) + 1, d), RouterMtu)
  IN /\ Len(origin) < MaxDatagrams
     /\ origin' = Append(origin, d)
     /\ wire' = wire \cup UNION {split_for_tunnel(p, TunnelMtu) : p \in first}
     /\ UNCHANGED <<partials, started, rebuilt, delivered>>

-----------------------------------------------------------------------------
(* Reassembler.                                                            *)

Dropped(k) == [x \in DOMAIN partials \ {k} |-> partials[x]]
Older(k) == SelectSeq(started, LAMBDA x : x # k)

(* FRAGMENT_TIMEOUT, noticed by the next push.                             *)
TimeOut(k) ==
  /\ k \in DOMAIN partials
  /\ partials' = Dropped(k)
  /\ started' = Older(k)
  /\ UNCHANGED <<origin, wire, rebuilt, delivered>>

(* The partial p is added to, the oldest one making room for a new one.    *)
Entry(p) ==
  IF p.key \in DOMAIN partials THEN partials[p.key]
  ELSE [header |-> None, pieces |-> {}, end |-> -1]

Room(k) ==
  IF k \notin DOMAIN partials /\ Cardinality(DOMAIN partials) >= MAX_PARTIALS
  THEN Dropped(Head(started)) ELSE partials

Kept(p, entry) ==
  LET room == Room(p.key)
  IN /\ partials' = [x \in DOMAIN room \cup {p.key} |-> IF x = p.key THEN entry ELSE room[x]]
     /\ started' = IF p.key \in DOMAIN partials THEN started
                   ELSE Append(SelectSeq(started, LAMBDA x : x \in DOMAIN room), p.key)

Discarded(p) ==
  LET room == Room(p.key)
  IN /\ partials' = [x \in DOMAIN room \ {p.key} |-> room[x]]
     /\ started' = SelectSeq(started, LAMBDA x : x \in DOMAIN room \ {p.key})

Piece(p) == [by |-> p.by, offset |-> p.offset, length |-> p.length]

Added(p) ==
  LET e == Entry(p)
  IN [header |-> IF p.offset = 0 THEN [known |-> TRUE, df |-> p.df] ELSE e.header,
      pieces |-> e.pieces \cup {Piece(p)},
      end |-> IF p.more THEN e.end ELSE p.offset + p.length]

(* Bytes covered from the start without a gap, and whether pieces overlap  *)
(* there: what the walk over the pieces sorted by offset finds.            *)
Covered(pieces) ==
  LET follows == [i \in 0..Cardinality(pieces) |->
                    LET before == {q \in pieces : Cardinality({o \in pieces : o.offset < q.offset}) < i}
                    IN MapThenSumSet(LAMBDA q : q.length, before)]
      ordered(i) == CHOOSE q \in pieces : Cardinality({o \in pieces : o.offset < q.offset}) = i - 1
      stops == {i \in 1..Cardinality(pieces) : ordered(i).offset # follows[i - 1]}
  IN IF stops = {} THEN [gap |-> FALSE, overlap |-> FALSE, upto |-> follows[Cardinality(pieces)]]
     ELSE LET i == Min(stops)
          IN [gap |-> ordered(i).offset > follows[i - 1], overlap |-> ordered(i).offset < follows[i - 1],
              upto |-> follows[i - 1]]

Malformed(p) == (p.more /\ p.length % 8 # 0) \/ Header + p.offset + p.length > MAX_DATAGRAM_LENGTH

push(p) ==
  LET e == Entry(p)
      same == {q \in e.pieces : q.offset = p.offset}
      added == Added(p)
      covered == Covered(added.pieces)
      complete == added.header.known /\ added.end >= 0
      untrusted == \/ ~p.more /\ e.end >= 0 /\ e.end # p.offset + p.length
                   \/ Cardinality(added.pieces) > MAX_FRAGMENTS
                   \/ /\ complete
                      /\ ~covered.gap
                      /\ covered.overlap \/ covered.upto # added.end
  IN /\ p \in wire /\ is_fragment(p)
     /\ delivered < MaxDelivered
     /\ delivered' = delivered + 1
     /\ \/ Malformed(p) /\ Discarded(p) /\ UNCHANGED rebuilt
        \/ /\ ~Malformed(p) /\ same # {} /\ UNCHANGED rebuilt
           /\ IF Piece(p) \in same THEN Kept(p, e) ELSE Discarded(p)
        \/ ~Malformed(p) /\ same = {} /\ untrusted /\ Discarded(p) /\ UNCHANGED rebuilt
        \/ /\ ~Malformed(p) /\ same = {} /\ ~untrusted /\ (~complete \/ covered.gap)
           /\ Kept(p, added) /\ UNCHANGED rebuilt
        \/ /\ ~Malformed(p) /\ same = {} /\ ~untrusted /\ complete /\ ~covered.gap
           /\ rebuilt' = rebuilt \cup {[key |-> p.key, pieces |-> added.pieces, length |-> added.end,
                                        df |-> added.header.df]}
           /\ Discarded(p)
     /\ UNCHANGED <<origin, wire>>

RNext ==
  \/ \E k \in Keys, length \in Payloads, df \in BOOLEAN : SendDatagram(k, length, df)
  \/ \E p \in wire : push(p)
  \/ \E k \in Keys : TimeOut(k)

RSpec == RInit /\ [][RNext]_rVars

-----------------------------------------------------------------------------
RTypeOK ==
  /\ origin \in Seq([key : Keys, length : Payloads, df : BOOLEAN])
  /\ DOMAIN partials \subseteq Keys /\ {started[i] : i \in DOMAIN started} = DOMAIN partials
  /\ Cardinality(DOMAIN partials) <= MAX_PARTIALS

(* What the Reassembler returns covers every byte of its length exactly    *)
(* once, whatever was lost, repeated or reordered, however often the       *)
(* datagram was split on its way, and even when an identification is used  *)
(* again; and when all of its pieces come from one datagram it is that     *)
(* datagram, its length and its Don't Fragment flag included ("so the      *)
(* rebuilt datagram is the one that was sent").                            *)
RebuiltIsSent ==
  /\ RTypeOK
  /\ \A r \in rebuilt :
       /\ \A byte \in 0..r.length - 1 :
            Cardinality({q \in r.pieces : q.offset <= byte /\ byte < q.offset + q.length}) = 1
       /\ \A q \in r.pieces : q.offset + q.length <= r.length
       /\ \A n \in DOMAIN origin : (\A q \in r.pieces : q.by = n)
                                   => origin[n] = [key |-> r.key, length |-> r.length, df |-> r.df]
=============================================================================
