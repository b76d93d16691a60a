---------------------------- MODULE OpenVpnLink ----------------------------
(***************************************************************************)
(* The TCP transport of an OpenVPN session (engine/src/openvpn/link.rs):   *)
(* length-prefixed packets queued behind a socket that takes some bytes at *)
(* a time, stale real-time packets shed from the queue, and the reader     *)
(* that cuts packets off the front of the stream.                          *)
(*                                                                         *)
(* A frame is its number, length and urgency.  The two length bytes and    *)
(* each byte of a body are places of the frame; the reader believes the    *)
(* first place it sees.  Time is one step: what is queued when it passes   *)
(* has waited longer than MAX_OUTBOUND_AGE.                                *)
(***************************************************************************)
EXTENDS Integers, Sequences, FiniteSets, SequencesExt, FiniteSetsExt

CONSTANTS
  MaxFrames,            \* bound on the packets sent
  Lengths,              \* lengths of a packet
  MAX_OUTBOUND_BYTES,
  SocketRoom            \* what the socket and the network hold

VARIABLES
  sent,          \* number of packets sent
  outbound,      \* queue of [frame, stale]
  written,       \* how much of the head is on the wire
  queued_bytes,
  wire,          \* bytes the socket took and the reader has not read
  pending,       \* bytes read that are not a whole packet yet
  received,      \* packets handed to the reader's caller
  broken         \* an error ended the link

linkVars == <<sent, outbound, written, queued_bytes, wire, pending, received, broken>>

Framed(f) == 2 + f.length
BytesOf(f) == [i \in 1..Framed(f) |-> [frame |-> f, place |-> i]]

-----------------------------------------------------------------------------

(* Mutant: the head is not spared although the reader has begun to see it. *)
shed_cuts_committed(queue, done, bytes) ==
  FoldLeft(LAMBDA acc, entry :
             IF entry.frame.realtime /\ (entry.stale \/ acc.bytes > MAX_OUTBOUND_BYTES)
             THEN [acc EXCEPT !.bytes = @ - Framed(entry.frame)]
             ELSE [acc EXCEPT !.queue = Append(@, entry)],
           [queue |-> <<>>, bytes |-> bytes], queue)

shed(queue, done, bytes) ==
  LET spared == IF done > 0 THEN 1 ELSE 0
  IN FoldLeft(LAMBDA acc, entry :
                IF entry.frame.realtime /\ (entry.stale \/ acc.bytes > MAX_OUTBOUND_BYTES)
                THEN [acc EXCEPT !.bytes = @ - Framed(entry.frame)]
                ELSE [acc EXCEPT !.queue = Append(@, entry)],
              [queue |-> SubSeq(queue, 1, spared), bytes |-> bytes],
              SubSeq(queue, spared + 1, Len(queue)))

(* The bytes of a queue that are still to be written.                      *)
Unwritten(queue, done) ==
  LET all == FlattenSeq([i \in DOMAIN queue |-> BytesOf(queue[i].frame)])
  IN SubSeq(all, done + 1, Len(all))

(* The socket takes `count` bytes; a packet leaves the queue with its last *)
(* byte, and the offset into the next one is kept.                         *)
write_queued(queue, done, bytes, count) ==
  LET taken == SubSeq(Unwritten(queue, done), 1, count)
      whole == {i \in DOMAIN queue : \E b \in ToSet(taken) :
                  b.frame = queue[i].frame /\ b.place = Framed(b.frame)}
      rest == SubSeq(queue, Cardinality(whole) + 1, Len(queue))
      onHead == IF rest = <<>> THEN {}
                ELSE {b \in ToSet(taken) : b.frame = rest[1].frame}
  IN /\ wire' = wire \o taken
     /\ outbound' = rest
     /\ queued_bytes' = bytes - count
     /\ written' = IF rest = <<>> THEN 0
                   ELSE Cardinality(onHead) + (IF whole = {} THEN done ELSE 0)

flush_outbound(queue, done, bytes) ==
  LET kept == shed(queue, done, bytes)
  IN \E count \in 0..Min({SocketRoom - Len(wire), Len(Unwritten(kept.queue, done))}) :
       write_queued(kept.queue, done, kept.bytes, count)

Fail ==
  /\ broken' = TRUE
  /\ outbound' = <<>> /\ written' = 0 /\ queued_bytes' = 0
  /\ wire' = <<>> /\ pending' = <<>>

(* send: the packet is framed and queued; real-time packets make room when *)
(* the queue is over its budget, and if that is not enough the link fails. *)
Send(length, realtime) ==
  /\ ~broken /\ sent < MaxFrames
  /\ sent' = sent + 1
  /\ LET frame == [id |-> sent + 1, length |-> length, realtime |-> realtime]
         queue == Append(outbound, [frame |-> frame, stale |-> FALSE])
         bytes == queued_bytes + Framed(frame)
         room == IF bytes > MAX_OUTBOUND_BYTES THEN shed(queue, written, bytes)
                 ELSE [queue |-> queue, bytes |-> bytes]
     IN IF room.bytes > MAX_OUTBOUND_BYTES
        THEN Fail
        ELSE /\ flush_outbound(room.queue, written, room.bytes)
             /\ UNCHANGED <<pending, broken>>
  /\ UNCHANGED received

(* Once per pass of the session loop.                                      *)
FlushOutbound ==
  /\ ~broken /\ outbound # <<>>
  /\ UNCHANGED <<sent, pending, received, broken>>
  /\ flush_outbound(outbound, written, queued_bytes)

(* The connection is lost, on a write or on a read.                        *)
LinkError ==
  /\ ~broken /\ Fail
  /\ UNCHANGED <<sent, received>>

Age ==
  /\ ~broken /\ \E i \in DOMAIN outbound : ~outbound[i].stale
  /\ outbound' = [i \in DOMAIN outbound |-> [outbound[i] EXCEPT !.stale = TRUE]]
  /\ UNCHANGED <<sent, written, queued_bytes, wire, pending, received, broken>>

-----------------------------------------------------------------------------

(* The packet at the front of the bytes, if it is all there.               *)
take_framed(bytes) ==
  IF Len(bytes) < 2 \/ Len(bytes) < Framed(bytes[1].frame)
  THEN [packet |-> <<>>, rest |-> bytes]
  ELSE LET n == Framed(bytes[1].frame)
       IN [packet |-> <<SubSeq(bytes, 1, n)>>, rest |-> SubSeq(bytes, n + 1, Len(bytes))]

(* A packet already here is returned without reading; else one read, of    *)
(* however much there is, and another look.                                *)
Receive ==
  /\ ~broken
  /\ LET ready == take_framed(pending)
     IN \E count \in IF ready.packet # <<>> THEN {0} ELSE 1..Len(wire) :
          LET r == take_framed(pending \o SubSeq(wire, 1, count))
          IN /\ pending' = r.rest /\ received' = received \o r.packet
             /\ wire' = SubSeq(wire, count + 1, Len(wire))
  /\ UNCHANGED <<sent, outbound, written, queued_bytes, broken>>

-----------------------------------------------------------------------------

LinkInit ==
  /\ sent = 0 /\ outbound = <<>> /\ written = 0 /\ queued_bytes = 0
  /\ wire = <<>> /\ pending = <<>> /\ received = <<>> /\ broken = FALSE

LinkNext ==
  \/ \E length \in Lengths, realtime \in BOOLEAN : Send(length, realtime)
  \/ FlushOutbound \/ LinkError \/ Age \/ Receive

LinkSpec == LinkInit /\ [][LinkNext]_linkVars

-----------------------------------------------------------------------------

(* The packets under way, and those that arrived; one cut wrongly is none  *)
(* that was sent.                                                          *)
AsPacket(f) == [name |-> f.id, realtime |-> f.realtime]
UnderWay ==
  LET all == {b.frame : b \in ToSet(pending) \cup ToSet(wire)} \cup
             {entry.frame : entry \in ToSet(outbound)}
      ordered == SetToSortSeq(all, LAMBDA f, g : f.id < g.id)
  IN [i \in DOMAIN ordered |-> AsPacket(ordered[i])]
Arrived ==
  [i \in DOMAIN received |->
     IF received[i] = BytesOf(received[i][1].frame) THEN AsPacket(received[i][1].frame)
     ELSE [name |-> 0, realtime |-> FALSE]]

Stream == INSTANCE FrameStream WITH Name <- 1..MaxFrames, transit <- UnderWay, arrived <- Arrived

(* The running total is what is really unwritten, within its budget.       *)
BudgetIsKept ==
  /\ queued_bytes =
       FoldLeft(LAMBDA n, entry : n + Framed(entry.frame), 0, outbound) - written
  /\ queued_bytes <= MAX_OUTBOUND_BYTES
  /\ outbound = <<>> => written = 0

(* However the socket cuts the bytes up, and whatever is shed meanwhile,   *)
(* the link implements a packet stream: packets arrive whole and in order, *)
(* and none but real-time ones go missing while it lasts ("removing a      *)
(* packet the reader has begun to see would desynchronise it permanently", *)
(* link.rs); its queue is counted right, and over budget after no call     *)
(* ("Only control traffic, which is never shed, can still be over budget   *)
(* here").                                                                 *)
LinkIsAStream ==
  /\ Stream!StreamSpec
  /\ [][linkVars' # linkVars => BudgetIsKept']_linkVars
=============================================================================
