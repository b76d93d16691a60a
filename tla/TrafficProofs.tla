---------------------------- MODULE TrafficProofs ----------------------------
(***************************************************************************)
(* Promises of parts traffic passes, for every number of callers, every    *)
(* buffer size and every window: the flush of the resolver cache           *)
(* (NameLookups), one relayed connection of the LAN proxy (LanProxy) and   *)
(* the OpenVPN data channel (OpenVpnData).                                 *)
(***************************************************************************)
EXTENDS NameLookups, LanProxy, OpenVpnData, FiniteSetTheorems, TLAPS

-----------------------------------------------------------------------------
(* flush_dns_cache.  RUNNING belongs to one holder: a caller about to      *)
(* start the thread, or the thread until it gives the flag back.           *)

Places == {"look", "flush", "release", "recheck", "reclaim"}
Holding == {"look", "flush", "release"}
Holds(a) ==
  yAsker[a] \in {"spawning", "unspawned"} \/ \E x \in Holding : <<a, x>> \in yThreads

FlushTypes ==
  /\ yRunning \in BOOLEAN /\ yAgain \in BOOLEAN /\ yOwed \subseteq Askers
  /\ yThreads \subseteq Askers \X Places
  /\ yAsker \in [Askers -> {"fresh", "asked", "spawning", "unspawned", "done"}]
  /\ yUnspawned \in Nat

(* A caller starts one thread, as the last thing it does.                  *)
OneThreadEach ==
  \A a \in Askers : \A x \in Places : <<a, x>> \in yThreads =>
    yAsker[a] = "done" /\ \A y \in Places : <<a, y>> \in yThreads => x = y

OneHolder ==
  /\ \A a, b \in Askers : Holds(a) /\ Holds(b) => a = b
  /\ yRunning <=> \E a \in Askers : Holds(a)

(* What is owed is still announced by AGAIN or being flushed, and AGAIN is *)
(* still to be looked at by someone.                                       *)
NothingForgotten ==
  yUnspawned = 0 =>
    /\ \A a \in Askers : yAsker[a] # "unspawned"
    /\ yOwed # {} => yAgain \/ \E a \in Askers : <<a, "flush">> \in yThreads
    /\ yAgain => \/ \E a \in Askers : yAsker[a] \in {"asked", "spawning"}
                 \/ \E a \in Askers : \E x \in Places : <<a, x>> \in yThreads

FlushInv == FlushTypes /\ OneThreadEach /\ OneHolder /\ NothingForgotten

(* A flush once asked for is kept in mind through every step of every      *)
(* caller and thread.                                                      *)
LEMMA FlushStep == FlushInv /\ [YNext]_yVars => FlushInv'
  <1> SUFFICES ASSUME FlushInv, [YNext]_yVars PROVE FlushInv'
    BY Zenon
  <1> USE DEF FlushInv, Places, Holding
  <1>1. CASE UNCHANGED yVars
    BY Zenon, <1>1 DEF FlushTypes, OneThreadEach, OneHolder, NothingForgotten, Holds, yVars
  <1>2. ASSUME NEW a \in Askers, Ask(a) PROVE FlushInv'
    <2>1. FlushTypes'
      BY Zenon, <1>2 DEF FlushTypes, Ask
    <2>2. OneThreadEach'
      BY Zenon, <1>2 DEF FlushTypes, OneThreadEach, Ask
    <2>3. OneHolder'
      BY ZenonT(60), <1>2 DEF FlushTypes, OneThreadEach, OneHolder, Holds, Ask
    <2>4. NothingForgotten'
      BY Zenon, <1>2 DEF FlushTypes, OneThreadEach, OneHolder, NothingForgotten, Holds, Ask
    <2> QED BY Zenon, <2>1, <2>2, <2>3, <2>4
  <1>3. ASSUME NEW a \in Askers, Claim(a) PROVE FlushInv'
    <2>1. FlushTypes'
      BY Zenon, <1>3 DEF FlushTypes, Claim
    <2>2. OneThreadEach'
      BY Zenon, <1>3 DEF FlushTypes, OneThreadEach, Claim
    <2>3. OneHolder'
      BY Zenon, <1>3 DEF FlushTypes, OneThreadEach, OneHolder, Holds, Claim
    <2>4. NothingForgotten'
      BY Zenon, <1>3 DEF FlushTypes, OneThreadEach, OneHolder, NothingForgotten, Holds, Claim
    <2> QED BY Zenon, <2>1, <2>2, <2>3, <2>4
  <1>4. ASSUME NEW a \in Askers, Spawn(a) PROVE FlushInv'
    <2>1. FlushTypes'
      BY <1>4 DEF FlushTypes, Spawn
    <2>2. OneThreadEach'
      BY <1>4 DEF FlushTypes, OneThreadEach, Spawn
    <2>3. OneHolder'
      BY Zenon, <1>4 DEF FlushTypes, OneThreadEach, OneHolder, Holds, Spawn
    <2>4. NothingForgotten'
      <3>1. CASE yUnspawned' = yUnspawned
        <4>1. yThreads' = yThreads \cup {<<a, "look">>} /\ yAsker' = [yAsker EXCEPT ![a] = "done"]
          BY <1>4, <3>1 DEF FlushTypes, Spawn
        <4>2. <<a, "look">> \in yThreads' /\ "look" \in Places
          BY Zenon, <4>1
        <4> QED BY Zenon, <1>4, <3>1, <4>1, <4>2 DEF FlushTypes, NothingForgotten, Spawn
      <3>2. CASE yUnspawned' = yUnspawned + 1
        BY <3>2 DEF FlushTypes, NothingForgotten
      <3> QED BY Zenon, <1>4, <3>1, <3>2 DEF Spawn
    <2> QED BY Zenon, <2>1, <2>2, <2>3, <2>4
  <1>5. ASSUME NEW a \in Askers, Unclaim(a) PROVE FlushInv'
    <2>1. FlushTypes'
      BY Zenon, <1>5 DEF FlushTypes, Unclaim
    <2>2. OneThreadEach'
      BY Zenon, <1>5 DEF FlushTypes, OneThreadEach, Unclaim
    <2>3. OneHolder'
      BY Zenon, <1>5 DEF FlushTypes, OneThreadEach, OneHolder, Holds, Unclaim
    <2>4. NothingForgotten'
      BY Zenon, <1>5 DEF FlushTypes, OneThreadEach, OneHolder, NothingForgotten, Holds, Unclaim
    <2> QED BY Zenon, <2>1, <2>2, <2>3, <2>4
  <1>6. ASSUME NEW a \in Askers, Look(a) PROVE FlushInv'
    <2>1. FlushTypes'
      <3>1. yThreads' \subseteq Askers \X Places
        BY <1>6 DEF FlushTypes, Look, Move
      <3> QED BY Zenon, <1>6, <3>1 DEF FlushTypes, Look
    <2>2. OneThreadEach'
      BY Zenon, <1>6 DEF FlushTypes, OneThreadEach, Look, Move
    <2>3. OneHolder'
      BY Zenon, <1>6 DEF FlushTypes, OneThreadEach, OneHolder, Holds, Look, Move
    <2>4. NothingForgotten'
      BY Zenon, <1>6 DEF FlushTypes, OneThreadEach, OneHolder, NothingForgotten, Holds, Look, Move
    <2> QED BY Zenon, <2>1, <2>2, <2>3, <2>4
  <1>7. ASSUME NEW a \in Askers, Flush(a) PROVE FlushInv'
    <2>1. FlushTypes'
      BY <1>7 DEF FlushTypes, Flush, Move
    <2>2. OneThreadEach'
      BY Zenon, <1>7 DEF FlushTypes, OneThreadEach, Flush, Move
    <2>3. OneHolder'
      BY Zenon, <1>7 DEF FlushTypes, OneThreadEach, OneHolder, Holds, Flush, Move
    <2>4. NothingForgotten'
      BY Zenon, <1>7 DEF FlushTypes, OneThreadEach, OneHolder, NothingForgotten, Holds, Flush, Move
    <2> QED BY Zenon, <2>1, <2>2, <2>3, <2>4
  <1>8. ASSUME NEW a \in Askers, Release2(a) PROVE FlushInv'
    <2>1. FlushTypes'
      <3>1. yThreads' \subseteq Askers \X Places
        BY <1>8 DEF FlushTypes, Release2, Move
      <3> QED BY Zenon, <1>8, <3>1 DEF FlushTypes, Release2
    <2>2. OneThreadEach'
      BY Zenon, <1>8 DEF FlushTypes, OneThreadEach, Release2, Move
    <2>3. OneHolder'
      BY Zenon, <1>8 DEF FlushTypes, OneThreadEach, OneHolder, Holds, Release2, Move
    <2>4. NothingForgotten'
      BY Zenon, <1>8 DEF FlushTypes, OneThreadEach, OneHolder, NothingForgotten, Holds, Release2, Move
    <2> QED BY Zenon, <2>1, <2>2, <2>3, <2>4
  <1>9. ASSUME NEW a \in Askers, Recheck(a) PROVE FlushInv'
    <2>1. FlushTypes'
      BY <1>9 DEF FlushTypes, Recheck, Move
    <2>2. OneThreadEach'
      BY <1>9 DEF FlushTypes, OneThreadEach, Recheck, Move
    <2>3. OneHolder'
      <3>1. \A b \in Askers : Holds(b)' <=> Holds(b)
        BY <1>9 DEF Holds, Recheck, Move
      <3> QED BY Zenon, <1>9, <3>1 DEF OneHolder, Recheck
    <2>4. NothingForgotten'
      BY Zenon, <1>9 DEF FlushTypes, OneThreadEach, OneHolder, NothingForgotten, Holds, Recheck, Move
    <2> QED BY Zenon, <2>1, <2>2, <2>3, <2>4
  <1>10. ASSUME NEW a \in Askers, Reclaim(a) PROVE FlushInv'
    <2>1. FlushTypes'
      BY <1>10 DEF FlushTypes, Reclaim, Move
    <2>2. OneThreadEach'
      BY <1>10 DEF FlushTypes, OneThreadEach, Reclaim, Move
    <2>3. OneHolder'
      BY ZenonT(60), <1>10 DEF FlushTypes, OneThreadEach, OneHolder, Holds, Reclaim, Move
    <2>4. NothingForgotten'
      BY Zenon, <1>10 DEF FlushTypes, OneThreadEach, OneHolder, NothingForgotten, Holds, Reclaim, Move
    <2> QED BY Zenon, <2>1, <2>2, <2>3, <2>4
  <1> QED BY Zenon, <1>1, <1>2, <1>3, <1>4, <1>5, <1>6, <1>7, <1>8, <1>9, <1>10 DEF YNext

LEMMA FlushInvIsEnough == FlushInv => FlushesAreKept
  <1> SUFFICES ASSUME FlushInv PROVE FlushesAreKept
    BY Zenon
  <1> DEFINE H == {t \in yThreads : t[2] \in {"look", "flush", "release"}}
  <1>1. ASSUME NEW t \in H, NEW u \in H PROVE t = u
    <2>1. PICK a \in Askers, x \in Places : t = <<a, x>>
      BY DEF FlushInv, FlushTypes
    <2>2. PICK b \in Askers, y \in Places : u = <<b, y>>
      BY DEF FlushInv, FlushTypes
    <2>3. Holds(a) /\ Holds(b)
      BY Zenon, <2>1, <2>2 DEF Holds, Holding
    <2> QED BY Zenon, <2>1, <2>2, <2>3 DEF FlushInv, OneHolder, OneThreadEach
  <1>2. Cardinality(H) <= 1
    <2> HIDE DEF H
    <2>1. CASE H = {}
      BY <2>1, FS_EmptySet
    <2>2. CASE H # {}
      <3>1. PICK t \in H : H = {t}
        BY Zenon, <1>1, <2>2
      <3>2. Cardinality({t}) = 1
        BY Zenon, FS_Singleton
      <3> QED BY <3>1, <3>2
    <2> QED BY Zenon, <2>1, <2>2
  <1>3. ASSUME \A a \in Askers : yAsker[a] \in {"fresh", "done"}, yThreads = {}, yUnspawned = 0
        PROVE  yOwed = {} /\ ~yRunning
    BY Zenon, <1>3 DEF FlushInv, FlushTypes, OneHolder, NothingForgotten, Holds
  <1>4. YTypeOK
    BY Zenon DEF YTypeOK, FlushInv, FlushTypes, Places
  <1> QED BY Zenon, <1>2, <1>3, <1>4 DEF FlushesAreKept

(* "A flush asked for while one runs is done again once it returns"        *)
(* (netconfig.rs, flush_dns_cache): whatever threads ask, however often    *)
(* the flags change hands, a request is never lost between the last look   *)
(* and the end of the flushing thread, and two threads never flush at once.*)
THEOREM FlushesAreKeptAlways == YSpec => []FlushesAreKept
  <1>1. YInit => FlushInv
    <2> SUFFICES ASSUME YInit PROVE FlushInv
      BY Zenon
    <2>1. FlushTypes
      BY Zenon DEF YInit, FlushTypes
    <2>2. OneThreadEach /\ OneHolder
      BY Zenon DEF YInit, OneThreadEach, OneHolder, Holds
    <2>3. NothingForgotten
      BY Zenon DEF YInit, NothingForgotten
    <2> QED BY Zenon, <2>1, <2>2, <2>3 DEF FlushInv
  <1> QED BY <1>1, FlushStep, FlushInvIsEnough, PTL DEF YSpec

-----------------------------------------------------------------------------
(* One relayed connection of the LAN proxy.                                *)

Connections == [input : Nat, backlog : Nat, client_done : BOOLEAN, upstream_shut : BOOLEAN,
                client_shut : BOOLEAN, finished : BOOLEAN]

RelayRecords ==
  /\ turn \in {"advance", "deliver"} /\ egress \in {"tunnel", "interface"}
  /\ device \in [sent : Nat, unread : Nat, ended : BOOLEAN, gone : BOOLEAN, got : Nat]
  /\ connection \in Connections
  /\ upstream \in [queued : Nat, received : Nat, ended : BOOLEAN, seen : BOOLEAN, failed : BOOLEAN]
  /\ remote \in [sent : Nat, got : Nat]

(* What is done stays done: a client whose end was read has nothing more   *)
(* to send, a flow whose end was seen nothing more to give.                *)
EndsAreFinal ==
  /\ connection.client_done => device.ended /\ device.unread = 0
  /\ upstream.seen => upstream.ended /\ upstream.received = 0
  /\ egress = "interface" /\ connection.client_shut /\ ~upstream.failed => upstream.seen

RelayInv == RelayRecords /\ EndsFollowData /\ EndsAreFinal

(* A whole number of chunks covers the room left by less than one chunk.   *)
LEMMA ChunksFit ==
    ASSUME NEW room \in Nat
    PROVE  /\ ((room + READ_CHUNK - 1) \div READ_CHUNK) * READ_CHUNK \in Nat
           /\ ((room + READ_CHUNK - 1) \div READ_CHUNK) * READ_CHUNK <= room + READ_CHUNK - 1
  <1> DEFINE q == (room + READ_CHUNK - 1) \div READ_CHUNK
             r == (room + READ_CHUNK - 1) % READ_CHUNK
  <1>1. room + READ_CHUNK - 1 \in Nat /\ READ_CHUNK \in Nat /\ READ_CHUNK > 0
    BY RelayAssumption
  <1>2. q \in Nat /\ r \in Nat /\ room + READ_CHUNK - 1 = READ_CHUNK * q + r
    BY <1>1
  <1> QED BY <1>1, <1>2

(* What deliver takes from the flow is there and fits the backlog.         *)
LEMMA ReceivedFits ==
    ASSUME RelayInv
    PROVE  LET n == Received(upstream, connection) IN
           /\ n \in Nat /\ n <= upstream.received
           /\ connection.backlog + n <= CLIENT_BACKLOG + READ_CHUNK - 1
           /\ upstream.seen => n = 0
  <1>1. CASE connection.backlog >= CLIENT_BACKLOG \/ upstream.seen
    BY <1>1, RelayAssumption DEF RelayInv, RelayRecords, EndsFollowData, RelayTypeOK, Received, Connections
  <1>2. CASE ~(connection.backlog >= CLIENT_BACKLOG \/ upstream.seen)
    <2> DEFINE room == CLIENT_BACKLOG - connection.backlog
               most == ((room + READ_CHUNK - 1) \div READ_CHUNK) * READ_CHUNK
    <2>1. room \in Nat /\ connection.backlog \in Nat /\ upstream.received \in Nat
      BY <1>2, RelayAssumption DEF RelayInv, RelayRecords, Connections
    <2>2. most \in Nat /\ most <= room + READ_CHUNK - 1
      BY Zenon, <2>1, ChunksFit
    <2>3. Received(upstream, connection) = Least(upstream.received, most)
      BY Zenon, <1>2 DEF Received
    <2> HIDE DEF most
    <2> QED BY SMTT(30), <1>2, <2>1, <2>2, <2>3, RelayAssumption DEF Least
  <1> QED BY Zenon, <1>1, <1>2

(* The step of a relay's advance, field by field: with m pieces read from  *)
(* the device and k of what is at hand taken by the flow.                  *)
LEMMA AdvanceStep ==
    ASSUME RelayInv, relay_advance, ~(connection'.finished)
    PROVE  /\ RelayRecords'
           /\ \E m, k \in Nat :
                /\ m <= device.unread /\ k <= connection.input + m
                /\ connection.input + m <= READ_CHUNK
                /\ upstream.queued + k <= SendBuffer
                /\ device' = [device EXCEPT !.unread = @ - m]
                /\ upstream' = [upstream EXCEPT !.queued = @ + k]
                /\ connection'.input = connection.input + m - k
                /\ connection'.client_done => device.ended /\ m = device.unread
                /\ connection'.upstream_shut
                     => connection'.client_done /\ (connection.upstream_shut \/ connection'.input = 0)
                /\ connection.client_done => connection'.client_done /\ m = 0
           /\ connection'.backlog = connection.backlog
           /\ connection'.client_shut = connection.client_shut
           /\ connection'.finished = connection.finished
  <1> DEFINE c == IF connection.input = 0 /\ ~connection.client_done
                  THEN read_client(connection) ELSE connection
             d == relay_step(c, upstream)
             m == c.input - connection.input
             k == c.input - d.input
  <1>1. /\ connection' = d
        /\ device' = [device EXCEPT !.unread = @ - m]
        /\ upstream' = [upstream EXCEPT !.queued = @ + k]
        /\ turn' \in {"advance", "deliver"} /\ UNCHANGED <<egress, remote>>
    BY Zenon DEF relay_advance, RelayInv, RelayRecords, Connections
  <1>2. /\ c \in Connections
        /\ m \in Nat /\ m <= device.unread /\ c.input = connection.input + m /\ c.input <= READ_CHUNK
        /\ connection.client_done => c.client_done /\ m = 0
        /\ c.client_done => device.ended /\ m = device.unread
        /\ c.backlog = connection.backlog /\ c.client_shut = connection.client_shut
        /\ c.finished = connection.finished /\ c.upstream_shut = connection.upstream_shut
    <2>1. CASE connection.input = 0 /\ ~connection.client_done
      <3> DEFINE n == Least(READ_CHUNK - connection.input, device.unread)
                 i == connection.input + n
                 b == device.ended /\ n = device.unread /\ connection.input + n < READ_CHUNK
      <3>1. c = [connection EXCEPT !.input = i, !.client_done = b]
        BY Zenon, <2>1 DEF read_client
      <3>2. n \in Nat /\ n <= device.unread /\ n <= READ_CHUNK /\ i \in Nat /\ i = n
        BY <2>1, RelayAssumption DEF RelayInv, RelayRecords, Least, Connections
      <3>3. b \in BOOLEAN /\ (b => device.ended /\ n = device.unread)
        BY Zenon
      <3> HIDE DEF c, n, b, i
      <3>4. /\ c \in Connections /\ c.input = i /\ c.client_done = b
            /\ c.backlog = connection.backlog /\ c.client_shut = connection.client_shut
            /\ c.finished = connection.finished /\ c.upstream_shut = connection.upstream_shut
        <4>1. connection \in Connections /\ i \in Nat /\ b \in BOOLEAN
          BY Zenon, <3>2, <3>3 DEF RelayInv, RelayRecords
        <4> QED BY Zenon, <3>1, <4>1 DEF Connections
      <3> QED BY <2>1, <3>2, <3>3, <3>4 DEF RelayInv, RelayRecords, Connections
    <2>2. CASE ~(connection.input = 0 /\ ~connection.client_done)
      BY <2>2 DEF RelayInv, RelayRecords, EndsFollowData, RelayTypeOK, EndsAreFinal, Connections
    <2> QED BY Zenon, <2>1, <2>2
  <1> HIDE DEF c
  <1>3. /\ d \in Connections
        /\ k \in Nat /\ k <= c.input /\ upstream.queued + k <= SendBuffer /\ d.input = c.input - k
        /\ d.upstream_shut = (c.upstream_shut \/ (c.input = k /\ c.client_done))
        /\ d.client_done = c.client_done /\ d.backlog = c.backlog /\ d.client_shut = c.client_shut
        /\ d.finished = c.finished
    <2> DEFINE n == tcp_send(upstream, c.input)
               i == c.input - n
               b == c.upstream_shut \/ (c.input = n /\ c.client_done)
    <2>1. d = [c EXCEPT !.input = i, !.upstream_shut = b]
      BY Zenon DEF relay_step
    <2>2. n \in Nat /\ n <= c.input /\ upstream.queued + n <= SendBuffer /\ i \in Nat /\ i = c.input - n
      <3>1. c.input \in Nat /\ upstream.queued \in Nat /\ upstream.queued <= SendBuffer /\ SendBuffer \in Nat
        BY <1>2, RelayAssumption DEF RelayInv, RelayRecords, EndsFollowData, RelayTypeOK, Connections
      <3>2. n = 0 \/ n = Least(c.input, SendBuffer - upstream.queued)
        BY Zenon DEF tcp_send
      <3> HIDE DEF n
      <3> QED BY <3>1, <3>2 DEF Least
    <2>3. b \in BOOLEAN /\ b = (c.upstream_shut \/ (c.input = n /\ c.client_done))
      BY Zenon, <1>2 DEF Connections
    <2> HIDE DEF d, n, b, i
    <2>4. d \in Connections /\ d.input = i /\ d.upstream_shut = b
          /\ d.client_done = c.client_done /\ d.backlog = c.backlog /\ d.client_shut = c.client_shut
          /\ d.finished = c.finished
      <3>1. c \in Connections /\ i \in Nat /\ b \in BOOLEAN
        BY Zenon, <1>2, <2>2, <2>3
      <3> QED BY Zenon, <2>1, <3>1 DEF Connections
    <2>5. k = n
      BY <1>2, <2>2, <2>4 DEF Connections
    <2> QED BY Zenon, <1>2, <2>2, <2>3, <2>4, <2>5
  <1> HIDE DEF d, m, k
  <1>4. connection.upstream_shut => connection.client_done
    BY Zenon DEF RelayInv, EndsFollowData
  <1>5. RelayRecords'
    <2>1. device' \in [sent : Nat, unread : Nat, ended : BOOLEAN, gone : BOOLEAN, got : Nat]
      BY <1>1, <1>2 DEF RelayInv, RelayRecords
    <2>2. upstream' \in [queued : Nat, received : Nat, ended : BOOLEAN, seen : BOOLEAN, failed : BOOLEAN]
      BY <1>1, <1>3 DEF RelayInv, RelayRecords
    <2> QED BY Zenon, <1>1, <1>3, <2>1, <2>2 DEF RelayInv, RelayRecords
  <1>6. \E x, y \in Nat :
          /\ x <= device.unread /\ y <= connection.input + x
          /\ connection.input + x <= READ_CHUNK
          /\ upstream.queued + y <= SendBuffer
          /\ device' = [device EXCEPT !.unread = @ - x]
          /\ upstream' = [upstream EXCEPT !.queued = @ + y]
          /\ connection'.input = connection.input + x - y
          /\ connection'.client_done => device.ended /\ x = device.unread
          /\ connection'.upstream_shut
               => connection'.client_done /\ (connection.upstream_shut \/ connection'.input = 0)
          /\ connection.client_done => connection'.client_done /\ x = 0
    <2>0. m \in Nat /\ k \in Nat /\ connection.input \in Nat
      BY Zenon, <1>2, <1>3 DEF RelayInv, RelayRecords, Connections
    <2> USE <2>0
    <2> WITNESS m \in Nat, k \in Nat
    <2>1. connection'.input = connection.input + m - k /\ (c.input = k => connection'.input = 0)
      BY <1>1, <1>2, <1>3, <2>0
    <2>2. connection'.client_done = c.client_done
          /\ connection'.upstream_shut = (connection.upstream_shut \/ (c.input = k /\ c.client_done))
      BY Zenon, <1>1, <1>2, <1>3
    <2>3. m <= device.unread /\ k <= connection.input + m /\ connection.input + m <= READ_CHUNK
          /\ upstream.queued + k <= SendBuffer
      BY Zenon, <1>2, <1>3
    <2> QED BY Zenon, <1>1, <1>2, <1>4, <2>1, <2>2, <2>3
  <1>7. connection'.backlog = connection.backlog /\ connection'.client_shut = connection.client_shut
        /\ connection'.finished = connection.finished
    BY Zenon, <1>1, <1>2, <1>3
  <1> QED BY Zenon, <1>5, <1>6, <1>7

(* The facts of RelayInv about one state, over Nat.                        *)
LEMMA RelayFacts ==
    ASSUME RelayInv
    PROVE  /\ device.sent \in Nat /\ device.unread \in Nat /\ device.got \in Nat
           /\ connection.input \in Nat /\ connection.backlog \in Nat
           /\ upstream.queued \in Nat /\ upstream.received \in Nat
           /\ remote.sent \in Nat /\ remote.got \in Nat
           /\ READ_CHUNK \in Nat \ {0} /\ CLIENT_BACKLOG \in Nat \ {0}
           /\ SendBuffer \in Nat /\ ReceiveBuffer \in Nat
  BY Zenon, RelayAssumption DEF RelayInv, RelayRecords, Connections

LEMMA AdvanceKeeps == RelayInv /\ relay_advance => RelayInv'
  <1> SUFFICES ASSUME RelayInv, relay_advance PROVE RelayInv'
    BY Zenon
  <1>1. CASE connection'.finished
    <2>1. /\ connection' = [connection EXCEPT !.finished = TRUE] /\ device.gone
          /\ UNCHANGED <<device, upstream, turn, egress, remote>>
      <3> DEFINE c == IF connection.input = 0 /\ ~connection.client_done
                      THEN read_client(connection) ELSE connection
      <3>1. relay_step(c, upstream).finished = c.finished /\ c.finished = connection.finished
        BY Zenon DEF relay_step, read_client, RelayInv, RelayRecords, Connections
      <3>2. ~connection.finished
        BY Zenon DEF relay_advance
      <3>3. connection' # relay_step(c, upstream)
        BY Zenon, <1>1, <3>1, <3>2
      <3> HIDE DEF c
      <3> QED BY Zenon, <3>3 DEF relay_advance, c
    <2>2. RelayRecords'
      BY Zenon, <2>1 DEF RelayInv, RelayRecords, Connections
    <2>3. EndsFollowData'
      BY Zenon, <2>1 DEF RelayInv, RelayRecords, Connections, EndsFollowData, RelayTypeOK
    <2>4. EndsAreFinal'
      BY Zenon, <2>1 DEF RelayInv, RelayRecords, Connections, EndsAreFinal
    <2> QED BY Zenon, <2>2, <2>3, <2>4 DEF RelayInv
  <1>2. CASE ~(connection'.finished)
    <2>1. RelayRecords' /\ UNCHANGED <<egress, remote>>
      BY Zenon, <1>2, AdvanceStep DEF relay_advance
    <2>2. PICK m \in Nat, k \in Nat :
            /\ m <= device.unread /\ k <= connection.input + m
            /\ connection.input + m <= READ_CHUNK
            /\ upstream.queued + k <= SendBuffer
            /\ device' = [device EXCEPT !.unread = @ - m]
            /\ upstream' = [upstream EXCEPT !.queued = @ + k]
            /\ connection'.input = connection.input + m - k
            /\ connection'.client_done => device.ended /\ m = device.unread
            /\ connection'.upstream_shut
                 => connection'.client_done /\ (connection.upstream_shut \/ connection'.input = 0)
            /\ connection.client_done => connection'.client_done /\ m = 0
      BY Zenon, <1>2, AdvanceStep
    <2>3. /\ connection'.backlog = connection.backlog
          /\ connection'.client_shut = connection.client_shut
          /\ connection'.finished = connection.finished
      BY Zenon, <1>2, AdvanceStep
    <2>4. /\ device'.unread = device.unread - m /\ device'.sent = device.sent
          /\ device'.ended = device.ended /\ device'.gone = device.gone /\ device'.got = device.got
          /\ upstream'.queued = upstream.queued + k /\ upstream'.received = upstream.received
          /\ upstream'.ended = upstream.ended /\ upstream'.seen = upstream.seen
          /\ upstream'.failed = upstream.failed
      BY Zenon, <2>2 DEF RelayInv, RelayRecords
    <2>5. EndsAreFinal'
      BY SMTT(30), <2>1, <2>2, <2>3, <2>4, RelayFacts DEF RelayInv, EndsAreFinal
    <2>6. EndsFollowData'
      <3>1. RelayTypeOK'
        BY SMTT(30), <2>1, <2>2, <2>3, <2>4, RelayFacts DEF RelayInv, EndsFollowData, RelayTypeOK, RelayRecords
      <3>2. connection'.upstream_shut
              => connection'.client_done /\ connection'.input = 0 /\ device'.unread = 0
        BY SMTT(30), <2>2, <2>4, RelayFacts DEF RelayInv, EndsFollowData
      <3>3. device'.sent = device'.unread + connection'.input + upstream'.queued + remote'.got
        BY SMTT(30), <2>1, <2>2, <2>4, RelayFacts DEF RelayInv, EndsFollowData
      <3> QED BY Zenon, <2>1, <2>3, <2>4, <3>1, <3>2, <3>3 DEF RelayInv, EndsFollowData
    <2> QED BY Zenon, <2>1, <2>5, <2>6 DEF RelayInv
  <1> QED BY Zenon, <1>1, <1>2

LEMMA DeliverKeeps == RelayInv /\ relay_deliver => RelayInv'
  <1> SUFFICES ASSUME RelayInv, relay_deliver PROVE RelayInv'
    BY Zenon
  <1> DEFINE n == Received(upstream, connection)
             full == connection.backlog + n
             rest == upstream.received - n
             saw == upstream.seen \/ (upstream.ended /\ n = upstream.received /\ full < CLIENT_BACKLOG)
             f == [upstream EXCEPT !.received = rest, !.seen = saw]
  <1>1. n \in Nat /\ n <= upstream.received /\ full <= CLIENT_BACKLOG + READ_CHUNK - 1
        /\ (upstream.seen => n = 0) /\ full \in Nat /\ rest \in Nat
    BY ReceivedFits, RelayFacts
  <1>2. f \in [queued : Nat, received : Nat, ended : BOOLEAN, seen : BOOLEAN, failed : BOOLEAN]
        /\ f.queued = upstream.queued /\ f.received = rest /\ f.seen = saw
        /\ f.ended = upstream.ended /\ f.failed = upstream.failed
    <2>1. saw \in BOOLEAN /\ rest \in Nat
          /\ upstream \in [queued : Nat, received : Nat, ended : BOOLEAN, seen : BOOLEAN, failed : BOOLEAN]
      BY Zenon, <1>1 DEF RelayInv, RelayRecords
    <2> HIDE DEF saw, rest
    <2> QED BY Zenon, <2>1
  <1>3. saw => upstream.ended /\ rest = 0
    BY <1>1, RelayFacts DEF RelayInv, EndsAreFinal
  <1> HIDE DEF f, saw
  <1>4. /\ upstream' = f /\ turn' = "advance" /\ UNCHANGED <<egress, remote>> /\ ~connection.finished
        /\ \E written \in 0..full :
             LET left == full - written
                 shut == connection.client_shut \/ (tcp_state(f) # "Open" /\ left = 0)
                 both_done == shut /\ ((connection.client_done /\ tcp_send_idle(f)) \/ f.failed)
                 broken == written > 0 /\ (device.gone \/ connection.client_shut)
             IN /\ connection' = [connection EXCEPT !.backlog = left, !.client_shut = shut,
                                                    !.finished = both_done \/ broken]
                /\ device' = [device EXCEPT !.got = IF broken THEN @ ELSE @ + written]
    BY Zenon DEF relay_deliver, f, saw
  <1> HIDE DEF n, full, rest
  <1>5. PICK written \in 0..full :
             LET left == full - written
                 shut == connection.client_shut \/ (tcp_state(f) # "Open" /\ left = 0)
                 both_done == shut /\ ((connection.client_done /\ tcp_send_idle(f)) \/ f.failed)
                 broken == written > 0 /\ (device.gone \/ connection.client_shut)
             IN /\ connection' = [connection EXCEPT !.backlog = left, !.client_shut = shut,
                                                    !.finished = both_done \/ broken]
                /\ device' = [device EXCEPT !.got = IF broken THEN @ ELSE @ + written]
    BY Zenon, <1>4
  <1> DEFINE left == full - written
             shut == connection.client_shut \/ (tcp_state(f) # "Open" /\ left = 0)
             broken == written > 0 /\ (device.gone \/ connection.client_shut)
             ends == (shut /\ ((connection.client_done /\ tcp_send_idle(f)) \/ f.failed)) \/ broken
             got == IF broken THEN device.got ELSE device.got + written
  <1>6. connection' = [connection EXCEPT !.backlog = left, !.client_shut = shut, !.finished = ends]
        /\ device' = [device EXCEPT !.got = got]
    BY Zenon, <1>5
  <1>7. left \in Nat /\ left <= full /\ got \in Nat /\ shut \in BOOLEAN /\ ends \in BOOLEAN
        /\ (~ends => got = device.got + written) /\ written \in Nat /\ left = full - written
    BY <1>1, RelayFacts DEF RelayInv, RelayRecords, Connections
  <1>8. ends => shut \/ device.gone
    BY Zenon
  <1>9. egress = "interface" /\ shut /\ ~f.failed => saw /\ left = 0
    <2>1. CASE connection.client_shut
      <3>1. egress = "interface" /\ ~f.failed => upstream.seen /\ connection.backlog = 0
        BY Zenon, <1>2, <2>1 DEF RelayInv, EndsAreFinal, EndsFollowData
      <3> QED BY <1>1, <1>7, <3>1 DEF saw, full
    <2>2. CASE ~connection.client_shut
      BY Zenon, <1>2, <2>2 DEF tcp_state
    <2> QED BY Zenon, <2>1, <2>2
  <1> HIDE DEF left, shut, ends, got, broken
  <1>10. /\ connection' \in Connections
         /\ connection'.input = connection.input /\ connection'.client_done = connection.client_done
         /\ connection'.upstream_shut = connection.upstream_shut /\ connection'.backlog = left
         /\ connection'.client_shut = shut /\ connection'.finished = ends
    <2>1. connection \in Connections /\ left \in Nat /\ shut \in BOOLEAN /\ ends \in BOOLEAN
      BY Zenon, <1>7 DEF RelayInv, RelayRecords
    <2> QED BY Zenon, <1>6, <2>1 DEF Connections
  <1>11. /\ device' \in [sent : Nat, unread : Nat, ended : BOOLEAN, gone : BOOLEAN, got : Nat]
         /\ device'.sent = device.sent /\ device'.unread = device.unread /\ device'.ended = device.ended
         /\ device'.gone = device.gone /\ device'.got = got
    BY Zenon, <1>6, <1>7 DEF RelayInv, RelayRecords
  <1>12. RelayRecords'
    BY Zenon, <1>2, <1>4, <1>10, <1>11 DEF RelayInv, RelayRecords
  <1>13. EndsAreFinal'
    BY Zenon, <1>2, <1>3, <1>4, <1>9, <1>10, <1>11 DEF RelayInv, EndsAreFinal
  <1>14. EndsFollowData'
    <2>1. RelayTypeOK'
      BY SMTT(30), <1>1, <1>2, <1>4, <1>7, <1>10, RelayFacts DEF RelayInv, EndsFollowData, RelayTypeOK, rest
    <2>2. ~(connection'.finished) => remote'.sent = upstream'.received + connection'.backlog + device'.got
      BY SMTT(30), <1>1, <1>2, <1>4, <1>7, <1>10, <1>11, RelayFacts DEF RelayInv, EndsFollowData, rest, full
    <2>3. connection'.finished => connection'.client_shut \/ device'.gone
      BY Zenon, <1>8, <1>10, <1>11
    <2>4. egress' = "interface" /\ connection'.client_shut /\ ~(upstream'.failed)
            => connection'.backlog = 0 /\ upstream'.received = 0 /\ upstream'.ended
      BY Zenon, <1>2, <1>3, <1>4, <1>9, <1>10
    <2>5. /\ connection'.upstream_shut
               => connection'.client_done /\ connection'.input = 0 /\ device'.unread = 0
          /\ device'.sent = device'.unread + connection'.input + upstream'.queued + remote'.got
      BY Zenon, <1>2, <1>4, <1>10, <1>11 DEF RelayInv, EndsFollowData
    <2> QED BY Zenon, <2>1, <2>2, <2>3, <2>4, <2>5 DEF EndsFollowData
  <1> QED BY Zenon, <1>12, <1>13, <1>14 DEF RelayInv

(* The end of a device's stream goes upstream behind everything it sent,   *)
(* nothing in either direction is lost or repeated while the relay runs,   *)
(* and a relay ends only when the client has had the end of the answer     *)
(* (server.rs, advance and deliver), whatever the buffers' sizes.          *)
THEOREM EndsFollowDataAlways == RelaySpec => []EndsFollowData
  <1>1. RelayInit => RelayInv
    BY RelayAssumption DEF RelayInit, RelayInv, RelayRecords, Connections, EndsFollowData, RelayTypeOK,
       EndsAreFinal
  <1>2. RelayInv /\ [RelayNext]_relayVars => RelayInv'
    <2> SUFFICES ASSUME RelayInv, [RelayNext]_relayVars PROVE RelayInv'
      BY Zenon
    <2> USE RelayFacts DEF RelayInv
    <2>1. CASE UNCHANGED relayVars
      BY Zenon, <2>1 DEF relayVars, RelayRecords, EndsFollowData, RelayTypeOK, EndsAreFinal
    <2>2. CASE ClientSends
      <3>1. RelayRecords'
        <4> DEFINE i == device.sent + 1
                   j == device.unread + 1
        <4>1. i \in Nat /\ j \in Nat /\ device' = [device EXCEPT !.sent = i, !.unread = j]
          BY <2>2 DEF ClientSends
        <4> HIDE DEF i, j
        <4>2. device' \in [sent : Nat, unread : Nat, ended : BOOLEAN, gone : BOOLEAN, got : Nat]
          BY Zenon, <4>1 DEF RelayRecords
        <4> QED BY Zenon, <2>2, <4>2 DEF ClientSends, RelayRecords
      <3>2. EndsFollowData'
        BY <2>2 DEF ClientSends, RelayRecords, EndsFollowData, RelayTypeOK, EndsAreFinal
      <3>3. EndsAreFinal'
        BY Zenon, <2>2 DEF ClientSends, RelayRecords, EndsAreFinal
      <3> QED BY Zenon, <3>1, <3>2, <3>3
    <2>3. CASE ClientEnds
      <3>1. RelayRecords'
        BY Zenon, <2>3 DEF ClientEnds, RelayRecords
      <3>2. EndsFollowData'
        BY Zenon, <2>3 DEF ClientEnds, RelayRecords, EndsFollowData, RelayTypeOK, EndsAreFinal
      <3>3. EndsAreFinal'
        BY Zenon, <2>3 DEF ClientEnds, RelayRecords, EndsAreFinal
      <3> QED BY Zenon, <3>1, <3>2, <3>3
    <2>4. CASE RemoteSends
      <3>1. RelayRecords'
        BY <2>4 DEF RemoteSends, RelayRecords
      <3>2. EndsFollowData'
        BY <2>4 DEF RemoteSends, RelayRecords, EndsFollowData, RelayTypeOK, EndsAreFinal
      <3>3. EndsAreFinal'
        BY Zenon, <2>4 DEF RemoteSends, RelayRecords, EndsAreFinal
      <3> QED BY Zenon, <3>1, <3>2, <3>3
    <2>5. CASE RemoteTakes
      <3>1. RelayRecords'
        BY <2>5 DEF RemoteTakes, RelayRecords
      <3>2. EndsFollowData'
        BY <2>5 DEF RemoteTakes, RelayRecords, EndsFollowData, RelayTypeOK, EndsAreFinal
      <3>3. EndsAreFinal'
        BY Zenon, <2>5 DEF RemoteTakes, RelayRecords, EndsAreFinal
      <3> QED BY Zenon, <3>1, <3>2, <3>3
    <2>6. CASE RemoteEnds
      <3>1. RelayRecords'
        BY Zenon, <2>6 DEF RemoteEnds, RelayRecords
      <3>2. EndsFollowData'
        BY Zenon, <2>6 DEF RemoteEnds, RelayRecords, EndsFollowData, RelayTypeOK, EndsAreFinal
      <3>3. EndsAreFinal'
        BY Zenon, <2>6 DEF RemoteEnds, RelayRecords, EndsAreFinal
      <3> QED BY Zenon, <3>1, <3>2, <3>3
    <2> QED BY Zenon, <2>1, <2>2, <2>3, <2>4, <2>5, <2>6, AdvanceKeeps, DeliverKeeps DEF RelayNext
  <1>3. RelayInv => EndsFollowData
    BY Zenon DEF RelayInv
  <1> QED BY <1>1, <1>2, <1>3, PTL DEF RelaySpec

-----------------------------------------------------------------------------
(* The OpenVPN data channel.  A generation's bitmap is exact: it has a bit *)
(* for a distance exactly when the packet so far behind the newest was     *)
(* opened.  The live generations are different ones, and those to come     *)
(* have neither sealed nor opened anything, which is what lets a new       *)
(* channel start from nothing.                                             *)

DataChannels ==
  [key_id : Keys, next_packet_id : 1..MAX_ID, highest : 0..MAX_ID,
   seen : SUBSET (0..(REPLAY_BITS - 1))]

DataTypes ==
  /\ channels \in Seq(DataChannels)
  /\ sealed \in [Keys -> Nat] /\ opened \in [Keys -> SUBSET (1..MAX_ID)]
  /\ verdict \in [Keys -> [sequence : 0..MAX_ID, verdict : BOOLEAN]]

GenerationsGrow ==
  \A i, j \in DOMAIN channels : i < j => channels[i].key_id < channels[j].key_id

Exact(c, S) ==
  /\ S = {} => c.highest = 0
  /\ S # {} => c.highest \in S
  /\ \A q \in S : q <= c.highest
  /\ c.seen = {d \in 0..(REPLAY_BITS - 1) : c.highest - d \in S}

BitmapsExact ==
  \A i \in DOMAIN channels :
    /\ Exact(channels[i], opened[channels[i].key_id])
    /\ sealed[channels[i].key_id] = channels[i].next_packet_id - 1

NextAreUnused ==
  \A k \in Keys : (\A i \in DOMAIN channels : channels[i].key_id < k) =>
    opened[k] = {} /\ sealed[k] = 0

DataInv == DataTypes /\ GenerationsGrow /\ BitmapsExact /\ NextAreUnused

LEMMA ChannelFacts ==
  ASSUME NEW s \in Seq(DataChannels), NEW i \in DOMAIN s
  PROVE  /\ s[i] \in DataChannels /\ i \in Nat
         /\ s[i].key_id \in Keys /\ s[i].key_id \in Nat
  <1>1. s[i] \in DataChannels /\ i \in Nat
    OBVIOUS
  <1>2. ASSUME NEW c \in DataChannels PROVE c.key_id \in Keys
    BY Zenon DEF DataChannels
  <1> QED BY Zenon, <1>1, <1>2, DataAssumption

(* The newest packet opened is the highest the channel knows.              *)
LEMMA HighestIsNewest ==
  ASSUME NEW k \in Keys, NEW c \in DataChannels, NEW S \in SUBSET (1..MAX_ID),
         Exact(c, S), S # {}
  PROVE  PerKey(k)!Newest(S) = c.highest
  <1>1. c.highest \in S /\ \A q \in S : q <= c.highest
    BY Zenon DEF Exact
  <1>2. \A h \in S : (\A q \in S : q <= h) => h = c.highest
    BY <1>1, DataAssumption DEF DataChannels
  <1> QED BY Zenon, <1>1, <1>2 DEF PerKey!Newest

(* A packet is acceptable to the bitmap exactly when it is fresh.          *)
LEMMA AcceptsTheFresh ==
  ASSUME NEW k \in Keys, NEW c \in DataChannels, NEW S \in SUBSET (1..MAX_ID),
         Exact(c, S), NEW id \in 1..MAX_ID
  PROVE  would_accept(c, id) <=> PerKey(k)!Fresh(S, id)
  <1>1. c.highest \in 0..MAX_ID /\ id \in Nat /\ c.highest \in Nat /\ id # 0
    BY DataAssumption DEF DataChannels
  <1>2. CASE S = {}
    <2>1. c.highest = 0
      BY Zenon, <1>2 DEF Exact
    <2> QED BY <1>1, <1>2, <2>1 DEF would_accept, PerKey!Fresh
  <1>3. CASE S # {}
    <2>1. PerKey(k)!Fresh(S, id) <=> id \notin S /\ c.highest < id + REPLAY_BITS
      BY Zenon, <1>3, HighestIsNewest DEF PerKey!Fresh
    <2>2. CASE id > c.highest
      <3>1. id \notin S
        BY <1>1, <2>2 DEF Exact
      <3> QED BY SMTT(30), <1>1, <2>1, <2>2, <3>1, DataAssumption DEF would_accept
    <2>3. CASE id <= c.highest
      <3>1. PICK d \in Nat : d = c.highest - id
        BY <1>1, <2>3
      <3>2. d < REPLAY_BITS <=> c.highest < id + REPLAY_BITS
        BY <1>1, <3>1, DataAssumption
      <3>3. c.highest - d = id
        BY <1>1, <3>1
      <3>4. d < REPLAY_BITS => d \in 0..(REPLAY_BITS - 1)
        BY DataAssumption
      <3>5. d < REPLAY_BITS => (d \in c.seen <=> id \in S)
        BY Zenon, <3>3, <3>4 DEF Exact
      <3>6. would_accept(c, id) <=> d < REPLAY_BITS /\ d \notin c.seen
        BY Zenon, <1>1, <2>3, <3>1 DEF would_accept
      <3> QED BY Zenon, <2>1, <3>2, <3>5, <3>6
    <2> QED BY <1>1, <2>2, <2>3
  <1> QED BY Zenon, <1>2, <1>3

(* Accepting a packet keeps the bitmap exact: a newer one moves the bits   *)
(* by its distance, an older one sets its own.                             *)
LEMMA AcceptIsExact ==
  ASSUME NEW c \in DataChannels, NEW S \in SUBSET (1..MAX_ID), Exact(c, S), NEW id \in 1..MAX_ID
  PROVE  /\ accept(c, id) \in DataChannels
         /\ accept(c, id).key_id = c.key_id
         /\ accept(c, id).next_packet_id = c.next_packet_id
         /\ Exact(accept(c, id), IF would_accept(c, id) THEN S \cup {id} ELSE S)
  <1>0. /\ c.highest \in Nat /\ id \in Nat /\ id \in 0..MAX_ID /\ id # 0
        /\ REPLAY_BITS \in Nat \ {0}
    BY DataAssumption DEF DataChannels
  <1>1. CASE ~would_accept(c, id)
    BY Zenon, <1>1 DEF accept
  <1>2. CASE would_accept(c, id) /\ id > c.highest
    <2> DEFINE new == {0} \cup {d \in {b + id - c.highest : b \in c.seen} : d < REPLAY_BITS}
               old == {d \in 0..(REPLAY_BITS - 1) : id - d \in S \cup {id}}
    <2>1. accept(c, id) = [c EXCEPT !.highest = id, !.seen = new]
      BY Zenon, <1>2 DEF accept
    <2>2. ASSUME NEW d \in new PROVE d \in old
      <3>1. CASE d = 0
        BY <1>0, <3>1
      <3>2. CASE d # 0
        <4>1. PICK b \in c.seen : d = b + id - c.highest /\ d < REPLAY_BITS
          BY Zenon, <3>2
        <4>2. b \in 0..(REPLAY_BITS - 1) /\ c.highest - b \in S
          BY Zenon DEF Exact
        <4>3. id - d = c.highest - b /\ d \in 0..(REPLAY_BITS - 1)
          BY SMTT(30), <1>0, <1>2, <4>1, <4>2
        <4> QED BY Zenon, <4>2, <4>3
      <3> QED BY Zenon, <3>1, <3>2
    <2>3. ASSUME NEW d \in old PROVE d \in new
      <3>1. d \in 0..(REPLAY_BITS - 1) /\ id - d \in S \cup {id}
        BY Zenon
      <3>2. CASE id - d = id
        BY SMTT(30), <1>0, <3>1, <3>2
      <3>3. CASE id - d \in S
        <4>1. PICK b \in Int : b = c.highest - (id - d)
          BY <1>0, <3>1
        <4>2. c.highest - b \in S /\ d = b + id - c.highest
          BY SMTT(30), <1>0, <3>1, <3>3, <4>1
        <4>3. b >= 0 /\ b < REPLAY_BITS
          BY SMTT(30), <1>0, <1>2, <3>1, <3>3, <4>1 DEF Exact
        <4>4. b \in c.seen
          BY <1>0, <4>2, <4>3 DEF Exact
        <4> QED BY SMTT(30), <1>0, <3>1, <4>2, <4>4
      <3> QED BY Zenon, <3>1, <3>2, <3>3
    <2>4. new = old
      BY Zenon, <2>2, <2>3
    <2>5. new \in SUBSET (0..(REPLAY_BITS - 1))
      BY Zenon, <2>4
    <2> HIDE DEF new
    <2>6. /\ accept(c, id) \in DataChannels /\ accept(c, id).key_id = c.key_id
          /\ accept(c, id).next_packet_id = c.next_packet_id
          /\ accept(c, id).highest = id /\ accept(c, id).seen = new
      BY Zenon, <1>0, <2>1, <2>5 DEF DataChannels
    <2>7. \A q \in S \cup {id} : q <= id
      <3>1. \A q \in S : q \in Nat /\ q <= c.highest
        BY DataAssumption DEF Exact
      <3> QED BY <1>0, <1>2, <3>1
    <2>8. Exact(accept(c, id), S \cup {id})
      BY Zenon, <2>4, <2>6, <2>7 DEF Exact
    <2> QED BY Zenon, <1>2, <2>6, <2>8
  <1>3. CASE would_accept(c, id) /\ ~(id > c.highest)
    <2> DEFINE new == c.seen \cup {c.highest - id}
               old == {d \in 0..(REPLAY_BITS - 1) : c.highest - d \in S \cup {id}}
    <2>1. accept(c, id) = [c EXCEPT !.seen = new]
      BY Zenon, <1>3 DEF accept
    <2>2. c.highest - id \in 0..(REPLAY_BITS - 1) /\ S # {}
      BY <1>0, <1>3 DEF would_accept, Exact
    <2>3. ASSUME NEW d \in 0..(REPLAY_BITS - 1) PROVE d = c.highest - id <=> c.highest - d = id
      BY <1>0
    <2>4. new = old
      BY Zenon, <1>0, <2>2, <2>3 DEF Exact
    <2>5. new \in SUBSET (0..(REPLAY_BITS - 1))
      BY Zenon, <2>4
    <2> HIDE DEF new
    <2>6. /\ accept(c, id) \in DataChannels /\ accept(c, id).key_id = c.key_id
          /\ accept(c, id).next_packet_id = c.next_packet_id
          /\ accept(c, id).highest = c.highest /\ accept(c, id).seen = new
      BY Zenon, <2>1, <2>5 DEF DataChannels
    <2>7. c.highest \in S /\ \A q \in S \cup {id} : q <= c.highest
      BY <1>0, <1>3, <2>2 DEF Exact
    <2>8. Exact(accept(c, id), S \cup {id})
      BY Zenon, <2>4, <2>6, <2>7 DEF Exact
    <2> QED BY Zenon, <1>3, <2>6, <2>8
  <1> QED BY Zenon, <1>1, <1>2, <1>3

(* The next id is the only thing sealing changes.                          *)
LEMMA SealKeeps ==
  ASSUME DataInv, Seal
  PROVE  DataInv' /\ \A k \in Keys : sealed'[k] # sealed[k] => sealed'[k] > sealed[k]
  <1> USE DEF DataInv
  <1>1. PICK n \in DOMAIN channels :
          /\ n = Len(channels) /\ channels[n].next_packet_id < MAX_ID
          /\ channels' = [channels EXCEPT ![n].next_packet_id = channels[n].next_packet_id + 1]
          /\ sealed' = [sealed EXCEPT ![channels[n].key_id] = channels[n].next_packet_id]
    <2>1. Len(channels) \in DOMAIN channels
      BY DEF Seal, DataTypes
    <2> QED BY Zenon, <2>1 DEF Seal
  <1>2. opened' = opened /\ verdict' = verdict
    BY Zenon DEF Seal
  <1>3. PICK c \in DataChannels : c = channels[n]
    BY <1>1 DEF DataTypes
  <1>4. PICK next \in 1..MAX_ID : next = c.next_packet_id + 1 /\ c.next_packet_id = next - 1
    BY <1>1, <1>3, DataAssumption DEF DataChannels
  <1>5. PICK a \in DataChannels : a = [c EXCEPT !.next_packet_id = next]
    BY Zenon, <1>3, <1>4 DEF DataChannels
  <1>6. n \in DOMAIN channels /\ channels' = [channels EXCEPT ![n] = a]
    BY Zenon, <1>1, <1>3, <1>4, <1>5
  <1>7. /\ channels' \in Seq(DataChannels) /\ DOMAIN channels' = DOMAIN channels
        /\ channels'[n] = a
        /\ \A i \in DOMAIN channels : i # n => channels'[i] = channels[i]
    BY <1>6 DEF DataTypes
  <1>8. \A i \in DOMAIN channels :
          /\ channels'[i].key_id = channels[i].key_id
          /\ channels'[i].highest = channels[i].highest /\ channels'[i].seen = channels[i].seen
    <2>1. a.key_id = c.key_id /\ a.highest = c.highest /\ a.seen = c.seen
      BY Zenon, <1>5 DEF DataChannels
    <2> QED BY Zenon, <1>3, <1>7, <2>1
  <1>9. c.key_id \in Keys /\ c.next_packet_id \in Nat
    BY DataAssumption DEF DataChannels
  <1>10. /\ sealed' \in [Keys -> Nat] /\ sealed'[c.key_id] = c.next_packet_id
         /\ \A k \in Keys : k # c.key_id => sealed'[k] = sealed[k]
    BY Zenon, <1>1, <1>3, <1>9 DEF DataTypes
  <1>11. DataTypes'
    BY Zenon, <1>2, <1>7, <1>10 DEF DataTypes
  <1>12. GenerationsGrow'
    BY Zenon, <1>7, <1>8 DEF GenerationsGrow
  <1>13. \A i \in DOMAIN channels : i # n => channels[i].key_id # c.key_id
    <2> SUFFICES ASSUME NEW i \in DOMAIN channels, i # n PROVE channels[i].key_id < c.key_id
      BY <1>9, ChannelFacts, DataAssumption DEF DataTypes
    <2>1. i < n
      BY <1>1 DEF DataTypes
    <2> QED BY Zenon, <1>1, <1>3, <2>1 DEF GenerationsGrow
  <1>14. BitmapsExact'
    <2> SUFFICES ASSUME NEW i \in DOMAIN channels
                 PROVE  /\ Exact(channels'[i], opened[channels'[i].key_id])
                        /\ sealed'[channels'[i].key_id] = channels'[i].next_packet_id - 1
      BY Zenon, <1>2, <1>7 DEF BitmapsExact
    <2>1. Exact(channels'[i], opened[channels'[i].key_id])
      BY Zenon, <1>8 DEF BitmapsExact, Exact
    <2>2. CASE i = n
      <3>1. channels'[i].next_packet_id = next /\ channels'[i].key_id = c.key_id
        BY Zenon, <1>5, <1>7, <2>2 DEF DataChannels
      <3> QED BY Zenon, <1>4, <1>10, <2>1, <3>1
    <2>3. CASE i # n
      <3>1. channels'[i] = channels[i] /\ channels[i].key_id # c.key_id /\ channels[i].key_id \in Keys
        BY Zenon, <1>7, <1>13, <2>3, ChannelFacts DEF DataTypes
      <3> QED BY Zenon, <1>10, <2>1, <3>1 DEF BitmapsExact
    <2> QED BY Zenon, <2>2, <2>3
  <1>15. NextAreUnused'
    <2> SUFFICES ASSUME NEW k \in Keys, \A i \in DOMAIN channels : channels[i].key_id < k
                 PROVE  opened[k] = {} /\ sealed'[k] = 0
      BY Zenon, <1>2, <1>7, <1>8 DEF NextAreUnused
    <2>1. k # c.key_id
      BY SMTT(30), <1>1, <1>3, <1>9, DataAssumption
    <2> QED BY Zenon, <1>10, <2>1 DEF NextAreUnused
  <1>16. sealed[c.key_id] = c.next_packet_id - 1
    BY Zenon, <1>3 DEF BitmapsExact
  <1>17. \A k \in Keys : sealed'[k] # sealed[k] => sealed'[k] > sealed[k]
    BY <1>9, <1>10, <1>16
  <1> QED BY Zenon, <1>11, <1>12, <1>14, <1>15, <1>17

(* A packet offered to a live generation changes that one alone, as the    *)
(* promise says.                                                           *)
LEMMA OpenKeeps ==
  ASSUME DataInv, NEW key \in Keys, NEW id \in 1..MAX_ID, OpenData(key, id)
  PROVE  /\ DataInv' /\ sealed' = sealed /\ PerKey(key)!Next
         /\ \A k \in Keys : k # key => opened'[k] = opened[k] /\ verdict'[k] = verdict[k]
  <1> USE DEF DataInv
  <1>1. PICK n \in DOMAIN channels :
          /\ channels[n].key_id = key
          /\ channels' = [channels EXCEPT ![n] = accept(channels[n], id)]
          /\ opened' = [opened EXCEPT ![key] = IF would_accept(channels[n], id)
                                               THEN opened[key] \cup {id} ELSE opened[key]]
          /\ verdict' = [verdict EXCEPT ![key] = [sequence |-> id,
                                                  verdict |-> would_accept(channels[n], id)]]
          /\ sealed' = sealed
    BY Zenon DEF OpenData
  <1>2. PICK c \in DataChannels : c = channels[n] /\ c.key_id = key
    BY <1>1 DEF DataTypes
  <1>3. PICK S \in SUBSET (1..MAX_ID) : S = opened[key]
    BY Zenon DEF DataTypes
  <1>4. Exact(c, S)
    BY Zenon, <1>2, <1>3 DEF BitmapsExact
  <1>5. PICK T \in SUBSET (1..MAX_ID) : T = IF would_accept(c, id) THEN S \cup {id} ELSE S
    BY Zenon
  <1>6. PICK a \in DataChannels : a = accept(c, id) /\ a.key_id = key /\ Exact(a, T)
                                  /\ a.next_packet_id = c.next_packet_id
    BY Zenon, <1>2, <1>4, <1>5, AcceptIsExact
  <1>7. PICK answer \in BOOLEAN : answer = would_accept(c, id)
    BY Zenon DEF would_accept
  <1>8. /\ channels' = [channels EXCEPT ![n] = a] /\ opened' = [opened EXCEPT ![key] = T]
        /\ verdict' = [verdict EXCEPT ![key] = [sequence |-> id, verdict |-> answer]]
    BY <1>1, <1>2, <1>3, <1>5, <1>6, <1>7
  <1>9. /\ channels' \in Seq(DataChannels) /\ DOMAIN channels' = DOMAIN channels
        /\ channels'[n] = a /\ \A i \in DOMAIN channels : i # n => channels'[i] = channels[i]
    BY <1>8 DEF DataTypes
  <1>10. /\ opened' \in [Keys -> SUBSET (1..MAX_ID)] /\ opened'[key] = T
         /\ \A k \in Keys : k # key => opened'[k] = opened[k] /\ verdict'[k] = verdict[k]
    BY Zenon, <1>8 DEF DataTypes
  <1>11. /\ verdict' \in [Keys -> [sequence : 0..MAX_ID, verdict : BOOLEAN]]
         /\ verdict'[key] = [sequence |-> id, verdict |-> answer]
    <2>1. id \in 0..MAX_ID
      BY DataAssumption
    <2> QED BY Zenon, <1>8, <2>1 DEF DataTypes
  <1>12. DataTypes'
    BY Zenon, <1>1, <1>9, <1>10, <1>11 DEF DataTypes
  <1>13. \A i \in DOMAIN channels : channels'[i].key_id = channels[i].key_id
    BY Zenon, <1>2, <1>6, <1>9
  <1>14. GenerationsGrow'
    BY Zenon, <1>9, <1>13 DEF GenerationsGrow
  <1>15. ASSUME NEW i \in DOMAIN channels, i # n PROVE channels[i].key_id # key
    <2>1. i < n \/ n < i
      BY <1>15 DEF DataTypes
    <2>2. channels[i].key_id < channels[n].key_id \/ channels[n].key_id < channels[i].key_id
      BY Zenon, <1>15, <2>1 DEF GenerationsGrow
    <2> QED BY SMTT(30), <1>1, <2>2, DataAssumption
  <1>16. BitmapsExact'
    <2> SUFFICES ASSUME NEW i \in DOMAIN channels
                 PROVE  /\ Exact(channels'[i], opened'[channels'[i].key_id])
                        /\ sealed[channels'[i].key_id] = channels'[i].next_packet_id - 1
      BY Zenon, <1>1, <1>9 DEF BitmapsExact
    <2>1. CASE i = n
      BY ZenonT(60), <1>2, <1>6, <1>9, <1>10, <2>1 DEF BitmapsExact
    <2>2. CASE i # n
      <3>1. channels'[i] = channels[i] /\ channels[i].key_id # key /\ channels[i].key_id \in Keys
        BY Zenon, <1>9, <1>15, <2>2, ChannelFacts DEF DataTypes
      <3> QED BY Zenon, <1>10, <3>1 DEF BitmapsExact
    <2> QED BY Zenon, <2>1, <2>2
  <1>17. NextAreUnused'
    <2> SUFFICES ASSUME NEW k \in Keys, \A i \in DOMAIN channels : channels[i].key_id < k
                 PROVE  opened'[k] = {} /\ sealed[k] = 0
      BY Zenon, <1>1, <1>9, <1>13 DEF NextAreUnused
    <2>1. k # key
      BY <1>1, DataAssumption
    <2> QED BY Zenon, <1>10, <2>1 DEF NextAreUnused
  <1>18. PerKey(key)!Next
    <2>1. answer = PerKey(key)!Fresh(S, id)
      <3>1. would_accept(c, id) <=> PerKey(key)!Fresh(S, id)
        BY Zenon, <1>4, AcceptsTheFresh
      <3>2. PerKey(key)!Fresh(S, id) \in BOOLEAN
        BY Zenon DEF PerKey!Fresh
      <3> QED BY SMTT(30), <1>7, <3>1, <3>2
    <2>2. PerKey(key)!Offer(id)
      BY Zenon, <1>3, <1>5, <1>7, <1>10, <1>11, <2>1 DEF PerKey!Offer
    <2> QED BY Zenon, <2>2 DEF PerKey!Next
  <1> QED BY Zenon, <1>1, <1>10, <1>12, <1>14, <1>16, <1>17, <1>18

(* A generation is installed behind the live ones, with nothing sealed or  *)
(* opened under it yet; the third oldest goes.                             *)
LEMMA InstallKeeps ==
  ASSUME DataInv, NEW key \in Keys, InstallKeys(key)
  PROVE  DataInv' /\ UNCHANGED <<sealed, opened, verdict>>
  <1> USE DEF DataInv
  <1>1. UNCHANGED <<sealed, opened, verdict>>
    BY Zenon DEF InstallKeys
  <1>2. DataChannel(key) \in DataChannels
    BY DataAssumption DEF DataChannel, DataChannels
  <1>3. PICK n \in Nat : n = Len(channels) /\ DOMAIN channels = 1..n
    BY DEF DataTypes
  <1>4. ASSUME NEW i \in DOMAIN channels PROVE channels[i].key_id < key
    <2>1. i \in 1..n /\ n \in DOMAIN channels /\ channels # <<>>
      BY <1>3
    <2>2. key = channels[n].key_id + 1
      BY Zenon, <1>3, <2>1 DEF InstallKeys, Last
    <2>3. channels[i].key_id \in Nat /\ channels[n].key_id \in Nat
      BY Zenon, <2>1, ChannelFacts DEF DataTypes
    <2>4. i < n => channels[i].key_id < channels[n].key_id
      BY Zenon, <2>1 DEF GenerationsGrow
    <2> QED BY SMTT(30), <2>1, <2>2, <2>3, <2>4
  <1>5. PICK gone \in {0, 1} :
          /\ gone <= n
          /\ channels' \in Seq(DataChannels) /\ DOMAIN channels' = 1..(n + 1 - gone)
          /\ channels'[n + 1 - gone] = DataChannel(key)
          /\ \A j \in 1..(n - gone) : j + gone \in 1..n /\ channels'[j] = channels[j + gone]
    <2> DEFINE all == Append(channels, DataChannel(key))
    <2>1. /\ all \in Seq(DataChannels) /\ Len(all) = n + 1 /\ all[n + 1] = DataChannel(key)
          /\ \A j \in 1..n : all[j] = channels[j]
      BY <1>2, <1>3 DEF DataTypes
    <2>2. channels' = IF Len(all) > 2 THEN Tail(all) ELSE all
      BY Zenon DEF InstallKeys
    <2> HIDE DEF all
    <2>3. CASE Len(all) > 2
      <3>1. /\ channels' = Tail(all) /\ Tail(all) \in Seq(DataChannels) /\ Len(Tail(all)) = n
            /\ \A j \in 1..n : Tail(all)[j] = all[j + 1]
        BY SMTT(30), <1>3, <2>1, <2>2, <2>3
      <3>2. n >= 1
        BY SMTT(30), <1>3, <2>1, <2>3
      <3>3. channels'[n] = DataChannel(key)
        BY SMTT(30), <1>3, <2>1, <3>1, <3>2
      <3>4. \A j \in 1..(n - 1) : j + 1 \in 1..n /\ channels'[j] = channels[j + 1]
        BY <1>3, <2>1, <3>1
      <3>5. n + 1 - 1 = n /\ DOMAIN channels' = 1..n
        BY <1>3, <3>1
      <3> QED BY Zenon, <3>1, <3>2, <3>3, <3>4, <3>5
    <2>4. CASE ~(Len(all) > 2)
      BY SMTT(30), <1>3, <2>1, <2>2, <2>4
    <2> QED BY Zenon, <2>3, <2>4
  <1>6. PICK last \in Nat : last = n + 1 - gone /\ DOMAIN channels' = 1..last /\ last >= 1
                            /\ channels'[last] = DataChannel(key)
    <2>1. n + 1 - gone \in Nat /\ n + 1 - gone >= 1
      BY SMTT(30), <1>3, <1>5
    <2> QED BY Zenon, <1>3, <1>5, <2>1
  <1>7. \A j \in 1..last : j # last =>
          /\ j \in 1..(n - gone) /\ j + gone \in DOMAIN channels
          /\ channels'[j] = channels[j + gone]
    BY SMTT(30), <1>3, <1>5, <1>6
  <1>8. DataTypes'
    BY Zenon, <1>1, <1>5 DEF DataTypes
  <1>9. DataChannel(key).key_id = key
    BY Zenon DEF DataChannel
  <1>10. GenerationsGrow'
    <2> SUFFICES ASSUME NEW i \in 1..last, NEW j \in 1..last, i < j
                 PROVE  channels'[i].key_id < channels'[j].key_id
      BY Zenon, <1>6 DEF GenerationsGrow
    <2>1. i # last
      BY <1>6
    <2>2. i + gone \in DOMAIN channels /\ channels'[i] = channels[i + gone]
      BY Zenon, <1>7, <2>1
    <2>3. CASE j = last
      BY Zenon, <1>4, <1>6, <1>9, <2>2, <2>3
    <2>4. CASE j # last
      <3>1. j + gone \in DOMAIN channels /\ channels'[j] = channels[j + gone] /\ i + gone < j + gone
        BY <1>7, <2>4
      <3> QED BY Zenon, <2>2, <3>1 DEF GenerationsGrow
    <2> QED BY Zenon, <2>3, <2>4
  <1>11. opened[key] = {} /\ sealed[key] = 0
    BY Zenon, <1>4 DEF NextAreUnused
  <1>12. BitmapsExact'
    <2> SUFFICES ASSUME NEW i \in 1..last
                 PROVE  /\ Exact(channels'[i], opened[channels'[i].key_id])
                        /\ sealed[channels'[i].key_id] = channels'[i].next_packet_id - 1
      BY Zenon, <1>1, <1>6 DEF BitmapsExact
    <2>1. CASE i = last
      <3>1. Exact(DataChannel(key), {})
        BY Zenon DEF Exact, DataChannel
      <3>2. DataChannel(key).next_packet_id = 1
        BY Zenon DEF DataChannel
      <3>3. channels'[i] = DataChannel(key)
        BY Zenon, <1>6, <2>1
      <3>4. Exact(channels'[i], opened[channels'[i].key_id])
        BY Zenon, <1>9, <1>11, <3>1, <3>3
      <3>5. sealed[channels'[i].key_id] = 0 /\ channels'[i].next_packet_id = 1
        BY Zenon, <1>9, <1>11, <3>2, <3>3
      <3> QED BY <3>4, <3>5
    <2>2. CASE i # last
      BY Zenon, <1>7, <2>2 DEF BitmapsExact
    <2> QED BY Zenon, <2>1, <2>2
  <1>13. NextAreUnused'
    <2> SUFFICES ASSUME NEW k \in Keys, \A i \in 1..last : channels'[i].key_id < k
                 PROVE  opened[k] = {} /\ sealed[k] = 0
      BY Zenon, <1>1, <1>6 DEF NextAreUnused
    <2>1. key < k
      BY <1>6, <1>9
    <2>2. ASSUME NEW i \in DOMAIN channels PROVE channels[i].key_id < k
      <3>1. channels[i].key_id < key /\ channels[i].key_id \in Nat
        BY Zenon, <1>4, ChannelFacts DEF DataTypes
      <3>2. key \in Nat /\ k \in Nat
        BY Zenon, DataAssumption
      <3> QED BY SMTT(30), <2>1, <3>1, <3>2
    <2> QED BY Zenon, <2>2 DEF NextAreUnused
  <1> QED BY Zenon, <1>1, <1>8, <1>10, <1>12, <1>13

(* Each generation's bitmap implements a receiver that accepts every       *)
(* packet once and refuses none that is recent and new, and no nonce is    *)
(* used twice under a key (crypto.rs would_accept, accept and seal;        *)
(* session.rs install_keys), for any number of generations, any width of   *)
(* the bitmap and any largest id.                                          *)
THEOREM DataAlwaysOpensOnce == DataSpec => DataOpensOnce
  <1> DEFINE Opens == \A key \in Keys : verdict'[key] # verdict[key] \/ opened'[key] # opened[key] =>
                        PerKey(key)!Next
             Seals == \A key \in Keys : sealed'[key] # sealed[key] => sealed'[key] > sealed[key]
  <1>1. DataInit => DataInv
    BY DataAssumption DEF DataInit, DataInv, DataTypes, GenerationsGrow, BitmapsExact, NextAreUnused
  <1>2. DataInv /\ [DataNext]_dataVars => DataInv' /\ [Opens]_dataVars /\ [Seals]_dataVars
    <2> SUFFICES ASSUME DataInv, DataNext PROVE DataInv' /\ Opens /\ Seals
      BY Zenon DEF dataVars, DataInv, DataTypes, GenerationsGrow, BitmapsExact, NextAreUnused
    <2>1. CASE Seal
      <3>1. UNCHANGED <<opened, verdict>>
        BY Zenon, <2>1 DEF Seal
      <3> QED BY Zenon, <2>1, <3>1, SealKeeps
    <2>2. ASSUME NEW key \in Keys, InstallKeys(key) PROVE DataInv' /\ Opens /\ Seals
      BY Zenon, <2>2, InstallKeeps
    <2>3. ASSUME NEW key \in Keys, NEW id \in 1..MAX_ID, OpenData(key, id)
          PROVE  DataInv' /\ Opens /\ Seals
      BY Zenon, <2>3, OpenKeeps
    <2> QED BY Zenon, <2>1, <2>2, <2>3 DEF DataNext
  <1>3. DataInit => \A key \in Keys : PerKey(key)!Init
    BY Zenon DEF DataInit, PerKey!Init
  <1> QED BY <1>1, <1>2, <1>3, PTL DEF DataSpec, DataOpensOnce
=============================================================================
