--------------------------- MODULE L2tpJoinProofs ---------------------------
(***************************************************************************)
(* Dials made beside a relay session are accounted for, with any number of *)
(* routes, attempts and sessions.                                          *)
(*                                                                         *)
(* The inductive invariant has three parts.  PairInv, of each route of     *)
(* each session: its connection is up exactly when its thread, its channel *)
(* or the slot has it, and no two of them do.  DialsInv, of each session's *)
(* dials: the holder expects at least as many outcomes as can still come.  *)
(* SlotInv, of the session in the slot: what it has not dealt with is      *)
(* exactly what can still come, and none of it has been cancelled.         *)
(***************************************************************************)
EXTENDS L2tpJoin, FiniteSetTheorems, TLAPS

Places == {"dialling", "connected", "checked", "waiting", "done"}
Messages == [route : Routes, what : {"up", "failed", "retrying"}]

ByThread(g, r) == dial[g][r] \in {"connected", "checked"}
ByChannel(g, r) == Message(r, "up") \in inbox[g]
GivenUp(g, r) == Message(r, "failed") \in inbox[g]
BySlot(g, r) == <<g, r>> \in kept

(* The outcome of the route may still come. *)
Unsettled(g) == {r \in Routes : dial[g][r] # "done" \/ ByChannel(g, r) \/ GivenUp(g, r)}

PairInv(g, r) ==
    /\ <<g, r>> \in ras <=> ByThread(g, r) \/ ByChannel(g, r) \/ BySlot(g, r)
    /\ ByChannel(g, r) \/ GivenUp(g, r) => dial[g][r] = "done"
    /\ ~(ByChannel(g, r) /\ GivenUp(g, r))
    /\ BySlot(g, r) => r \notin Unsettled(g)

DialsInv(g) ==
    /\ holder[g] = "gone" => inbox[g] = {}
    /\ g > started => holder[g] = "gone" /\ ~cancelled[g] /\ \A r \in Routes : dial[g][r] = "done"
    /\ holder[g] = "start" => g = gen /\ phase = "starting"
    /\ holder[g] # "gone" => Cardinality(Unsettled(g)) <= left[g]
    /\ holder[g] = "join" => left[g] > 0

SlotInv ==
    /\ gen <= started
    /\ phase = "idle" <=> gen = 0
    /\ phase = "starting" => holder[gen] = "start"
    /\ phase # "idle" =>
          /\ pending = Unsettled(gen)
          /\ holder[gen] = "gone" => pending = {}
          /\ holder[gen] # "gone" => ~cancelled[gen] /\ left[gen] = Cardinality(pending)
    /\ \A c \in kept \cup attached : c[1] = gen

JoinInv ==
    /\ TypeOK
    /\ \A g \in Generations : DialsInv(g) /\ \A r \in Routes : PairInv(g, r)
    /\ SlotInv

-----------------------------------------------------------------------------
LEMMA Bounds ==
    /\ IsFiniteSet(Routes) /\ Cardinality(Routes) \in Nat
    /\ MaxGenerations \in Nat /\ DIAL_ATTEMPTS \in Nat \ {0}
    /\ Generations \subseteq Nat \ {0} /\ Generations = 1 .. MaxGenerations
  BY JoinAssumption, FS_CardinalityType DEF Generations

(* Messages are what they were made of. *)
LEMMA MessageFacts ==
    /\ \A m \in Messages : m = Message(m.route, m.what)
    /\ \A r \in Routes, w \in {"up", "failed", "retrying"} :
          /\ Message(r, w) \in Messages
          /\ Message(r, w).route = r /\ Message(r, w).what = w
  BY DEF Messages, Message

(* The unsettled routes can be counted. *)
LEMMA UnsettledFinite ==
    ASSUME NEW S \in SUBSET Routes
    PROVE  /\ IsFiniteSet(S) /\ Cardinality(S) \in Nat /\ Cardinality(S) <= Cardinality(Routes)
           /\ Cardinality(S) = 0 <=> S = {}
           /\ \A r \in S : IsFiniteSet(S \ {r}) /\ Cardinality(S \ {r}) = Cardinality(S) - 1
           /\ \A P \in SUBSET S : Cardinality(P) <= Cardinality(S)
  <1>1. IsFiniteSet(S) /\ Cardinality(S) <= Cardinality(Routes)
    BY Bounds, FS_Subset
  <1>2. Cardinality(S) \in Nat /\ (Cardinality(S) = 0 <=> S = {})
    BY <1>1, FS_CardinalityType, FS_EmptySet
  <1>3. \A r \in S : IsFiniteSet(S \ {r}) /\ Cardinality(S \ {r}) = Cardinality(S) - 1
    BY <1>1, FS_RemoveElement
  <1>4. \A P \in SUBSET S : Cardinality(P) <= Cardinality(S)
    BY <1>1, FS_Subset
  <1> QED BY Zenon, <1>1, <1>2, <1>3, <1>4

(* What the channel's connections are. *)
LEMMA ConnectionsFacts ==
    ASSUME TypeOK, NEW g \in Generations, NEW h \in Generations, NEW r \in Routes
    PROVE  <<h, r>> \in Connections(g) <=> h = g /\ ByChannel(g, r)
  <1>1. inbox[g] \subseteq Messages
    BY DEF TypeOK, Messages
  <1>2. ASSUME <<h, r>> \in Connections(g) PROVE h = g /\ ByChannel(g, r)
    <2>1. PICK m \in inbox[g] : m.what = "up" /\ <<h, r>> = <<g, m.route>>
      BY <1>2 DEF Connections
    <2>2. m = Message(r, "up") /\ h = g
      BY <1>1, <2>1, MessageFacts
    <2> QED BY <2>1, <2>2 DEF ByChannel
  <1>3. ASSUME h = g, ByChannel(g, r) PROVE <<h, r>> \in Connections(g)
    <2>1. Message(r, "up") \in inbox[g] /\ Message(r, "up").what = "up" /\ Message(r, "up").route = r
      BY Zenon, <1>3, MessageFacts DEF ByChannel
    <2> QED BY Zenon, <1>3, <2>1 DEF Connections
  <1> QED BY <1>2, <1>3

(* A dialling thread's place, and the channel, after one of them changed. *)
LEMMA DialSet ==
    ASSUME TypeOK, NEW g \in Generations, NEW r \in Routes, NEW x \in Places,
           dial' = [dial EXCEPT ![g][r] = x]
    PROVE  /\ dial' \in [Generations -> [Routes -> Places]]
           /\ dial'[g][r] = x
           /\ \A h \in Generations, q \in Routes : h # g \/ q # r => dial'[h][q] = dial[h][q]
  <1>1. dial \in [Generations -> [Routes -> Places]]
    BY DEF TypeOK, Places
  <1>2. dial'[g] = [dial[g] EXCEPT ![r] = x] /\ \A h \in Generations : h # g => dial'[h] = dial[h]
    BY <1>1
  <1>3. dial[g] \in [Routes -> Places]
    BY <1>1
  <1>4. dial'[g] \in [Routes -> Places] /\ dial'[g][r] = x /\ \A q \in Routes : q # r => dial'[g][q] = dial[g][q]
    BY <1>2, <1>3
  <1>5. dial' \in [Generations -> [Routes -> Places]]
    <2>1. \A h \in Generations : dial'[h] \in [Routes -> Places]
      BY <1>1, <1>2, <1>4
    <2>2. dial' = [h \in Generations |-> dial'[h]]
      BY <1>1, ZenonT(40)
    <2> QED BY <2>1, <2>2, ZenonT(40)
  <1> QED BY Zenon, <1>2, <1>4, <1>5

LEMMA InboxAdds ==
    ASSUME TypeOK, NEW g \in Generations, NEW r \in Routes, NEW w \in {"up", "failed", "retrying"},
           inbox' = [inbox EXCEPT ![g] = @ \cup {Message(r, w)}]
    PROVE  /\ inbox' \in [Generations -> SUBSET Messages]
           /\ inbox'[g] # {}
           /\ \A h \in Generations : h # g => inbox'[h] = inbox[h]
           /\ \A h \in Generations, q \in Routes :
                 /\ ByChannel(h, q)' <=> ByChannel(h, q) \/ (h = g /\ q = r /\ w = "up")
                 /\ GivenUp(h, q)' <=> GivenUp(h, q) \/ (h = g /\ q = r /\ w = "failed")
  <1>1. inbox \in [Generations -> SUBSET Messages] /\ Message(r, w) \in Messages
    BY MessageFacts DEF TypeOK, Messages
  <1>2. inbox'[g] = inbox[g] \cup {Message(r, w)} /\ \A h \in Generations : h # g => inbox'[h] = inbox[h]
    BY <1>1
  <1>3. inbox' \in [Generations -> SUBSET Messages]
    BY <1>1
  <1>4. \A q \in Routes, v \in {"up", "failed"} : Message(q, v) = Message(r, w) <=> q = r /\ v = w
    BY MessageFacts
  <1> QED BY Zenon, <1>2, <1>3, <1>4 DEF ByChannel, GivenUp

LEMMA InboxTakes ==
    ASSUME TypeOK, NEW g \in Generations, NEW m \in inbox[g],
           inbox' = [inbox EXCEPT ![g] = @ \ {m}]
    PROVE  /\ inbox' \in [Generations -> SUBSET Messages]
           /\ \A h \in Generations : h # g => inbox'[h] = inbox[h]
           /\ \A h \in Generations, q \in Routes :
                 /\ ByChannel(h, q)' <=> ByChannel(h, q) /\ ~(h = g /\ q = m.route /\ m.what = "up")
                 /\ GivenUp(h, q)' <=> GivenUp(h, q) /\ ~(h = g /\ q = m.route /\ m.what = "failed")
  <1>1. inbox \in [Generations -> SUBSET Messages] /\ m \in Messages
    BY DEF TypeOK, Messages
  <1>2. inbox'[g] = inbox[g] \ {m} /\ \A h \in Generations : h # g => inbox'[h] = inbox[h]
    BY <1>1
  <1>3. inbox' \in [Generations -> SUBSET Messages]
    BY Zenon, <1>1
  <1>4. m = Message(m.route, m.what) /\ m.route \in Routes /\ m.what \in {"up", "failed", "retrying"}
    BY Zenon, <1>1, MessageFacts DEF Messages
  <1>5. \A q \in Routes, v \in {"up", "failed"} : Message(q, v) = m <=> q = m.route /\ v = m.what
    BY <1>4, MessageFacts
  <1> QED BY Zenon, <1>2, <1>3, <1>5 DEF ByChannel, GivenUp

LEMMA InboxEmpties ==
    ASSUME TypeOK, NEW g \in Generations, DropDials(g)
    PROVE  /\ inbox' \in [Generations -> SUBSET Messages]
           /\ inbox'[g] = {} /\ \A h \in Generations : h # g => inbox'[h] = inbox[h]
           /\ \A h \in Generations, q \in Routes :
                 /\ ByChannel(h, q)' <=> ByChannel(h, q) /\ h # g
                 /\ GivenUp(h, q)' <=> GivenUp(h, q) /\ h # g
           /\ holder' \in [Generations -> {"start", "join", "gone"}]
           /\ holder'[g] = "gone" /\ \A h \in Generations : h # g => holder'[h] = holder[h]
           /\ cancelled' \in [Generations -> BOOLEAN]
           /\ \A h \in Generations : h # g => cancelled'[h] = cancelled[h]
           /\ left' \in [Generations -> 0 .. Cardinality(Routes)]
           /\ \A h \in Generations : h # g => left'[h] = left[h]
  <1>1. inbox \in [Generations -> SUBSET Messages]
    BY DEF TypeOK, Messages
  <1>2. inbox' = [inbox EXCEPT ![g] = {}]
    BY DEF DropDials
  <1>3. inbox'[g] = {} /\ \A h \in Generations : h # g => inbox'[h] = inbox[h]
    BY <1>1, <1>2
  <1>4. inbox' \in [Generations -> SUBSET Messages]
    BY Zenon, <1>1, <1>2
  <1>5. /\ holder' \in [Generations -> {"start", "join", "gone"}]
        /\ holder'[g] = "gone" /\ \A h \in Generations : h # g => holder'[h] = holder[h]
    BY DEF DropDials, TypeOK
  <1>6. /\ cancelled' \in [Generations -> BOOLEAN]
        /\ \A h \in Generations : h # g => cancelled'[h] = cancelled[h]
    BY DEF DropDials, TypeOK
  <1>7. /\ left' \in [Generations -> 0 .. Cardinality(Routes)]
        /\ \A h \in Generations : h # g => left'[h] = left[h]
    BY Bounds DEF DropDials, TypeOK
  <1>8. \A h \in Generations, q \in Routes :
                 /\ ByChannel(h, q)' <=> ByChannel(h, q) /\ h # g
                 /\ GivenUp(h, q)' <=> GivenUp(h, q) /\ h # g
    BY Zenon, <1>3 DEF ByChannel, GivenUp
  <1> QED BY Zenon, <1>3, <1>4, <1>5, <1>6, <1>7, <1>8

-----------------------------------------------------------------------------
(* What a dialling thread leaves alone: the slot, and every other pair. *)
Elsewhere(g, r) ==
    \A h \in Generations, q \in Routes :
        h # g \/ q # r =>
            /\ dial'[h][q] = dial[h][q]
            /\ ByChannel(h, q)' <=> ByChannel(h, q)
            /\ GivenUp(h, q)' <=> GivenUp(h, q)
            /\ <<h, q>> \in ras' <=> <<h, q>> \in ras

(* A thread's step keeps the invariant when it keeps its own pair's part, and
   does not end in silence unless it is cancelled or nobody listens. *)
LEMMA ThreadKeeps ==
    ASSUME JoinInv, NEW g \in Generations, NEW r \in Routes, TypeOK', Elsewhere(g, r),
           UNCHANGED <<gen, phase, started, cancelled, holder, left, kept, attached, pending>>,
           r \in Unsettled(g), dial[g][r] # "done", PairInv(g, r)',
           \A h \in Generations : holder[h] = "gone" => inbox'[h] = inbox[h],
           r \in Unsettled(g)' \/ cancelled[g] \/ holder[g] = "gone"
    PROVE  JoinInv'
  <1>1. ASSUME NEW h \in Generations, NEW q \in Routes, h # g \/ q # r
        PROVE  q \in Unsettled(h)' <=> q \in Unsettled(h)
    BY <1>1, ZenonT(40) DEF Elsewhere, Unsettled
  <1>2. ASSUME NEW h \in Generations, NEW q \in Routes PROVE PairInv(h, q)'
    <2>1. CASE h = g /\ q = r
      BY Zenon, <2>1
    <2>2. CASE h # g \/ q # r
      <3>1. PairInv(h, q)
        BY DEF JoinInv
      <3>2. (ByThread(h, q)' <=> ByThread(h, q)) /\ (BySlot(h, q)' <=> BySlot(h, q))
        BY <2>2, ZenonT(40) DEF Elsewhere, ByThread, BySlot
      <3> QED BY Zenon, <1>1, <2>2, <3>1, <3>2 DEF PairInv, Elsewhere
    <2> QED BY Zenon, <2>1, <2>2
  <1>3. ASSUME NEW h \in Generations
        PROVE  /\ Unsettled(h)' \subseteq Unsettled(h) /\ Unsettled(h) \subseteq Routes
               /\ h # g \/ r \in Unsettled(g)' => Unsettled(h)' = Unsettled(h)
    <2>1. Unsettled(h)' \subseteq Routes /\ Unsettled(h) \subseteq Routes
      BY Zenon DEF Unsettled
    <2>2. Unsettled(h)' \subseteq Unsettled(h)
      <3> SUFFICES ASSUME NEW q \in Routes, q \in Unsettled(h)' PROVE q \in Unsettled(h)
        BY Zenon, <2>1
      <3> QED BY Zenon, <1>1
    <2>3. h # g \/ r \in Unsettled(g)' => Unsettled(h) \subseteq Unsettled(h)'
      <3> SUFFICES ASSUME h # g \/ r \in Unsettled(g)', NEW q \in Routes, q \in Unsettled(h)
                   PROVE  q \in Unsettled(h)'
        BY Zenon, <2>1
      <3>1. CASE h # g \/ q # r
        BY Zenon, <1>1, <3>1
      <3>2. CASE h = g /\ q = r
        BY Zenon, <3>2
      <3> QED BY Zenon, <3>1, <3>2
    <2> QED BY Zenon, <2>1, <2>2, <2>3
  <1>4. ASSUME NEW h \in Generations PROVE DialsInv(h)'
    <2>1. DialsInv(h)
      BY Zenon DEF JoinInv
    <2>2. holder'[h] = "gone" => inbox'[h] = {}
      BY Zenon, <2>1 DEF DialsInv
    <2>3. h > started => h # g
      BY <2>1 DEF DialsInv
    <2>4. h > started => \A q \in Routes : dial'[h][q] = "done"
      BY <2>1, <2>3, ZenonT(40) DEF DialsInv, Elsewhere
    <2>5. holder[h] # "gone" => Cardinality(Unsettled(h)') <= left[h]
      <3>1. Cardinality(Unsettled(h)') <= Cardinality(Unsettled(h))
        BY Zenon, <1>3, UnsettledFinite
      <3>2. Cardinality(Unsettled(h)') \in Nat /\ Cardinality(Unsettled(h)) \in Nat
        BY Zenon, <1>3, UnsettledFinite
      <3>3. left[h] \in Nat
        BY Bounds DEF JoinInv, TypeOK
      <3> QED BY <2>1, <3>1, <3>2, <3>3 DEF DialsInv
    <2> QED BY Zenon, <2>1, <2>2, <2>4, <2>5 DEF DialsInv
  <1>5. SlotInv'
    <2>1. SlotInv
      BY Zenon DEF JoinInv
    <2>2. phase # "idle" => gen \in Generations
      BY <2>1, Bounds DEF JoinInv, TypeOK, SlotInv
    <2>3. phase # "idle" => Unsettled(gen)' = Unsettled(gen)
      <3>1. CASE gen = g /\ phase # "idle"
        <4>1. pending # {}
          BY Zenon, <2>1, <3>1 DEF SlotInv
        <4>2. r \in Unsettled(g)'
          BY Zenon, <2>1, <3>1, <4>1 DEF SlotInv
        <4> QED BY Zenon, <1>3, <3>1, <4>2
      <3>2. CASE gen # g /\ phase # "idle"
        BY Zenon, <1>3, <2>2, <3>2
      <3> QED BY Zenon, <3>1, <3>2
    <2> QED BY Zenon, <2>1, <2>3 DEF SlotInv
  <1> QED BY Zenon, <1>2, <1>4, <1>5 DEF JoinInv

LEMMA TriesSet ==
    ASSUME TypeOK, NEW g \in Generations, NEW r \in Routes, NEW x \in 0 .. DIAL_ATTEMPTS,
           tries' = [tries EXCEPT ![g][r] = x]
    PROVE  tries' \in [Generations -> [Routes -> 0 .. DIAL_ATTEMPTS]]
  <1> DEFINE T == 0 .. DIAL_ATTEMPTS
  <1>1. tries \in [Generations -> [Routes -> T]] /\ x \in T
    BY DEF TypeOK
  <1> HIDE DEF T
  <1>2. tries'[g] = [tries[g] EXCEPT ![r] = x] /\ \A h \in Generations : h # g => tries'[h] = tries[h]
    BY <1>1
  <1>3. tries[g] \in [Routes -> T]
    BY Zenon, <1>1
  <1>4. tries'[g] \in [Routes -> T]
    BY Zenon, <1>1, <1>2, <1>3
  <1>5. \A h \in Generations : tries'[h] \in [Routes -> T]
    BY Zenon, <1>1, <1>2, <1>4
  <1>6. tries' = [h \in Generations |-> tries'[h]]
    BY <1>1, ZenonT(40)
  <1>7. tries' \in [Generations -> [Routes -> T]]
    BY <1>5, <1>6, ZenonT(40)
  <1> QED BY Zenon, <1>7 DEF T

LEMMA ThreadType ==
    ASSUME TypeOK, UNCHANGED <<gen, phase, started, cancelled, holder, left, kept, attached, pending>>,
           dial' \in [Generations -> [Routes -> Places]],
           tries' \in [Generations -> [Routes -> 0 .. DIAL_ATTEMPTS]],
           inbox' \in [Generations -> SUBSET Messages], ras' \subseteq Pairs
    PROVE  TypeOK'
  BY Zenon DEF TypeOK, Places, Messages

(* What the invariant says of one pair and one thread. *)
LEMMA ThreadFacts ==
    ASSUME JoinInv, NEW g \in Generations, NEW r \in Routes
    PROVE  /\ TypeOK /\ PairInv(g, r) /\ DialsInv(g)
           /\ tries \in [Generations -> [Routes -> 0 .. DIAL_ATTEMPTS]]
           /\ tries[g][r] \in 0 .. DIAL_ATTEMPTS /\ 0 \in 0 .. DIAL_ATTEMPTS
           /\ inbox \in [Generations -> SUBSET Messages]
           /\ ras \subseteq Pairs /\ <<g, r>> \in Pairs
           /\ dial[g][r] # "done" => r \in Unsettled(g)
  <1>1. tries \in [Generations -> [Routes -> 0 .. DIAL_ATTEMPTS]] /\ tries[g][r] \in 0 .. DIAL_ATTEMPTS
    BY DEF JoinInv, TypeOK
  <1>2. 0 \in 0 .. DIAL_ATTEMPTS
    BY Bounds
  <1> QED BY Zenon, <1>1, <1>2 DEF JoinInv, TypeOK, Messages, Pairs, Unsettled

LEMMA ConnectsKeeps ==
    ASSUME JoinInv, NEW g \in Generations, NEW r \in Routes, DialConnects(g, r)
    PROVE  JoinInv'
  <1> USE DEF DialConnects
  <1>1. /\ dial' \in [Generations -> [Routes -> Places]] /\ dial'[g][r] = "connected"
        /\ \A h \in Generations, q \in Routes : h # g \/ q # r => dial'[h][q] = dial[h][q]
    BY ThreadFacts, DialSet, ZenonT(40) DEF Places
  <1>2. TypeOK'
    <2>1. tries' \in [Generations -> [Routes -> 0 .. DIAL_ATTEMPTS]]
      BY ThreadFacts, TriesSet, ZenonT(40)
    <2>2. inbox' \in [Generations -> SUBSET Messages] /\ ras' \subseteq Pairs
      BY ThreadFacts, ZenonT(40)
    <2> QED BY <1>1, <2>1, <2>2, ThreadFacts, ThreadType, ZenonT(40)
  <1>3. Elsewhere(g, r)
    BY Zenon, <1>1 DEF Elsewhere, ByChannel, GivenUp
  <1>4. r \in Unsettled(g)'
    BY Zenon, <1>1 DEF Unsettled
  <1>5. PairInv(g, r)'
    <2>1. ~ByChannel(g, r) /\ ~GivenUp(g, r) /\ ~BySlot(g, r)
      BY ThreadFacts, ZenonT(40) DEF PairInv
    <2>2. ~ByChannel(g, r)' /\ ~GivenUp(g, r)' /\ ~BySlot(g, r)' /\ ByThread(g, r)'
      BY Zenon, <1>1, <2>1 DEF ByChannel, GivenUp, BySlot, ByThread
    <2> QED BY <2>2 DEF PairInv
  <1> QED BY <1>2, <1>3, <1>4, <1>5, ThreadFacts, ThreadKeeps, ZenonT(40)

LEMMA ChecksKeeps ==
    ASSUME JoinInv, NEW g \in Generations, NEW r \in Routes, DialChecks(g, r)
    PROVE  JoinInv'
  <1> USE DEF DialChecks
  <1>1. PICK x \in {"checked", "done"} :
            /\ dial' = [dial EXCEPT ![g][r] = x]
            /\ x = "checked" => ras' = ras
            /\ x = "done" => cancelled[g] /\ ras' = ras \ {<<g, r>>}
    OBVIOUS
  <1>2. /\ dial' \in [Generations -> [Routes -> Places]] /\ dial'[g][r] = x
        /\ \A h \in Generations, q \in Routes : h # g \/ q # r => dial'[h][q] = dial[h][q]
    BY <1>1, ThreadFacts, DialSet, ZenonT(40) DEF Places
  <1>3. TypeOK'
    <2>1. /\ inbox' \in [Generations -> SUBSET Messages] /\ ras' \subseteq Pairs
          /\ tries' \in [Generations -> [Routes -> 0 .. DIAL_ATTEMPTS]]
      BY <1>1, ThreadFacts, ZenonT(40)
    <2> QED BY <1>2, <2>1, ThreadFacts, ThreadType, ZenonT(40)
  <1>4. Elsewhere(g, r)
    BY Zenon, <1>1, <1>2 DEF Elsewhere, ByChannel, GivenUp
  <1>5. r \in Unsettled(g)' \/ cancelled[g]
    BY Zenon, <1>1, <1>2 DEF Unsettled
  <1>6. PairInv(g, r)'
    <2>1. ~ByChannel(g, r) /\ ~GivenUp(g, r) /\ ~BySlot(g, r) /\ <<g, r>> \in ras
      BY Zenon, ThreadFacts DEF PairInv, ByThread
    <2>2. ~ByChannel(g, r)' /\ ~GivenUp(g, r)' /\ ~BySlot(g, r)' /\ (ByThread(g, r)' <=> x = "checked")
      BY Zenon, <1>2, <2>1 DEF ByChannel, GivenUp, BySlot, ByThread
    <2>3. <<g, r>> \in ras' <=> x = "checked"
      BY Zenon, <1>1, <2>1
    <2> QED BY Zenon, <2>2, <2>3 DEF PairInv
  <1> QED BY <1>3, <1>4, <1>5, <1>6, ThreadFacts, ThreadKeeps, ZenonT(40)

LEMMA SendsKeeps ==
    ASSUME JoinInv, NEW g \in Generations, NEW r \in Routes, DialSends(g, r)
    PROVE  JoinInv'
  <1> USE DEF DialSends
  <1>1. /\ dial' \in [Generations -> [Routes -> Places]] /\ dial'[g][r] = "done"
        /\ \A h \in Generations, q \in Routes : h # g \/ q # r => dial'[h][q] = dial[h][q]
    BY ThreadFacts, DialSet, ZenonT(40) DEF Places
  <1>2. ~ByChannel(g, r) /\ ~GivenUp(g, r) /\ ~BySlot(g, r) /\ <<g, r>> \in ras
    BY Zenon, ThreadFacts DEF PairInv, ByThread
  <1>3. ~BySlot(g, r)' /\ ~ByThread(g, r)'
    BY Zenon, <1>1, <1>2 DEF BySlot, ByThread
  <1>4. tries' \in [Generations -> [Routes -> 0 .. DIAL_ATTEMPTS]]
    BY ThreadFacts, ZenonT(40)
  <1>5. CASE holder[g] # "gone"
    <2>1. inbox' = [inbox EXCEPT ![g] = @ \cup {Message(r, "up")}] /\ ras' = ras
      BY <1>5
    <2>2. /\ inbox' \in [Generations -> SUBSET Messages]
          /\ \A h \in Generations : h # g => inbox'[h] = inbox[h]
          /\ \A h \in Generations, q \in Routes :
                /\ ByChannel(h, q)' <=> ByChannel(h, q) \/ (h = g /\ q = r)
                /\ GivenUp(h, q)' <=> GivenUp(h, q)
      BY <2>1, ThreadFacts, InboxAdds, ZenonT(40)
    <2>3. TypeOK'
      BY <1>1, <1>4, <2>1, <2>2, ThreadFacts, ThreadType, ZenonT(40)
    <2>4. Elsewhere(g, r)
      BY <1>1, <2>1, <2>2 DEF Elsewhere
    <2>5. r \in Unsettled(g)'
      BY <2>2 DEF Unsettled
    <2>6. PairInv(g, r)'
      BY <1>1, <1>2, <1>3, <2>1, <2>2 DEF PairInv
    <2>7. \A h \in Generations : holder[h] = "gone" => inbox'[h] = inbox[h]
      BY <1>5, <2>2
    <2> QED BY <2>3, <2>4, <2>5, <2>6, <2>7, ThreadFacts, ThreadKeeps, ZenonT(40)
  <1>6. CASE holder[g] = "gone"
    <2>1. inbox' = inbox /\ ras' = ras \ {<<g, r>>}
      BY <1>6
    <2>2. \A h \in Generations, q \in Routes :
                (ByChannel(h, q)' <=> ByChannel(h, q)) /\ (GivenUp(h, q)' <=> GivenUp(h, q))
      BY <2>1 DEF ByChannel, GivenUp
    <2>3. TypeOK'
      BY <1>1, <1>4, <2>1, ThreadFacts, ThreadType, ZenonT(40)
    <2>4. Elsewhere(g, r)
      BY <1>1, <2>1, <2>2 DEF Elsewhere
    <2>5. PairInv(g, r)'
      BY <1>1, <1>2, <1>3, <2>1, <2>2 DEF PairInv
    <2> QED BY <1>6, <2>1, <2>3, <2>4, <2>5, ThreadFacts, ThreadKeeps, ZenonT(40)
  <1> QED BY Zenon, <1>5, <1>6

(* A thread's report, whether or not anybody listens. *)
LEMMA Reports ==
    ASSUME TypeOK, NEW g \in Generations, NEW r \in Routes, NEW w \in {"failed", "retrying"},
           inbox' = [inbox EXCEPT ![g] = IF holder[g] = "gone" THEN @ ELSE @ \cup {Message(r, w)}]
    PROVE  /\ inbox' \in [Generations -> SUBSET Messages]
           /\ \A h \in Generations : holder[h] = "gone" => inbox'[h] = inbox[h]
           /\ \A h \in Generations, q \in Routes :
                 /\ ByChannel(h, q)' <=> ByChannel(h, q)
                 /\ GivenUp(h, q)' <=> GivenUp(h, q) \/ (h = g /\ q = r /\ w = "failed" /\ holder[g] # "gone")
  <1>1. inbox \in [Generations -> SUBSET Messages]
    BY Zenon DEF TypeOK, Messages
  <1>2. CASE holder[g] = "gone"
    <2>1. inbox' = inbox
      BY Zenon, <1>1, <1>2
    <2> QED BY Zenon, <1>1, <1>2, <2>1 DEF ByChannel, GivenUp
  <1>3. CASE holder[g] # "gone"
    <2>1. inbox' = [inbox EXCEPT ![g] = @ \cup {Message(r, w)}]
      BY Zenon, <1>3
    <2>2. /\ inbox' \in [Generations -> SUBSET Messages]
          /\ \A h \in Generations : h # g => inbox'[h] = inbox[h]
          /\ \A h \in Generations, q \in Routes :
                /\ ByChannel(h, q)' <=> ByChannel(h, q)
                /\ GivenUp(h, q)' <=> GivenUp(h, q) \/ (h = g /\ q = r /\ w = "failed")
      <3>1. Message(r, w) \in Messages
        BY Zenon, MessageFacts
      <3>2. inbox'[g] = inbox[g] \cup {Message(r, w)} /\ \A h \in Generations : h # g => inbox'[h] = inbox[h]
        BY Zenon, <1>1, <2>1
      <3>3. inbox' \in [Generations -> SUBSET Messages]
        BY Zenon, <1>1, <2>1, <3>1
      <3>4. \A q \in Routes, v \in {"up", "failed"} : Message(q, v) = Message(r, w) <=> q = r /\ v = w
        BY MessageFacts
      <3> QED BY Zenon, <3>2, <3>3, <3>4 DEF ByChannel, GivenUp
    <2> QED BY Zenon, <1>3, <2>2
  <1> QED BY Zenon, <1>2, <1>3

LEMMA Attempt ==
    \A n \in 0 .. DIAL_ATTEMPTS : n + 1 < DIAL_ATTEMPTS => n + 1 \in 0 .. DIAL_ATTEMPTS
  BY Bounds

LEMMA FailsKeeps ==
    ASSUME JoinInv, NEW g \in Generations, NEW r \in Routes, DialFails(g, r)
    PROVE  JoinInv'
  <1> USE DEF DialFails
  <1>1. ~ByChannel(g, r) /\ ~GivenUp(g, r) /\ ~BySlot(g, r) /\ <<g, r>> \notin ras
    BY Zenon, ThreadFacts DEF PairInv, ByThread
  <1>2. ras' = ras /\ ~BySlot(g, r)' /\ ras' \subseteq Pairs
    BY Zenon, <1>1, ThreadFacts DEF BySlot
  <1>3. ASSUME NEW x \in {"waiting", "done"}, NEW n \in 0 .. DIAL_ATTEMPTS,
               dial' = [dial EXCEPT ![g][r] = x], tries' = [tries EXCEPT ![g][r] = n],
               inbox' \in [Generations -> SUBSET Messages],
               \A h \in Generations : holder[h] = "gone" => inbox'[h] = inbox[h],
               NEW v \in BOOLEAN,
               \A h \in Generations, q \in Routes :
                 /\ ByChannel(h, q)' <=> ByChannel(h, q)
                 /\ GivenUp(h, q)' <=> GivenUp(h, q) \/ (h = g /\ q = r /\ v),
               v => x = "done",
               x = "waiting" \/ v \/ cancelled[g] \/ holder[g] = "gone"
        PROVE  JoinInv'
    <2>1. /\ dial' \in [Generations -> [Routes -> Places]] /\ dial'[g][r] = x
          /\ \A h \in Generations, q \in Routes : h # g \/ q # r => dial'[h][q] = dial[h][q]
      BY <1>3, ThreadFacts, DialSet, ZenonT(40) DEF Places
    <2>2. tries' \in [Generations -> [Routes -> 0 .. DIAL_ATTEMPTS]]
      BY <1>3, ThreadFacts, TriesSet, ZenonT(40)
    <2>3. TypeOK'
      BY <1>2, <1>3, <2>1, <2>2, ThreadFacts, ThreadType, ZenonT(40)
    <2>4. Elsewhere(g, r)
      BY Zenon, <1>2, <1>3, <2>1 DEF Elsewhere
    <2>5. r \in Unsettled(g)' \/ cancelled[g] \/ holder[g] = "gone"
      BY Zenon, <1>3, <2>1 DEF Unsettled
    <2>6. ~ByThread(g, r)'
      BY Zenon, <1>3, <2>1 DEF ByThread
    <2>7. PairInv(g, r)'
      BY Zenon, <1>1, <1>2, <1>3, <2>1, <2>6 DEF PairInv
    <2> QED BY <1>3, <2>3, <2>4, <2>5, <2>7, ThreadFacts, ThreadKeeps, ZenonT(40)
  <1>4. CASE cancelled[g] /\ dial' = [dial EXCEPT ![g][r] = "done"]
             /\ tries' = [tries EXCEPT ![g][r] = 0] /\ inbox' = inbox
    <2>1. \A h \in Generations, q \in Routes :
                 /\ ByChannel(h, q)' <=> ByChannel(h, q)
                 /\ GivenUp(h, q)' <=> GivenUp(h, q) \/ (h = g /\ q = r /\ FALSE)
      BY Zenon, <1>4 DEF ByChannel, GivenUp
    <2> QED BY <1>3, <1>4, <2>1, ThreadFacts, ZenonT(40)
  <1>5. CASE /\ ~cancelled[g] /\ tries[g][r] + 1 < DIAL_ATTEMPTS
             /\ dial' = [dial EXCEPT ![g][r] = "waiting"]
             /\ tries' = [tries EXCEPT ![g][r] = @ + 1]
             /\ inbox' = [inbox EXCEPT ![g] = IF holder[g] = "gone" THEN @
                                              ELSE @ \cup {Message(r, "retrying")}]
    <2>1. tries[g][r] + 1 \in 0 .. DIAL_ATTEMPTS
      <3>1. tries[g][r] \in 0 .. DIAL_ATTEMPTS /\ tries[g][r] + 1 < DIAL_ATTEMPTS
        BY <1>5, ThreadFacts, ZenonT(40)
      <3> QED BY Zenon, <3>1, Attempt
    <2>2. tries' = [tries EXCEPT ![g][r] = tries[g][r] + 1]
      <3>1. tries \in [Generations -> [Routes -> 0 .. DIAL_ATTEMPTS]]
        BY ThreadFacts, ZenonT(40)
      <3>2. tries' = [tries EXCEPT ![g][r] = @ + 1]
        BY Zenon, <1>5
      <3>3. tries' = [tries EXCEPT ![g] = [tries[g] EXCEPT ![r] = tries[g][r] + 1]]
        BY Zenon, <3>1, <3>2
      <3>4. [tries EXCEPT ![g][r] = tries[g][r] + 1] = [tries EXCEPT ![g] = [tries[g] EXCEPT ![r] = tries[g][r] + 1]]
        BY Zenon, <3>1
      <3> QED BY Zenon, <3>3, <3>4
    <2>3. /\ inbox' \in [Generations -> SUBSET Messages]
          /\ \A h \in Generations : holder[h] = "gone" => inbox'[h] = inbox[h]
          /\ \A h \in Generations, q \in Routes :
                 /\ ByChannel(h, q)' <=> ByChannel(h, q)
                 /\ GivenUp(h, q)' <=> GivenUp(h, q) \/ (h = g /\ q = r /\ FALSE)
      BY <1>5, ThreadFacts, Reports, ZenonT(40)
    <2> QED BY <1>3, <1>5, <2>1, <2>2, <2>3, ZenonT(40)
  <1>6. CASE /\ ~cancelled[g]
             /\ dial' = [dial EXCEPT ![g][r] = "done"]
             /\ tries' = [tries EXCEPT ![g][r] = 0]
             /\ inbox' = [inbox EXCEPT ![g] = IF holder[g] = "gone" THEN @
                                              ELSE @ \cup {Message(r, "failed")}]
    <2> DEFINE v == holder[g] # "gone"
    <2>1. v \in BOOLEAN
      BY Zenon
    <2>2. /\ inbox' \in [Generations -> SUBSET Messages]
          /\ \A h \in Generations : holder[h] = "gone" => inbox'[h] = inbox[h]
          /\ \A h \in Generations, q \in Routes :
                 /\ ByChannel(h, q)' <=> ByChannel(h, q)
                 /\ GivenUp(h, q)' <=> GivenUp(h, q) \/ (h = g /\ q = r /\ v)
      BY <1>6, ThreadFacts, Reports, ZenonT(40)
    <2>3. v \/ holder[g] = "gone"
      OBVIOUS
    <2> HIDE DEF v
    <2> QED BY <1>3, <1>6, <2>1, <2>2, <2>3, ThreadFacts, ZenonT(40)
  <1> QED BY Zenon, <1>4, <1>5, <1>6

LEMMA WaitKeeps ==
    ASSUME JoinInv, NEW g \in Generations, NEW r \in Routes, wait_unless_cancelled(g, r)
    PROVE  JoinInv'
  <1> USE DEF wait_unless_cancelled
  <1>1. PICK x \in {"dialling", "done"} :
            dial' = [dial EXCEPT ![g][r] = x] /\ (x = "done" => cancelled[g])
    <2>1. CASE cancelled[g]
      BY <2>1
    <2>2. CASE ~cancelled[g]
      BY <2>2, ZenonT(40)
    <2> QED BY Zenon, <2>1, <2>2
  <1>2. /\ dial' \in [Generations -> [Routes -> Places]] /\ dial'[g][r] = x
        /\ \A h \in Generations, q \in Routes : h # g \/ q # r => dial'[h][q] = dial[h][q]
    BY <1>1, ThreadFacts, DialSet, ZenonT(40) DEF Places
  <1>3. TypeOK'
    <2>1. /\ inbox' \in [Generations -> SUBSET Messages] /\ ras' \subseteq Pairs
          /\ tries' \in [Generations -> [Routes -> 0 .. DIAL_ATTEMPTS]]
      BY ThreadFacts, ZenonT(40)
    <2> QED BY <1>2, <2>1, ThreadFacts, ThreadType, ZenonT(40)
  <1>4. Elsewhere(g, r)
    BY Zenon, <1>2 DEF Elsewhere, ByChannel, GivenUp
  <1>5. r \in Unsettled(g)' \/ cancelled[g]
    BY Zenon, <1>1, <1>2 DEF Unsettled
  <1>6. PairInv(g, r)'
    <2>1. ~ByChannel(g, r) /\ ~GivenUp(g, r) /\ ~BySlot(g, r) /\ <<g, r>> \notin ras
      BY Zenon, ThreadFacts DEF PairInv, ByThread
    <2>2. ~ByChannel(g, r)' /\ ~GivenUp(g, r)' /\ ~BySlot(g, r)' /\ ~ByThread(g, r)'
      BY Zenon, <1>2, <2>1 DEF ByChannel, GivenUp, BySlot, ByThread
    <2> QED BY Zenon, <2>1, <2>2 DEF PairInv
  <1> QED BY <1>3, <1>4, <1>5, <1>6, ThreadFacts, ThreadKeeps, ZenonT(40)

-----------------------------------------------------------------------------
(* What the invariant says of the slot. *)
LEMMA SlotFacts ==
    ASSUME JoinInv
    PROVE  /\ TypeOK /\ SlotInv
           /\ gen \in Nat /\ started \in Nat /\ started <= MaxGenerations /\ gen <= started
           /\ phase # "idle" => gen \in Generations
           /\ \A h \in Generations : DialsInv(h) /\ \A q \in Routes : PairInv(h, q)
  BY Bounds, SMTT(20) DEF JoinInv, TypeOK, SlotInv

(* The slot's connections hung up. *)
LEMMA TeardownPairs ==
    ASSUME JoinInv, ras' = ras \ kept, kept' = {}, NEW h \in Generations, NEW q \in Routes,
           dial'[h] = dial[h], inbox'[h] = inbox[h]
    PROVE  PairInv(h, q)'
  <1>1. PairInv(h, q)
    BY Zenon, SlotFacts
  <1>2. /\ ByThread(h, q)' <=> ByThread(h, q)
        /\ ByChannel(h, q)' <=> ByChannel(h, q)
        /\ GivenUp(h, q)' <=> GivenUp(h, q)
        /\ dial'[h][q] = dial[h][q]
        /\ ~BySlot(h, q)'
    BY Zenon DEF ByThread, ByChannel, GivenUp, BySlot
  <1>3. BySlot(h, q) => ~ByThread(h, q) /\ ~ByChannel(h, q)
    BY Zenon, <1>1 DEF PairInv, Unsettled, ByThread
  <1>4. <<h, q>> \in ras' <=> <<h, q>> \in ras /\ ~BySlot(h, q)
    BY Zenon DEF BySlot
  <1> QED BY Zenon, <1>1, <1>2, <1>3, <1>4 DEF PairInv

LEMMA StopKeeps ==
    ASSUME JoinInv, Stop
    PROVE  JoinInv'
  <1> USE DEF Stop, take_for_teardown
  <1>1. \A h \in Generations, q \in Routes : PairInv(h, q)'
    BY Zenon, TeardownPairs
  <1>2. cancelled' \in [Generations -> BOOLEAN]
        /\ \A h \in Generations : cancelled'[h] = (cancelled[h] \/ h = gen)
    BY Zenon DEF JoinInv, TypeOK
  <1>3. TypeOK'
    <2>1. ras' \subseteq Pairs /\ kept' \subseteq Pairs /\ attached' \subseteq Pairs /\ pending' \subseteq Routes
      BY Zenon, SlotFacts DEF TypeOK
    <2>2. gen' \in 0 .. MaxGenerations
      BY Bounds
    <2> QED BY Zenon, <1>2, <2>1, <2>2, SlotFacts DEF TypeOK
  <1>4. ASSUME NEW h \in Generations PROVE DialsInv(h)'
    <2>1. DialsInv(h) /\ gen <= started /\ gen \in Nat /\ started \in Nat /\ h \in Nat
      BY Zenon, SlotFacts, Bounds
    <2>2. h > started => ~cancelled'[h]
      <3>1. h > started => h # gen /\ ~cancelled[h]
        BY <2>1 DEF DialsInv
      <3> QED BY <1>2, <3>1, ZenonT(40)
    <2>3. Unsettled(h)' = Unsettled(h)
      BY Zenon DEF Unsettled, ByChannel, GivenUp
    <2>4. holder[h] # "start"
      BY Zenon, <2>1 DEF DialsInv
    <2> QED BY Zenon, <2>1, <2>2, <2>3, <2>4 DEF DialsInv
  <1>5. SlotInv'
    BY SlotFacts DEF SlotInv
  <1> QED BY Zenon, <1>1, <1>3, <1>4, <1>5 DEF JoinInv

LEMMA BeginKeeps ==
    ASSUME JoinInv, Begin
    PROVE  JoinInv'
  <1>0. started + 1 \in Generations
    BY SlotFacts, Bounds DEF Begin
  <1>a. PICK g \in Generations : g = started + 1
    BY Zenon, <1>0
  <1>1. g \in Generations /\ g \in Nat /\ gen < g /\ started < g
    BY <1>a, SlotFacts, Bounds
  <1>2. /\ started' = g /\ gen' = g /\ phase' = "starting" /\ phase # "starting"
        /\ dial' = [dial EXCEPT ![g] = [r \in Routes |-> "dialling"]]
        /\ holder' = [holder EXCEPT ![g] = "start"]
        /\ left' = [left EXCEPT ![g] = Cardinality(Routes)]
        /\ ras' = ras \ kept /\ kept' = {} /\ attached' = {}
        /\ cancelled' = [h \in Generations |-> cancelled[h] \/ h = gen]
        /\ pending' = Routes /\ tries' = tries /\ inbox' = inbox
    BY Zenon, <1>a DEF Begin, take_for_teardown
  <1>3. dial' \in [Generations -> [Routes -> Places]] /\ (\A q \in Routes : dial'[g][q] = "dialling")
        /\ \A h \in Generations : h # g => dial'[h] = dial[h]
    <2>1. dial \in [Generations -> [Routes -> Places]] /\ [r \in Routes |-> "dialling"] \in [Routes -> Places]
      BY Zenon, SlotFacts DEF TypeOK, Places
    <2> QED BY Zenon, <1>1, <1>2, <2>1
  <1>4. /\ holder' \in [Generations -> {"start", "join", "gone"}] /\ holder'[g] = "start"
        /\ \A h \in Generations : h # g => holder'[h] = holder[h]
    BY Zenon, <1>1, <1>2, SlotFacts DEF TypeOK
  <1>5. /\ left' \in [Generations -> 0 .. Cardinality(Routes)] /\ left'[g] = Cardinality(Routes)
        /\ \A h \in Generations : h # g => left'[h] = left[h]
    <2>1. Cardinality(Routes) \in 0 .. Cardinality(Routes) /\ left \in [Generations -> 0 .. Cardinality(Routes)]
      BY Bounds, SlotFacts DEF TypeOK
    <2> QED BY Zenon, <1>1, <1>2, <2>1
  <1>6. cancelled' \in [Generations -> BOOLEAN]
        /\ \A h \in Generations : cancelled'[h] = (cancelled[h] \/ h = gen)
    BY Zenon, <1>2, SlotFacts DEF TypeOK
  <1>7. TypeOK'
    <2>1. ras' \subseteq Pairs /\ kept' \subseteq Pairs /\ attached' \subseteq Pairs /\ pending' \subseteq Routes
      BY Zenon, <1>2, SlotFacts DEF TypeOK
    <2>2. gen' \in 0 .. MaxGenerations /\ started' \in 0 .. MaxGenerations
      BY <1>1, <1>2, Bounds
    <2> QED BY Zenon, <1>2, <1>3, <1>4, <1>5, <1>6, <2>1, <2>2, SlotFacts DEF TypeOK, Places
  <1>8. DialsInv(g) /\ inbox[g] = {} /\ ~cancelled[g] /\ \A q \in Routes : dial[g][q] = "done"
    BY Zenon, <1>1, SlotFacts DEF DialsInv
  <1>9. Unsettled(g)' = Routes
    BY Zenon, <1>3 DEF Unsettled
  <1>10. \A h \in Generations : h # g => Unsettled(h)' = Unsettled(h)
    BY Zenon, <1>2, <1>3 DEF Unsettled, ByChannel, GivenUp
  <1>11. ASSUME NEW h \in Generations, NEW q \in Routes PROVE PairInv(h, q)'
    <2>1. CASE h # g
      BY Zenon, <1>2, <1>3, <2>1, TeardownPairs
    <2>2. CASE h = g
      <3>1. ~ByThread(g, q) /\ ~ByChannel(g, q) /\ PairInv(g, q)
        BY Zenon, <1>1, <1>8, SlotFacts DEF ByThread, ByChannel
      <3>2. <<g, q>> \notin ras'
        BY Zenon, <1>2, <3>1 DEF PairInv, BySlot
      <3>3. ~ByThread(g, q)' /\ ~ByChannel(g, q)' /\ ~GivenUp(g, q)' /\ ~BySlot(g, q)'
        BY Zenon, <1>2, <1>3, <1>8 DEF ByThread, ByChannel, GivenUp, BySlot
      <3> QED BY Zenon, <2>2, <3>2, <3>3 DEF PairInv
    <2> QED BY Zenon, <2>1, <2>2
  <1>12. ASSUME NEW h \in Generations PROVE DialsInv(h)'
    <2>1. CASE h # g
      <3>1. DialsInv(h) /\ h \in Nat /\ gen <= started /\ gen \in Nat /\ started \in Nat
        BY Zenon, SlotFacts, Bounds
      <3>2. h > started' => h > started /\ h # gen
        BY <1>1, <1>2, <3>1
      <3>3. h > started' => ~cancelled'[h]
        BY Zenon, <1>6, <3>1, <3>2 DEF DialsInv
      <3>4. h > started' => \A q \in Routes : dial'[h][q] = "done"
        BY Zenon, <1>3, <2>1, <3>1, <3>2 DEF DialsInv
      <3>5. holder[h] # "start"
        BY Zenon, <1>2, <3>1 DEF DialsInv
      <3> QED BY Zenon, <1>2, <1>4, <1>5, <1>10, <2>1, <3>1, <3>2, <3>3, <3>4, <3>5 DEF DialsInv
    <2>2. CASE h = g
      <3>1. Cardinality(Unsettled(g)') <= left'[g]
        BY <1>5, <1>9, Bounds
      <3>2. ~(g > started')
        BY <1>1, <1>2
      <3> QED BY Zenon, <1>2, <1>4, <2>2, <3>1, <3>2 DEF DialsInv
    <2> QED BY Zenon, <2>1, <2>2
  <1>13. SlotInv'
    <2>1. ~cancelled'[g]
      BY <1>1, <1>6, <1>8
    <2>2. gen' <= started' /\ gen' # 0
      BY <1>1, <1>2, Bounds
    <2>3. pending' = Unsettled(gen)'
      BY Zenon, <1>2, <1>9
    <2> QED BY Zenon, <1>2, <1>4, <1>5, <2>1, <2>2, <2>3 DEF SlotInv
  <1> QED BY Zenon, <1>7, <1>11, <1>12, <1>13 DEF JoinInv

-----------------------------------------------------------------------------
(* The message, and no other outcome, is out of the channel. *)
Took(g, m) ==
    \A h \in Generations, q \in Routes :
        /\ ByChannel(h, q)' <=> ByChannel(h, q) /\ ~(h = g /\ q = m.route /\ m.what = "up")
        /\ GivenUp(h, q)' <=> GivenUp(h, q) /\ ~(h = g /\ q = m.route /\ m.what = "failed")

LEMMA ReceivedFacts ==
    ASSUME JoinInv, NEW g \in Generations, NEW m \in inbox[g]
    PROVE  /\ m.route \in Routes /\ m.what \in {"up", "failed", "retrying"}
           /\ m.what = "up" <=> m.what # "retrying" /\ ByChannel(g, m.route)
           /\ m.what = "failed" <=> m.what # "retrying" /\ GivenUp(g, m.route)
           /\ m.what # "retrying" =>
                 /\ m.route \in Unsettled(g) /\ dial[g][m.route] = "done" /\ ~BySlot(g, m.route)
           /\ holder[g] # "gone" /\ inbox[g] # {}
           /\ left[g] \in 0 .. Cardinality(Routes)
           /\ Unsettled(g) \subseteq Routes
           /\ Cardinality(Unsettled(g)) \in Nat /\ Cardinality(Unsettled(g)) <= left[g]
           /\ \A P \in SUBSET Unsettled(g) : Cardinality(P) \in Nat
           /\ m.what # "retrying" =>
                 Cardinality(Unsettled(g) \ {m.route}) = Cardinality(Unsettled(g)) - 1
  <1>1. m \in Messages
    BY Zenon, SlotFacts DEF TypeOK, Messages
  <1>2. m.route \in Routes /\ m.what \in {"up", "failed", "retrying"} /\ m = Message(m.route, m.what)
    BY Zenon, <1>1, MessageFacts DEF Messages
  <1>3. PairInv(g, m.route) /\ DialsInv(g)
    BY Zenon, <1>2, SlotFacts
  <1>4. (m.what = "up" => ByChannel(g, m.route)) /\ (m.what = "failed" => GivenUp(g, m.route))
    BY Zenon, <1>2 DEF ByChannel, GivenUp
  <1>5. m.what # "retrying" =>
            m.route \in Unsettled(g) /\ dial[g][m.route] = "done" /\ ~BySlot(g, m.route)
    BY Zenon, <1>2, <1>3, <1>4 DEF PairInv, Unsettled
  <1>6. holder[g] # "gone" /\ inbox[g] # {} /\ Cardinality(Unsettled(g)) <= left[g]
    BY Zenon, <1>3 DEF DialsInv
  <1>7. Unsettled(g) \subseteq Routes
    BY Zenon DEF Unsettled
  <1>8. /\ Cardinality(Unsettled(g)) \in Nat
        /\ \A q \in Unsettled(g) : Cardinality(Unsettled(g) \ {q}) = Cardinality(Unsettled(g)) - 1
    BY Zenon, <1>7, UnsettledFinite
  <1>9. \A P \in SUBSET Unsettled(g) : Cardinality(P) \in Nat
    BY Zenon, <1>7, UnsettledFinite
  <1>10. left[g] \in 0 .. Cardinality(Routes)
    BY Zenon, SlotFacts DEF TypeOK
  <1>11. (m.what = "up" <=> m.what # "retrying" /\ ByChannel(g, m.route))
         /\ (m.what = "failed" <=> m.what # "retrying" /\ GivenUp(g, m.route))
    BY <1>2, <1>3, <1>4, ZenonT(40) DEF PairInv
  <1> QED BY Zenon, <1>2, <1>5, <1>6, <1>7, <1>8, <1>9, <1>10, <1>11

(* What can still come after a message has been received. *)
LEMMA TookSettles ==
    ASSUME JoinInv, NEW g \in Generations, NEW m \in inbox[g], Took(g, m), dial' = dial
    PROVE  /\ \A h \in Generations : h # g => Unsettled(h)' = Unsettled(h)
           /\ m.what = "retrying" => Unsettled(g)' = Unsettled(g)
           /\ m.what # "retrying" => Unsettled(g)' = Unsettled(g) \ {m.route}
           /\ Cardinality(Unsettled(g)') \in Nat /\ Cardinality(Unsettled(g)') <= Expected(g, m)
           /\ Expected(g, m) \in 0 .. Cardinality(Routes)
           /\ left[g] = Cardinality(Unsettled(g)) => Expected(g, m) = Cardinality(Unsettled(g)')
  <1>1. \A h \in Generations : h # g => Unsettled(h)' = Unsettled(h)
    BY Zenon DEF Took, Unsettled
  <1>2. m.what = "retrying" => Unsettled(g)' = Unsettled(g)
    BY Zenon DEF Took, Unsettled
  <1>3. m.what # "retrying" => Unsettled(g)' = Unsettled(g) \ {m.route}
    <2> SUFFICES ASSUME m.what # "retrying"
                 PROVE  \A q \in Routes : q \in Unsettled(g)' <=> q \in Unsettled(g) /\ q # m.route
      BY Zenon DEF Unsettled
    <2> TAKE q \in Routes
    <2>1. CASE q # m.route
      BY Zenon, <2>1 DEF Took, Unsettled
    <2>2. CASE q = m.route
      <3>1. ~ByChannel(g, q)' /\ ~GivenUp(g, q)' /\ dial'[g][q] = "done"
        BY <2>2, ReceivedFacts, ZenonT(40) DEF Took
      <3> QED BY Zenon, <2>2, <3>1 DEF Unsettled
    <2> QED BY Zenon, <2>1, <2>2
  <1>4. CASE m.what = "retrying"
    BY <1>1, <1>2, <1>4, ReceivedFacts, ZenonT(40) DEF Expected
  <1>5. CASE m.what # "retrying"
    <2> DEFINE n == Cardinality(Unsettled(g))
    <2>1. /\ n \in Nat /\ Cardinality(Unsettled(g)') = n - 1 /\ n - 1 \in Nat
          /\ n <= left[g] /\ left[g] \in 0 .. Cardinality(Routes)
      <3>1. (Unsettled(g) \ {m.route}) \in SUBSET Unsettled(g)
        BY ZenonT(40)
      <3>2. Cardinality(Unsettled(g) \ {m.route}) \in Nat
        BY Zenon, <3>1, ReceivedFacts
      <3> QED BY Zenon, <1>3, <1>5, <3>2, ReceivedFacts
    <2>2. Expected(g, m) = left[g] - 1
      BY Zenon, <1>5 DEF Expected
    <2> HIDE DEF n
    <2>3. /\ n - 1 <= left[g] - 1 /\ left[g] - 1 \in 0 .. Cardinality(Routes)
          /\ left[g] = n => left[g] - 1 = n - 1
      BY <2>1, Bounds
    <2> QED BY Zenon, <1>1, <1>3, <1>5, <2>1, <2>2, <2>3 DEF n
  <1> QED BY Zenon, <1>4, <1>5

(* The last message: with no other outcome to come, dropping the channel is
   receiving the message. *)
LEMMA LastOne ==
    ASSUME JoinInv, NEW g \in Generations, NEW m \in inbox[g], holder[g] = "join",
           Expected(g, m) = 0, DropDials(g), dial' = dial
    PROVE  Took(g, m) /\ m.what # "retrying"
  <1>1. left[g] > 0
    BY Zenon, SlotFacts DEF DialsInv
  <1>2. m.what # "retrying" /\ left[g] = 1
    BY <1>1, ReceivedFacts, Bounds DEF Expected
  <1>3. Cardinality(Unsettled(g) \ {m.route}) = 0
    <2>1. Cardinality(Unsettled(g) \ {m.route}) = Cardinality(Unsettled(g)) - 1
          /\ Cardinality(Unsettled(g)) \in Nat /\ Cardinality(Unsettled(g)) <= 1
      BY Zenon, <1>2, ReceivedFacts
    <2>2. (Unsettled(g) \ {m.route}) \in SUBSET Unsettled(g)
      BY Zenon
    <2>3. Cardinality(Unsettled(g) \ {m.route}) \in Nat
      BY Zenon, <2>2, ReceivedFacts
    <2> QED BY <2>1, <2>3
  <1>4. Unsettled(g) \ {m.route} = {}
    <2>1. (Unsettled(g) \ {m.route}) \in SUBSET Routes
      BY ReceivedFacts, ZenonT(40)
    <2> QED BY <1>3, <2>1, UnsettledFinite, ZenonT(40)
  <1>5. \A q \in Routes : ByChannel(g, q) \/ GivenUp(g, q) => q = m.route
    BY <1>4 DEF Unsettled
  <1>6. ByChannel(g, m.route) => m.what = "up"
    BY <1>2, ReceivedFacts, ZenonT(40)
  <1>7. GivenUp(g, m.route) => m.what = "failed"
    BY <1>2, ReceivedFacts, ZenonT(40)
  <1>8. \A h \in Generations, q \in Routes :
                 /\ ByChannel(h, q)' <=> ByChannel(h, q) /\ h # g
                 /\ GivenUp(h, q)' <=> GivenUp(h, q) /\ h # g
    BY Zenon, SlotFacts, InboxEmpties
  <1> QED BY Zenon, <1>2, <1>5, <1>6, <1>7, <1>8 DEF Took

(* The pairs' part, whoever ends up with the connection. *)
LEMMA ReceivePairs ==
    ASSUME JoinInv, NEW g \in Generations, NEW m \in inbox[g], Took(g, m), dial' = dial,
           \/ m.what = "retrying" /\ ras' = ras /\ kept' = kept
           \/ m.what # "retrying" /\ ras' = ras
              /\ kept' = IF m.what = "up" THEN kept \cup {<<g, m.route>>} ELSE kept
           \/ m.what # "retrying" /\ ras' = ras \ {<<g, m.route>>} /\ kept' = kept,
           NEW h \in Generations, NEW q \in Routes
    PROVE  PairInv(h, q)'
  <1>1. PairInv(h, q) /\ (ByThread(h, q)' <=> ByThread(h, q)) /\ dial'[h][q] = dial[h][q]
    BY Zenon, SlotFacts DEF ByThread
  <1>2. q \in Unsettled(h)' => q \in Unsettled(h)
    BY DEF Took, Unsettled
  <1>3. /\ ByChannel(h, q)' <=> ByChannel(h, q) /\ ~(h = g /\ q = m.route /\ m.what = "up")
        /\ GivenUp(h, q)' <=> GivenUp(h, q) /\ ~(h = g /\ q = m.route /\ m.what = "failed")
    BY ZenonT(40) DEF Took
  <1>4. CASE h # g \/ q # m.route \/ m.what = "retrying"
    <2>1. (<<h, q>> \in ras' <=> <<h, q>> \in ras) /\ (BySlot(h, q)' <=> BySlot(h, q))
      BY Zenon, <1>4 DEF BySlot
    <2>2. (ByChannel(h, q)' <=> ByChannel(h, q)) /\ (GivenUp(h, q)' <=> GivenUp(h, q))
      BY <1>3, <1>4, ZenonT(40)
    <2> QED BY Zenon, <1>1, <1>2, <2>1, <2>2 DEF PairInv
  <1>5. CASE h = g /\ q = m.route /\ m.what # "retrying"
    <2>1. /\ dial[h][q] = "done" /\ ~BySlot(h, q) /\ ~ByThread(h, q)
          /\ (m.what = "up" <=> ByChannel(h, q)) /\ (m.what = "failed" <=> GivenUp(h, q))
      BY <1>5, ReceivedFacts, ZenonT(40) DEF ByThread
    <2>2. ~ByChannel(h, q)' /\ ~GivenUp(h, q)' /\ ~ByThread(h, q)' /\ q \notin Unsettled(h)'
      BY Zenon, <1>1, <1>3, <1>5, <2>1 DEF Unsettled
    <2>3. <<h, q>> \in ras <=> m.what = "up"
      BY Zenon, <1>1, <2>1 DEF PairInv
    <2>4. <<h, q>> \in ras' <=> BySlot(h, q)'
      BY Zenon, <1>5, <2>1, <2>3 DEF BySlot
    <2> QED BY <2>2, <2>4, ZenonT(40) DEF PairInv
  <1> QED BY Zenon, <1>4, <1>5

(* A session's dials that a step leaves alone. *)
LEMMA OtherDials ==
    ASSUME JoinInv, NEW h \in Generations, dial'[h] = dial[h], inbox'[h] = inbox[h],
           holder'[h] = holder[h], cancelled'[h] = cancelled[h], left'[h] = left[h],
           Unsettled(h)' = Unsettled(h), started' = started,
           holder[h] = "start" => gen' = gen /\ phase' = phase
    PROVE  DialsInv(h)'
  BY SlotFacts DEF DialsInv

LEMMA CollectKeeps ==
    ASSUME JoinInv, Collect
    PROVE  JoinInv'
  <1>0. gen \in Generations /\ holder[gen] = "start" /\ ~cancelled[gen] /\ pending = Unsettled(gen)
        /\ left[gen] = Cardinality(Unsettled(gen)) /\ phase = "starting"
    BY Zenon, SlotFacts DEF Collect, SlotInv
  <1>a. PICK g \in Generations : g = gen
    BY Zenon, <1>0
  <1>1. PICK m \in inbox[g] :
          /\ inbox' = [inbox EXCEPT ![g] = @ \ {m}]
          /\ left' = [left EXCEPT ![g] = Expected(g, m)]
          /\ kept' = IF m.what = "up" THEN kept \cup {<<g, m.route>>} ELSE kept
          /\ pending' = IF m.what = "retrying" THEN pending ELSE pending \ {m.route}
    BY <1>a, ZenonT(40) DEF Collect
  <1>2. UNCHANGED <<gen, phase, started, dial, tries, cancelled, holder, ras, attached>>
    BY DEF Collect
  <1>3. /\ inbox' \in [Generations -> SUBSET Messages]
        /\ \A h \in Generations : h # g => inbox'[h] = inbox[h]
        /\ Took(g, m)
    BY <1>1, SlotFacts, InboxTakes, ZenonT(40) DEF Took
  <1>4. /\ \A h \in Generations : h # g => Unsettled(h)' = Unsettled(h)
        /\ m.what = "retrying" => Unsettled(g)' = Unsettled(g)
        /\ m.what # "retrying" => Unsettled(g)' = Unsettled(g) \ {m.route}
        /\ Cardinality(Unsettled(g)') \in Nat /\ Cardinality(Unsettled(g)') <= Expected(g, m)
        /\ Expected(g, m) \in 0 .. Cardinality(Routes)
        /\ Expected(g, m) = Cardinality(Unsettled(g)')
    BY Zenon, <1>0, <1>a, <1>2, <1>3, TookSettles
  <1>5. /\ left' \in [Generations -> 0 .. Cardinality(Routes)] /\ left'[g] = Expected(g, m)
        /\ \A h \in Generations : h # g => left'[h] = left[h]
    BY Zenon, <1>1, <1>4, SlotFacts DEF TypeOK
  <1>6. \A h \in Generations, q \in Routes : PairInv(h, q)'
    BY Zenon, <1>1, <1>2, <1>3, ReceivePairs
  <1>7. m.route \in Routes /\ <<g, m.route>> \in Pairs
    BY ReceivedFacts, ZenonT(40) DEF Pairs
  <1>8. TypeOK'
    <2>1. kept' \subseteq Pairs
      BY <1>1, <1>7, SlotFacts, ZenonT(40) DEF TypeOK
    <2>2. pending' \subseteq Routes
      BY Zenon, <1>1, SlotFacts DEF TypeOK
    <2> QED BY Zenon, <1>2, <1>3, <1>5, <2>1, <2>2, SlotFacts DEF TypeOK, Messages
  <1>9. ASSUME NEW h \in Generations PROVE DialsInv(h)'
    <2>1. CASE h # g
      BY Zenon, <1>2, <1>3, <1>4, <1>5, <2>1, OtherDials
    <2>2. CASE h = g
      <3>1. DialsInv(g)
        BY Zenon, SlotFacts
      <3> QED BY Zenon, <1>0, <1>a, <1>2, <1>4, <1>5, <2>2, <3>1 DEF DialsInv
    <2> QED BY Zenon, <2>1, <2>2
  <1>10. SlotInv'
    <2>1. pending' = Unsettled(g)'
      BY Zenon, <1>0, <1>a, <1>1, <1>4
    <2>2. \A c \in kept' \cup attached' : c[1] = gen
      BY <1>a, <1>1, <1>2, SlotFacts DEF SlotInv
    <2>3. left'[g] = Cardinality(pending')
      BY Zenon, <1>4, <1>5, <2>1
    <2>4. SlotInv
      BY Zenon, SlotFacts
    <2> QED BY Zenon, <1>0, <1>a, <1>2, <2>1, <2>2, <2>3, <2>4 DEF SlotInv
  <1> QED BY Zenon, <1>6, <1>8, <1>9, <1>10 DEF JoinInv

LEMMA ReceivesKeeps ==
    ASSUME JoinInv, NEW g \in Generations, JoinReceives(g)
    PROVE  JoinInv'
  <1>0. holder[g] = "join" /\ phase # "starting" /\ UNCHANGED <<gen, phase, started, dial, tries>>
    BY Zenon DEF JoinReceives, SlotUnlocked
  <1>1. PICK m \in inbox[g] :
          /\ \/ m.what = "retrying" /\ gen = g /\ UNCHANGED <<ras, kept, attached, pending>>
             \/ m.what # "retrying" /\ attach(g, m)
          /\ \/ /\ Expected(g, m) > 0
                /\ inbox' = [inbox EXCEPT ![g] = @ \ {m}]
                /\ left' = [left EXCEPT ![g] = Expected(g, m)]
                /\ UNCHANGED <<holder, cancelled>>
             \/ Expected(g, m) = 0 /\ DropDials(g)
    BY ZenonT(40) DEF JoinReceives
  <1>2. m.route \in Routes /\ <<g, m.route>> \in Pairs
    BY ReceivedFacts, ZenonT(40) DEF Pairs
  <1>3. /\ inbox' \in [Generations -> SUBSET Messages] /\ Took(g, m)
        /\ holder' \in [Generations -> {"start", "join", "gone"}]
        /\ cancelled' \in [Generations -> BOOLEAN]
        /\ left' \in [Generations -> 0 .. Cardinality(Routes)]
        /\ \A h \in Generations : h # g =>
              inbox'[h] = inbox[h] /\ holder'[h] = holder[h] /\ cancelled'[h] = cancelled[h] /\ left'[h] = left[h]
        /\ \/ /\ Expected(g, m) > 0 /\ holder'[g] = "join" /\ left'[g] = Expected(g, m)
              /\ cancelled' = cancelled
           \/ Expected(g, m) = 0 /\ holder'[g] = "gone" /\ inbox'[g] = {}
    <2>1. CASE /\ Expected(g, m) > 0
               /\ inbox' = [inbox EXCEPT ![g] = @ \ {m}]
               /\ left' = [left EXCEPT ![g] = Expected(g, m)]
               /\ UNCHANGED <<holder, cancelled>>
      <3>1. /\ inbox' \in [Generations -> SUBSET Messages] /\ Took(g, m)
            /\ \A h \in Generations : h # g => inbox'[h] = inbox[h]
        BY <2>1, SlotFacts, InboxTakes, ZenonT(40) DEF Took
      <3>2. Expected(g, m) \in 0 .. Cardinality(Routes)
        BY Zenon, <1>0, <3>1, TookSettles
      <3>3. /\ left' \in [Generations -> 0 .. Cardinality(Routes)] /\ left'[g] = Expected(g, m)
            /\ \A h \in Generations : h # g => left'[h] = left[h]
        BY Zenon, <2>1, <3>2, SlotFacts DEF TypeOK
      <3>4. holder' \in [Generations -> {"start", "join", "gone"}] /\ cancelled' \in [Generations -> BOOLEAN]
        BY <2>1, SlotFacts, ZenonT(40) DEF TypeOK
      <3> QED BY Zenon, <1>0, <2>1, <3>1, <3>3, <3>4
    <2>2. CASE Expected(g, m) = 0 /\ DropDials(g)
      <3>1. Took(g, m)
        BY <1>0, <2>2, LastOne, ZenonT(40)
      <3> QED BY <2>2, <3>1, SlotFacts, InboxEmpties, ZenonT(40)
    <2> QED BY Zenon, <1>1, <2>1, <2>2
  <1>4. /\ \A h \in Generations : h # g => Unsettled(h)' = Unsettled(h)
        /\ m.what = "retrying" => Unsettled(g)' = Unsettled(g)
        /\ m.what # "retrying" => Unsettled(g)' = Unsettled(g) \ {m.route}
        /\ Cardinality(Unsettled(g)') \in Nat /\ Cardinality(Unsettled(g)') <= Expected(g, m)
        /\ left[g] = Cardinality(Unsettled(g)) => Expected(g, m) = Cardinality(Unsettled(g)')
    BY Zenon, <1>0, <1>3, TookSettles
  <1>5. \/ m.what = "retrying" /\ gen = g /\ UNCHANGED <<ras, kept, attached, pending>>
        \/ m.what # "retrying" /\ TakesOutcome(g, m)
        \/ m.what # "retrying" /\ HangsUp(g, m)
    BY <1>1, ZenonT(40) DEF attach
  <1>6. \A h \in Generations, q \in Routes : PairInv(h, q)'
    <2>1. \/ m.what = "retrying" /\ ras' = ras /\ kept' = kept
          \/ m.what # "retrying" /\ ras' = ras
             /\ kept' = IF m.what = "up" THEN kept \cup {<<g, m.route>>} ELSE kept
          \/ m.what # "retrying" /\ ras' = ras \ {<<g, m.route>>} /\ kept' = kept
      BY Zenon, <1>5 DEF TakesOutcome, HangsUp
    <2> QED BY <1>0, <1>3, <2>1, ReceivePairs, ZenonT(40)
  <1>7. /\ kept' \subseteq Pairs /\ attached' \subseteq Pairs /\ ras' \subseteq Pairs /\ pending' \subseteq Routes
        /\ \A c \in kept' \cup attached' : c[1] = gen
    <2>1. /\ kept \subseteq Pairs /\ attached \subseteq Pairs /\ ras \subseteq Pairs /\ pending \subseteq Routes
          /\ \A c \in kept \cup attached : c[1] = gen
      BY Zenon, SlotFacts DEF TypeOK, SlotInv
    <2> QED BY <1>2, <1>5, <2>1 DEF TakesOutcome, HangsUp
  <1>8. TypeOK'
    BY Zenon, <1>0, <1>3, <1>7, SlotFacts DEF TypeOK, Messages
  <1>9. ASSUME NEW h \in Generations PROVE DialsInv(h)'
    <2>1. CASE h # g
      BY <1>0, <1>3, <1>4, <2>1, OtherDials, ZenonT(40)
    <2>2. CASE h = g
      <3>1. DialsInv(g) /\ ~(g > started)
        BY <1>0, SlotFacts, ZenonT(40) DEF DialsInv
      <3> QED BY <1>0, <1>3, <1>4, <2>2, <3>1, ZenonT(40) DEF DialsInv
    <2> QED BY <2>1, <2>2, ZenonT(40)
  <1>10. SlotInv'
    <2>0. SlotInv
      BY SlotFacts, ZenonT(40)
    <2>1. CASE gen = g
      <3>1. phase # "idle" /\ ~cancelled[g] /\ pending = Unsettled(g) /\ left[g] = Cardinality(Unsettled(g))
        BY <1>0, <2>0, <2>1, Bounds, ZenonT(40) DEF SlotInv
      <3>2. pending' = Unsettled(g)'
        BY <1>4, <1>5, <2>1, <3>1, ZenonT(40) DEF TakesOutcome, HangsUp
      <3>3. Expected(g, m) = Cardinality(pending')
        BY <1>4, <3>1, <3>2, ZenonT(40)
      <3>4. holder'[g] = "gone" => pending' = {}
        <4>1. Unsettled(g)' \subseteq Routes
          BY Zenon DEF Unsettled
        <4> QED BY Zenon, <1>3, <3>2, <3>3, <4>1, UnsettledFinite
      <3>5. holder'[g] # "gone" => ~cancelled'[g] /\ left'[g] = Cardinality(pending')
        BY <1>3, <3>1, <3>3, ZenonT(40)
      <3> QED BY <1>0, <1>7, <2>0, <2>1, <3>2, <3>4, <3>5, ZenonT(40) DEF SlotInv
    <2>2. CASE gen # g
      <3>1. pending' = pending
        BY <1>5, <2>2, ZenonT(40) DEF TakesOutcome, HangsUp
      <3>2. phase # "idle" => gen \in Generations
        BY SlotFacts, ZenonT(40)
      <3>3. phase # "idle" =>
              /\ Unsettled(gen)' = Unsettled(gen) /\ holder'[gen] = holder[gen]
              /\ cancelled'[gen] = cancelled[gen] /\ left'[gen] = left[gen]
        BY Zenon, <1>0, <1>3, <1>4, <2>2, <3>2
      <3> QED BY <1>0, <1>7, <2>0, <3>1, <3>3, ZenonT(40) DEF SlotInv
    <2> QED BY <2>1, <2>2, ZenonT(40)
  <1> QED BY Zenon, <1>6, <1>8, <1>9, <1>10 DEF JoinInv

LEMMA SucceedsKeeps ==
    ASSUME JoinInv, StartSucceeds
    PROVE  JoinInv'
  <1>0. /\ gen \in Generations /\ holder[gen] = "start" /\ ~cancelled[gen] /\ pending = Unsettled(gen)
        /\ left[gen] = Cardinality(Unsettled(gen)) /\ left[gen] \in Nat /\ phase = "starting" /\ gen # 0
    BY SlotFacts, Bounds DEF StartSucceeds, SlotInv, TypeOK
  <1>a. PICK g \in Generations : g = gen
    BY Zenon, <1>0
  <1>1. /\ phase' = "running" /\ attached' = kept
        /\ UNCHANGED <<gen, started, dial, tries, ras, kept, pending>>
    BY Zenon DEF StartSucceeds
  <1>2. /\ inbox' \in [Generations -> SUBSET Messages]
        /\ holder' \in [Generations -> {"start", "join", "gone"}]
        /\ cancelled' \in [Generations -> BOOLEAN]
        /\ left' \in [Generations -> 0 .. Cardinality(Routes)]
        /\ \A h \in Generations : h # g =>
              inbox'[h] = inbox[h] /\ holder'[h] = holder[h] /\ cancelled'[h] = cancelled[h] /\ left'[h] = left[h]
        /\ \A h \in Generations, q \in Routes :
              (ByChannel(h, q)' <=> ByChannel(h, q)) /\ (GivenUp(h, q)' <=> GivenUp(h, q))
        /\ \/ left[g] > 0 /\ holder'[g] = "join" /\ UNCHANGED <<cancelled, inbox, left>>
           \/ holder'[g] = "gone" /\ inbox'[g] = {} /\ pending = {}
    <2>1. CASE left[gen] > 0 /\ holder' = [holder EXCEPT ![gen] = "join"] /\ UNCHANGED <<cancelled, inbox, left>>
      <3>1. /\ holder' \in [Generations -> {"start", "join", "gone"}] /\ holder'[g] = "join"
            /\ \A h \in Generations : h # g => holder'[h] = holder[h]
        BY Zenon, <1>a, <2>1, SlotFacts DEF TypeOK
      <3>2. \A h \in Generations, q \in Routes :
                (ByChannel(h, q)' <=> ByChannel(h, q)) /\ (GivenUp(h, q)' <=> GivenUp(h, q))
        BY Zenon, <2>1 DEF ByChannel, GivenUp
      <3>3. /\ inbox' \in [Generations -> SUBSET Messages] /\ cancelled' \in [Generations -> BOOLEAN]
            /\ left' \in [Generations -> 0 .. Cardinality(Routes)]
        BY Zenon, <2>1, SlotFacts DEF TypeOK, Messages
      <3> QED BY Zenon, <1>a, <2>1, <3>1, <3>2, <3>3
    <2>2. CASE left[gen] = 0 /\ DropDials(gen)
      <3>1. Unsettled(g) = {}
        <4>1. Unsettled(g) \subseteq Routes /\ Cardinality(Unsettled(g)) = 0
          BY <1>0, <1>a, <2>2, ZenonT(40) DEF Unsettled
        <4> QED BY <4>1, UnsettledFinite, ZenonT(40)
      <3>2. \A q \in Routes : ~ByChannel(g, q) /\ ~GivenUp(g, q)
        BY Zenon, <3>1 DEF Unsettled
      <3>3. DropDials(g)
        BY <1>a, <2>2, ZenonT(40)
      <3>4. /\ inbox' \in [Generations -> SUBSET Messages]
            /\ inbox'[g] = {} /\ \A h \in Generations : h # g => inbox'[h] = inbox[h]
            /\ \A h \in Generations, q \in Routes :
                 /\ ByChannel(h, q)' <=> ByChannel(h, q) /\ h # g
                 /\ GivenUp(h, q)' <=> GivenUp(h, q) /\ h # g
            /\ holder' \in [Generations -> {"start", "join", "gone"}]
            /\ holder'[g] = "gone" /\ \A h \in Generations : h # g => holder'[h] = holder[h]
            /\ cancelled' \in [Generations -> BOOLEAN]
            /\ \A h \in Generations : h # g => cancelled'[h] = cancelled[h]
            /\ left' \in [Generations -> 0 .. Cardinality(Routes)]
            /\ \A h \in Generations : h # g => left'[h] = left[h]
        BY <3>3, SlotFacts, InboxEmpties, ZenonT(40)
      <3> QED BY Zenon, <1>0, <1>a, <3>1, <3>2, <3>4
    <2> QED BY Zenon, <2>1, <2>2 DEF StartSucceeds
  <1>3. \A h \in Generations : Unsettled(h)' = Unsettled(h)
    BY <1>1, <1>2, ZenonT(40) DEF Unsettled
  <1>4. ASSUME NEW h \in Generations, NEW q \in Routes PROVE PairInv(h, q)'
    <2>1. PairInv(h, q) /\ (ByThread(h, q)' <=> ByThread(h, q)) /\ (BySlot(h, q)' <=> BySlot(h, q))
      BY Zenon, <1>1, SlotFacts DEF ByThread, BySlot
    <2> QED BY <1>1, <1>2, <1>3, <2>1, ZenonT(40) DEF PairInv
  <1>5. TypeOK'
    BY <1>1, <1>2, SlotFacts, ZenonT(40) DEF TypeOK, Messages
  <1>6. ASSUME NEW h \in Generations PROVE DialsInv(h)'
    <2>1. CASE h # g
      <3>1. holder[h] # "start"
        BY <1>a, <2>1, SlotFacts, ZenonT(40) DEF DialsInv
      <3> QED BY <1>1, <1>2, <1>3, <2>1, <3>1, OtherDials, ZenonT(40)
    <2>2. CASE h = g
      <3>1. DialsInv(g) /\ ~(g > started)
        BY Zenon, <1>0, <1>a, SlotFacts DEF DialsInv
      <3> QED BY <1>0, <1>a, <1>1, <1>2, <1>3, <2>2, <3>1, ZenonT(40) DEF DialsInv
    <2> QED BY <2>1, <2>2
  <1>7. SlotInv'
    <2>1. SlotInv /\ pending = Unsettled(g)'
      BY Zenon, <1>0, <1>a, <1>3, SlotFacts
    <2>2. \A c \in kept' \cup attached' : c[1] = gen
      BY Zenon, <1>1, <2>1 DEF SlotInv
    <2> QED BY Zenon, <1>0, <1>a, <1>1, <1>2, <2>1, <2>2 DEF SlotInv
  <1> QED BY Zenon, <1>4, <1>5, <1>6, <1>7 DEF JoinInv

(* The channel dropped with the connections in it, alone or with the slot's. *)
LEMMA DropPairs ==
    ASSUME JoinInv, NEW g \in Generations, DropDials(g), dial' = dial,
           \/ ras' = ras \ Connections(g) /\ kept' = kept
           \/ ras' = (ras \ kept) \ Connections(g) /\ kept' = {},
           NEW h \in Generations, NEW q \in Routes
    PROVE  PairInv(h, q)'
  <1>1. PairInv(h, q) /\ (ByThread(h, q)' <=> ByThread(h, q)) /\ dial'[h][q] = dial[h][q]
    BY SlotFacts, ZenonT(40) DEF ByThread
  <1>2. /\ ByChannel(h, q)' <=> ByChannel(h, q) /\ h # g
        /\ GivenUp(h, q)' <=> GivenUp(h, q) /\ h # g
    BY Zenon, SlotFacts, InboxEmpties
  <1>3. <<h, q>> \in Connections(g) <=> h = g /\ ByChannel(h, q)
    BY SlotFacts, ConnectionsFacts, ZenonT(40)
  <1>4. /\ ByThread(h, q) => ~ByChannel(h, q) /\ ~BySlot(h, q)
        /\ ByChannel(h, q) => ~BySlot(h, q)
    BY <1>1, ZenonT(40) DEF PairInv, Unsettled, ByThread
  <1>5. q \in Unsettled(h)' => q \in Unsettled(h)
    BY <1>1, <1>2, ZenonT(40) DEF Unsettled
  <1>6. CASE ras' = ras \ Connections(g) /\ kept' = kept
    <2>1. /\ BySlot(h, q)' <=> BySlot(h, q)
          /\ <<h, q>> \in ras' <=> <<h, q>> \in ras /\ ~(h = g /\ ByChannel(h, q))
      BY <1>3, <1>6, ZenonT(40) DEF BySlot
    <2> QED BY <1>1, <1>2, <1>4, <1>5, <2>1, ZenonT(40) DEF PairInv
  <1>7. CASE ras' = (ras \ kept) \ Connections(g) /\ kept' = {}
    <2>1. /\ ~BySlot(h, q)'
          /\ <<h, q>> \in ras' <=> <<h, q>> \in ras /\ ~BySlot(h, q) /\ ~(h = g /\ ByChannel(h, q))
      BY Zenon, <1>3, <1>7 DEF BySlot
    <2> QED BY <1>1, <1>2, <1>4, <1>5, <2>1, ZenonT(40) DEF PairInv
  <1> QED BY Zenon, <1>6, <1>7

(* The other sessions' dials, when one session's are dropped. *)
LEMMA DropDialsInv ==
    ASSUME JoinInv, NEW g \in Generations, DropDials(g), dial' = dial, started' = started,
           holder[g] # "gone",
           \A h \in Generations : h # g /\ holder[h] = "start" => gen' = gen /\ phase' = phase,
           NEW h \in Generations
    PROVE  /\ DialsInv(h)'
           /\ h # g => Unsettled(h)' = Unsettled(h)
  <1>1. /\ inbox'[g] = {} /\ \A k \in Generations : k # g => inbox'[k] = inbox[k]
        /\ holder'[g] = "gone" /\ \A k \in Generations : k # g => holder'[k] = holder[k]
        /\ \A k \in Generations : k # g => cancelled'[k] = cancelled[k]
        /\ \A k \in Generations : k # g => left'[k] = left[k]
    BY SlotFacts, InboxEmpties, ZenonT(40)
  <1>2. h # g => Unsettled(h)' = Unsettled(h)
    BY <1>1, ZenonT(40) DEF Unsettled, ByChannel, GivenUp
  <1>3. CASE h # g
    BY <1>1, <1>2, <1>3, OtherDials, ZenonT(40)
  <1>4. CASE h = g
    <2>1. ~(g > started)
      BY Zenon, SlotFacts DEF DialsInv
    <2> QED BY Zenon, <1>1, <1>4, <2>1 DEF DialsInv
  <1> QED BY <1>2, <1>3, <1>4, ZenonT(40)

LEMMA StartFailsKeeps ==
    ASSUME JoinInv, StartFails
    PROVE  JoinInv'
  <1>0. gen \in Generations /\ holder[gen] = "start" /\ phase = "starting"
    BY Zenon, SlotFacts DEF StartFails, SlotInv
  <1>a. PICK g \in Generations : g = gen
    BY Zenon, <1>0
  <1>1. /\ phase' = "idle" /\ gen' = 0 /\ DropDials(g) /\ ras' = (ras \ kept) \ Connections(g)
        /\ kept' = {} /\ attached' = {} /\ pending' = {} /\ UNCHANGED <<started, dial, tries>>
    BY Zenon, <1>a DEF StartFails
  <1>2. \A h \in Generations, q \in Routes : PairInv(h, q)'
    BY Zenon, <1>1, DropPairs
  <1>3. TypeOK'
    <2>1. /\ inbox' \in [Generations -> SUBSET Messages]
          /\ holder' \in [Generations -> {"start", "join", "gone"}]
          /\ cancelled' \in [Generations -> BOOLEAN]
          /\ left' \in [Generations -> 0 .. Cardinality(Routes)]
      BY Zenon, <1>1, SlotFacts, InboxEmpties
    <2>2. ras' \subseteq Pairs /\ kept' \subseteq Pairs /\ attached' \subseteq Pairs /\ pending' \subseteq Routes
      BY Zenon, <1>1, SlotFacts DEF TypeOK
    <2>3. gen' \in 0 .. MaxGenerations
      BY <1>1, Bounds
    <2> QED BY <1>1, <2>1, <2>2, <2>3, SlotFacts, ZenonT(40) DEF TypeOK, Messages
  <1>4. \A h \in Generations : DialsInv(h)'
    <2>1. \A h \in Generations : h # g => holder[h] # "start"
      BY Zenon, <1>a, SlotFacts DEF DialsInv
    <2> QED BY Zenon, <1>0, <1>a, <1>1, <2>1, DropDialsInv
  <1>5. SlotInv'
    BY <1>1, SlotFacts DEF SlotInv
  <1> QED BY Zenon, <1>2, <1>3, <1>4, <1>5 DEF JoinInv

LEMMA ReturnsKeeps ==
    ASSUME JoinInv, NEW g \in Generations, JoinReturns(g)
    PROVE  JoinInv'
  <1>1. /\ holder[g] = "join" /\ DropDials(g) /\ ras' = ras \ Connections(g)
        /\ UNCHANGED <<gen, phase, started, dial, tries, kept, attached, pending>>
    BY Zenon DEF JoinReturns
  <1>2. gen # g
    <2>1. CASE inbox[g] = {} /\ \A r \in Routes : dial[g][r] = "done"
      <3>1. Unsettled(g) = {}
        BY <2>1, ZenonT(40) DEF Unsettled, ByChannel, GivenUp
      <3>2. left[g] > 0 /\ Cardinality(Unsettled(g)) = 0
        BY Zenon, <1>1, <3>1, SlotFacts, FS_EmptySet DEF DialsInv
      <3>3. gen = g => phase # "idle" /\ left[g] = Cardinality(Unsettled(g))
        BY Zenon, <1>1, SlotFacts, Bounds DEF SlotInv
      <3> QED BY <3>2, <3>3
    <2> QED BY Zenon, <2>1 DEF JoinReturns
  <1>3. \A h \in Generations, q \in Routes : PairInv(h, q)'
    BY Zenon, <1>1, DropPairs
  <1>4. TypeOK'
    <2>1. /\ inbox' \in [Generations -> SUBSET Messages]
          /\ holder' \in [Generations -> {"start", "join", "gone"}]
          /\ cancelled' \in [Generations -> BOOLEAN]
          /\ left' \in [Generations -> 0 .. Cardinality(Routes)]
      BY Zenon, <1>1, SlotFacts, InboxEmpties
    <2>2. ras' \subseteq Pairs
      BY Zenon, <1>1, SlotFacts DEF TypeOK
    <2> QED BY <1>1, <2>1, <2>2, SlotFacts, ZenonT(40) DEF TypeOK, Messages
  <1>5. \A h \in Generations : DialsInv(h)' /\ (h # g => Unsettled(h)' = Unsettled(h))
    BY <1>1, DropDialsInv, ZenonT(40)
  <1>6. SlotInv'
    <2>1. SlotInv /\ (phase # "idle" => gen \in Generations)
      BY SlotFacts, ZenonT(40)
    <2>2. phase # "idle" =>
            /\ Unsettled(gen)' = Unsettled(gen) /\ holder'[gen] = holder[gen]
            /\ cancelled'[gen] = cancelled[gen] /\ left'[gen] = left[gen]
      BY <1>1, <1>2, <1>5, <2>1, SlotFacts, InboxEmpties, ZenonT(40)
    <2> QED BY Zenon, <1>1, <2>1, <2>2 DEF SlotInv
  <1> QED BY Zenon, <1>3, <1>4, <1>5, <1>6 DEF JoinInv

-----------------------------------------------------------------------------
LEMMA InitJoin == Init => JoinInv
  <1> SUFFICES ASSUME Init PROVE JoinInv
    BY Zenon
  <1> USE DEF Init
  <1>1. TypeOK
    <2>1. 0 \in 0 .. MaxGenerations /\ 0 \in 0 .. DIAL_ATTEMPTS /\ 0 \in 0 .. Cardinality(Routes)
      BY Bounds
    <2> QED BY Zenon, <2>1 DEF TypeOK
  <1>2. ASSUME NEW h \in Generations
        PROVE  /\ holder[h] = "gone" /\ ~cancelled[h] /\ inbox[h] = {}
               /\ \A q \in Routes : dial[h][q] = "done"
    BY Zenon
  <1>3. ASSUME NEW h \in Generations, NEW q \in Routes PROVE PairInv(h, q)
    BY Zenon, <1>2 DEF PairInv, ByThread, ByChannel, GivenUp, BySlot
  <1>4. ASSUME NEW h \in Generations PROVE DialsInv(h)
    BY Zenon, <1>2 DEF DialsInv
  <1>5. SlotInv
    BY DEF SlotInv
  <1> QED BY Zenon, <1>1, <1>3, <1>4, <1>5 DEF JoinInv

LEMMA JoinStep == JoinInv /\ [Next]_vars => JoinInv'
  <1> SUFFICES ASSUME JoinInv, [Next]_vars PROVE JoinInv'
    BY Zenon
  <1>1. CASE Begin
    BY Zenon, <1>1, BeginKeeps
  <1>2. CASE Collect
    BY Zenon, <1>2, CollectKeeps
  <1>3. CASE StartSucceeds
    BY <1>3, SucceedsKeeps
  <1>4. CASE StartFails
    BY <1>4, StartFailsKeeps
  <1>5. CASE Stop
    BY <1>5, StopKeeps
  <1>6. CASE \E g \in Generations : JoinReceives(g) \/ JoinReturns(g)
    BY Zenon, <1>6, ReceivesKeeps, ReturnsKeeps
  <1>7. CASE \E g \in Generations, r \in Routes : Thread(g, r)
    BY Zenon, <1>7, ConnectsKeeps, ChecksKeeps, SendsKeeps, FailsKeeps, WaitKeeps DEF Thread
  <1>8. CASE UNCHANGED vars
    <2>1. TypeOK' /\ \A h \in Generations : Unsettled(h)' = Unsettled(h)
      BY <1>8, SlotFacts, ZenonT(40) DEF vars, TypeOK, Unsettled, ByChannel, GivenUp
    <2>2. ASSUME NEW h \in Generations, NEW q \in Routes PROVE PairInv(h, q)'
      <3>1. PairInv(h, q)
        BY Zenon, SlotFacts
      <3> QED BY Zenon, <1>8, <2>1, <3>1 DEF vars, PairInv, ByThread, ByChannel, GivenUp, BySlot
    <2>3. ASSUME NEW h \in Generations PROVE DialsInv(h)'
      BY Zenon, <1>8, <2>1, SlotFacts DEF vars, DialsInv
    <2>4. SlotInv'
      <3>1. SlotInv /\ (phase # "idle" => gen \in Generations)
        BY Zenon, SlotFacts
      <3>2. phase # "idle" => Unsettled(gen)' = Unsettled(gen)
        BY Zenon, <1>8, <2>1, <3>1 DEF vars
      <3> QED BY Zenon, <1>8, <3>1, <3>2 DEF vars, SlotInv
    <2> QED BY <2>1, <2>2, <2>3, <2>4, ZenonT(40) DEF JoinInv
  <1> QED BY Zenon, <1>1, <1>2, <1>3, <1>4, <1>5, <1>6, <1>7, <1>8 DEF Next

LEMMA InvAccounts == JoinInv => DialsAreAccountedFor
  <1> SUFFICES ASSUME JoinInv PROVE DialsAreAccountedFor
    BY Zenon
  <1>1. JoinsItsOwnSession /\ TypeOK
    BY Zenon, SlotFacts DEF SlotInv, JoinsItsOwnSession
  <1>2. NoRouteIsForgotten
    BY Zenon, SlotFacts DEF SlotInv, NoRouteIsForgotten
  <1>3. EveryConnectionHasOneOwner
    <2> SUFFICES ASSUME NEW g \in Generations, NEW r \in Routes
                 PROVE  Owners(<<g, r>>) = IF <<g, r>> \in ras THEN 1 ELSE 0
      BY DEF EveryConnectionHasOneOwner, Pairs
    <2> DEFINE S == {o \in {"thread", "channel", "slot"} :
                        \/ o = "thread" /\ ByThread(g, r)
                        \/ o = "channel" /\ ByChannel(g, r)
                        \/ o = "slot" /\ BySlot(g, r)}
    <2>1. Owners(<<g, r>>) = Cardinality(S)
      <3>1. <<g, r>> \in Connections(g) <=> ByChannel(g, r)
        BY <1>1, ConnectionsFacts, ZenonT(40)
      <3> QED BY Zenon, <3>1 DEF Owners, ByThread, BySlot
    <2>2. /\ <<g, r>> \in ras <=> ByThread(g, r) \/ ByChannel(g, r) \/ BySlot(g, r)
          /\ ByThread(g, r) => ~ByChannel(g, r) /\ ~BySlot(g, r)
          /\ ByChannel(g, r) => ~BySlot(g, r)
      BY Zenon, SlotFacts DEF PairInv, Unsettled, ByThread
    <2>3. CASE <<g, r>> \notin ras
      <3>1. S = {}
        BY Zenon, <2>2, <2>3
      <3> QED BY Zenon, <2>1, <2>3, <3>1, FS_EmptySet
    <2>4. CASE <<g, r>> \in ras
      <3>1. \E o \in {"thread", "channel", "slot"} : S = {o}
        <4>1. CASE ByThread(g, r)
          BY Zenon, <2>2, <4>1
        <4>2. CASE ByChannel(g, r)
          BY Zenon, <2>2, <4>2
        <4>3. CASE BySlot(g, r)
          BY Zenon, <2>2, <4>3
        <4> QED BY Zenon, <2>2, <2>4, <4>1, <4>2, <4>3
      <3> HIDE DEF S
      <3>2. PICK o : S = {o}
        BY Zenon, <3>1
      <3>3. Cardinality({o}) = 1
        BY FS_Singleton, ZenonT(40)
      <3> QED BY Zenon, <2>1, <2>4, <3>2, <3>3
    <2> QED BY Zenon, <2>3, <2>4
  <1> QED BY Zenon, <1>1, <1>2, <1>3 DEF DialsAreAccountedFor

(* However dials, retries, attachments and teardowns overlap, every RAS
   connection that is up has exactly one owner (its dialling thread, its
   channel or the slot), a session is only given routes dialled for it, and no
   route is forgotten: l2tp_join.rs with any number of routes and sessions. *)
THEOREM DialsAlwaysAccountedFor == Spec => []DialsAreAccountedFor
  BY InitJoin, JoinStep, InvAccounts, PTL DEF Spec
=============================================================================
