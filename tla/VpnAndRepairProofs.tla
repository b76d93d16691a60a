------------------------- MODULE VpnAndRepairProofs -------------------------
(***************************************************************************)
(* The repaired stream, for any number of sending threads, any group sizes *)
(* and any sequences: what the encoder covers.  And the VPN's controller,  *)
(* for any number of clicks, games, timeouts and failures: where it rests. *)
(*                                                                         *)
(* The inductive invariant of the sender, CoverInv, adds to                *)
(* CoveredExactlyOnce that the packets on their way to the encoder are new *)
(* to it and differ from each other, and that the open group has room.     *)
(* That of the controller, VpnInv, says for every await of a start or stop *)
(* what is still queued behind it: a stop that was taken back has a start  *)
(* behind it, and a start that was taken back a stop.                      *)
(***************************************************************************)
EXTENDS RepairSender, VpnSession, FiniteSetTheorems, WellFoundedInduction, TLAPS

(* A nonempty set of naturals has a least element. *)
LEMMA LeastOfAll ==
    ASSUME NEW S \in SUBSET Nat, S # {}
    PROVE  \E m \in S : \A n \in S : m <= n
  <1> DEFINE R == OpToRel(<, Nat)
  <1>1. IsWellFoundedOn(R, Nat)
    BY Zenon, NatLessThanWellFounded
  <1>2. \A x, y \in Nat : x < y => <<x, y>> \in R
    BY Zenon DEF OpToRel
  <1> HIDE DEF R
  <1>3. PICK x \in S : \A y \in S : ~ (<<y, x>> \in R)
    BY Zenon, <1>1, WFMin
  <1>4. \A y \in S : ~ (y < x)
    BY Zenon, <1>2, <1>3
  <1>5. \A y \in S : x <= y
    BY <1>4
  <1> QED BY Zenon, <1>5

(* Lowest and Highest are what their names say of a nonempty set of sequences. *)
LEMMA Extremes ==
    ASSUME NEW S \in SUBSET (1 .. MaxSequence), S # {}
    PROVE  /\ Lowest(S) \in S /\ \A n \in S : Lowest(S) <= n
           /\ Highest(S) \in S /\ \A n \in S : n <= Highest(S)
  <1>1. MaxSequence \in Nat
    BY Zenon, SenderAssumption
  <1>2. \E m \in S : \A n \in S : m <= n
    <2>1. S \in SUBSET Nat
      BY <1>1
    <2> QED BY Zenon, <2>1, LeastOfAll
  <1>3. \E m \in S : \A n \in S : n <= m
    <2> DEFINE T == {MaxSequence - n : n \in S}
    <2>1. T \in SUBSET Nat
      BY <1>1
    <2>2. T # {}
      BY Zenon
    <2>3. PICK k \in T : \A n \in T : k <= n
      <3> HIDE DEF T
      <3> QED BY Zenon, <2>1, <2>2, LeastOfAll
    <2>4. PICK m \in S : k = MaxSequence - m
      BY Zenon
    <2>5. \A n \in S : MaxSequence - m <= MaxSequence - n
      BY Zenon, <2>3, <2>4
    <2>6. \A n \in S : n <= m
      <3> SUFFICES ASSUME NEW n \in S PROVE n <= m
        BY Zenon
      <3>1. n \in Nat /\ m \in Nat /\ MaxSequence - m <= MaxSequence - n
        BY <1>1, <2>5
      <3> QED BY <1>1, <3>1
    <2> QED BY Zenon, <2>6
  <1> QED BY Zenon, <1>2, <1>3 DEF Lowest, Highest

-----------------------------------------------------------------------------
(* The groups R and the open group M partition the sequences P. *)
Covered(P, M, R) ==
    /\ P = M \cup UNION R
    /\ \A g \in R : g # {} /\ g \cap M = {}
    /\ \A g, h \in R : g # h => g \cap h = {}

(* The group g can be written as a repair. *)
Fits(g) ==
    /\ \E size \in GroupSizes : Cardinality(g) <= size
    /\ \A m, n \in g : m - n <= MAX_SPAN

(* Closing the open group, if there is one, keeps the partition. *)
LEMMA ClosingKeeps ==
    ASSUME NEW P, NEW M, NEW R, Covered(P, M, R)
    PROVE  Covered(P, {}, R \cup (IF M # {} THEN {M} ELSE {}))
  <1>1. CASE M = {}
    BY Zenon, <1>1 DEF Covered
  <1>2. CASE M # {}
    <2> DEFINE RR == R \cup {M}
    <2>1. UNION RR = M \cup UNION R
      BY Zenon
    <2>2. \A g \in RR : g # {}
      BY Zenon, <1>2 DEF Covered
    <2>3. \A g, h \in RR : g # h => g \cap h = {}
      BY DEF Covered
    <2>4. P = {} \cup UNION RR
      BY Zenon, <2>1 DEF Covered
    <2> HIDE DEF RR
    <2>5. Covered(P, {}, RR)
      BY Zenon, <2>2, <2>3, <2>4 DEF Covered
    <2> QED BY Zenon, <1>2, <2>5 DEF RR
  <1> QED BY Zenon, <1>1, <1>2

(* A sequence new to the encoder joins the open group. *)
LEMMA JoiningKeeps ==
    ASSUME NEW P, NEW M, NEW R, Covered(P, M, R), NEW s, s \notin P
    PROVE  Covered(P \cup {s}, M \cup {s}, R)
  BY DEF Covered

(* What protect does to the groups: the packet joins the open group, which has
   room for it, or it opens a group of its own and the open one is closed. *)
Shape(e, size, s, expired, resized, pushed) ==
    /\ pushed.encoder = [group_size |-> size, members |-> pushed.encoder.members]
    /\ \/ /\ pushed.encoder.members = e.members \cup {s}
          /\ resized.closed = {} /\ pushed.closed = {}
          /\ e.members # {} /\ size = e.group_size
          /\ can_join(e, s, expired)
       \/ /\ pushed.encoder.members = {s}
          /\ resized.closed \cup pushed.closed = IF e.members # {} THEN {e.members} ELSE {}

LEMMA ProtectShape ==
    ASSUME NEW e \in [group_size : GroupSizes, members : SUBSET (1 .. MaxSequence)],
           NEW size \in GroupSizes, NEW s, NEW expired \in BOOLEAN, NEW resized, NEW pushed,
           resized = set_group_size(e, size), pushed = push(resized.encoder, s, expired)
    PROVE  Shape(e, size, s, expired, resized, pushed)
  <1>1. CASE size = e.group_size
    <2>1. resized = [encoder |-> e, closed |-> {}]
      BY Zenon, <1>1 DEF set_group_size
    <2>2. resized.encoder = e /\ resized.closed = {}
      BY <2>1
    <2>3. CASE Open(e) /\ can_join(e, s, expired)
      <3>1. pushed.encoder = [e EXCEPT !.members = e.members \cup {s}] /\ pushed.closed = {}
        BY Zenon, <2>2, <2>3 DEF push
      <3>2. pushed.encoder = [group_size |-> e.group_size, members |-> e.members \cup {s}]
        BY Zenon, <3>1
      <3> QED BY Zenon, <1>1, <2>2, <2>3, <3>1, <3>2 DEF Open, Shape
    <2>4. CASE ~(Open(e) /\ can_join(e, s, expired))
      <3>1. pushed.encoder = [e EXCEPT !.members = {s}] /\ pushed.closed = Closed(e)
        BY Zenon, <2>2, <2>4 DEF push
      <3>2. pushed.encoder = [group_size |-> e.group_size, members |-> {s}]
        BY Zenon, <3>1
      <3>3. resized.closed \cup pushed.closed = Closed(e)
        BY Zenon, <2>2, <3>1
      <3> QED BY <1>1, <3>2, <3>3 DEF Closed, Open, Shape
    <2> QED BY Zenon, <2>3, <2>4
  <1>2. CASE size # e.group_size
    <2>1. resized = [encoder |-> [close(e) EXCEPT !.group_size = size], closed |-> Closed(e)]
      BY Zenon, <1>2 DEF set_group_size
    <2>2. resized.encoder = [group_size |-> size, members |-> {}] /\ resized.closed = Closed(e)
      <3>1. close(e) = [group_size |-> e.group_size, members |-> {}]
        BY DEF close
      <3> QED BY <2>1, <3>1
    <2>3. pushed.encoder = [group_size |-> size, members |-> {s}] /\ pushed.closed = {}
      <3>1. ~Open(resized.encoder) /\ Closed(resized.encoder) = {}
        BY <2>2 DEF Open, Closed
      <3>2. pushed = [encoder |-> [resized.encoder EXCEPT !.members = {s}], closed |-> {}]
        BY Zenon, <3>1 DEF push
      <3> DEFINE r == resized.encoder
      <3>3. [r EXCEPT !.members = {s}] = [group_size |-> size, members |-> {s}]
        BY <2>2
      <3> HIDE DEF r
      <3>4. pushed.encoder = [r EXCEPT !.members = {s}] /\ pushed.closed = {}
        BY <3>2 DEF r
      <3> QED BY Zenon, <3>3, <3>4
    <2>4. resized.closed \cup pushed.closed = Closed(e)
      BY Zenon, <2>2, <2>3
    <2> QED BY <2>3, <2>4 DEF Closed, Open, Shape
  <1> QED BY Zenon, <1>1, <1>2

-----------------------------------------------------------------------------
GroupsFit == \A g \in repairs \cup {encoder.members} : Fits(g)

HasRoom == Cardinality(encoder.members) <= encoder.group_size

(* Packets between the send and the encoder carry sequences of their own. *)
OnTheirWay ==
    /\ protected \subseteq 1 .. sequences
    /\ \A t \in Threads : thread[t] = "sent" =>
          /\ carried[t] \in (1 .. sequences) \ protected
          /\ \A u \in Threads \ {t} : thread[u] = "sent" => carried[u] # carried[t]

CoverInv ==
    /\ SenderTypeOK
    /\ Covered(protected, encoder.members, repairs)
    /\ GroupsFit /\ HasRoom /\ OnTheirWay

(* Nothing is covered, and nobody is on the way, at the start. *)
LEMMA InitCover == SenderInit => CoverInv
  <1> SUFFICES ASSUME SenderInit PROVE CoverInv
    BY Zenon
  <1>1. GroupSizes \subseteq Nat \ {0} /\ MAX_SPAN \in Nat /\ MaxSequence \in Nat
    BY Zenon, SenderAssumption
  <1>2. encoder \in [group_size : GroupSizes, members : {{}}]
    BY Zenon DEF SenderInit
  <1>3. encoder.members = {} /\ encoder.group_size \in GroupSizes
    BY Zenon, <1>2
  <1>4. Cardinality({}) = 0
    BY Zenon, FS_EmptySet
  <1>5. SenderTypeOK
    <2>1. encoder \in [group_size : GroupSizes, members : SUBSET (1..MaxSequence)]
      BY Zenon, <1>2
    <2>2. sequences \in 0 .. MaxSequence /\ carried \in [Threads -> 0 .. MaxSequence]
      BY <1>1 DEF SenderInit
    <2> QED BY Zenon, <2>1, <2>2 DEF SenderInit, SenderTypeOK
  <1>6. HasRoom
    <2>1. encoder.group_size \in Nat
      BY Zenon, <1>1, <1>3
    <2> QED BY <1>3, <1>4, <2>1 DEF HasRoom
  <1>7. GroupsFit
    <2>1. encoder.group_size \in Nat
      BY Zenon, <1>1, <1>3
    <2>2. repairs = {}
      BY Zenon DEF SenderInit
    <2> QED BY <1>3, <1>4, <2>1, <2>2 DEF GroupsFit, Fits
  <1>8. Covered(protected, encoder.members, repairs)
    BY Zenon, <1>3 DEF Covered, SenderInit
  <1>9. OnTheirWay
    BY Zenon DEF OnTheirWay, SenderInit
  <1> QED BY Zenon, <1>5, <1>6, <1>7, <1>8, <1>9 DEF CoverInv

(* An open group is finite and small enough to count. *)
LEMMA GroupsAreFinite ==
    ASSUME NEW g \in SUBSET (1 .. MaxSequence)
    PROVE  IsFiniteSet(g) /\ Cardinality(g) \in Nat
  <1>1. MaxSequence \in Nat
    BY Zenon, SenderAssumption
  <1>2. IsFiniteSet(1 .. MaxSequence)
    BY <1>1, FS_Interval
  <1> QED BY Zenon, <1>2, FS_Subset, FS_CardinalityType

(* One sequence makes a group that fits. *)
LEMMA SingleFits ==
    ASSUME NEW s \in 1 .. MaxSequence, NEW size \in GroupSizes
    PROVE  Cardinality({s}) <= size /\ Fits({s})
  <1>1. size \in Nat \ {0} /\ MAX_SPAN \in Nat /\ MaxSequence \in Nat
    BY Zenon, SenderAssumption
  <1>2. Cardinality({s}) = 1
    BY Zenon, FS_Singleton
  <1>3. \A m, n \in {s} : m - n <= MAX_SPAN
    BY <1>1
  <1> HIDE DEF Fits
  <1>4. Cardinality({s}) <= size
    BY <1>1, <1>2
  <1> QED BY Zenon, <1>3, <1>4 DEF Fits

(* A group that a packet may join fits with the packet in it. *)
LEMMA JoinedFits ==
    ASSUME NEW e \in [group_size : GroupSizes, members : SUBSET (1 .. MaxSequence)],
           NEW s \in 1 .. MaxSequence, NEW expired, e.members # {}, can_join(e, s, expired),
           Fits(e.members), s \notin e.members
    PROVE  /\ Cardinality(e.members \cup {s}) <= e.group_size
           /\ Fits(e.members \cup {s})
  <1> DEFINE M == e.members
  <1>1. e.group_size \in GroupSizes /\ e.group_size \in Nat /\ MAX_SPAN \in Nat /\ MaxSequence \in Nat
    BY Zenon, SenderAssumption
  <1>2. M \in SUBSET (1 .. MaxSequence) /\ M # {} /\ s \notin M
    BY Zenon
  <1>3. IsFiniteSet(M) /\ Cardinality(M) \in Nat
    BY Zenon, <1>2, GroupsAreFinite
  <1>4. Cardinality(M) < e.group_size /\ s > Highest(M) /\ s - Lowest(M) <= MAX_SPAN
    BY Zenon DEF can_join
  <1>5. \A m, n \in M : m - n <= MAX_SPAN
    BY Zenon DEF Fits
  <1> HIDE DEF M
  <1>6. Cardinality(M \cup {s}) = Cardinality(M) + 1
    BY Zenon, <1>2, <1>3, FS_AddElement
  <1>7. Cardinality(M \cup {s}) <= e.group_size
    BY <1>1, <1>3, <1>4, <1>6
  <1>8. /\ Lowest(M) \in M /\ \A n \in M : Lowest(M) <= n
        /\ Highest(M) \in M /\ \A n \in M : n <= Highest(M)
    BY Zenon, <1>2, Extremes
  <1>9. \A m, n \in M \cup {s} : m - n <= MAX_SPAN
    <2> SUFFICES ASSUME NEW m \in M \cup {s}, NEW n \in M \cup {s} PROVE m - n <= MAX_SPAN
      BY Zenon
    <2> DEFINE h == Highest(M)
               l == Lowest(M)
    <2>1. h \in M /\ l \in M /\ \A k \in M : l <= k /\ k <= h
      BY Zenon, <1>8
    <2>2. s > h /\ s - l <= MAX_SPAN
      BY Zenon, <1>4
    <2> HIDE DEF h, l
    <2>3. M \subseteq Nat /\ s \in Nat
      BY <1>1, <1>2
    <2>4. CASE m \in M /\ n \in M
      BY Zenon, <2>4, <1>5
    <2>5. CASE m = s /\ n \in M
      <3>1. l <= n /\ l \in Nat /\ n \in Nat
        BY Zenon, <2>5, <2>1, <2>3
      <3> QED BY <2>5, <2>2, <2>3, <3>1, <1>1
    <2>6. CASE m \in M /\ n = s
      <3>1. m <= h /\ m \in Nat /\ h \in Nat
        BY Zenon, <2>6, <2>1, <2>3
      <3> QED BY <2>6, <2>2, <2>3, <3>1, <1>1
    <2>7. CASE m = s /\ n = s
      BY <2>7, <2>3, <1>1
    <2> QED BY Zenon, <2>4, <2>5, <2>6, <2>7
  <1>10. Fits(M \cup {s})
    BY Zenon, <1>1, <1>7, <1>9 DEF Fits
  <1> QED BY Zenon, <1>7, <1>10 DEF M

(* A packet comes to the encoder. *)
LEMMA ProtectKeeps ==
    ASSUME CoverInv, NEW t \in Threads, protect(t)
    PROVE  CoverInv'
  <1>1. PICK size \in GroupSizes :
          LET s == carried[t]
              resized == set_group_size(encoder, size)
              pushed == push(resized.encoder, s, due /\ Open(resized.encoder))
          IN /\ encoder' = pushed.encoder
             /\ repairs' = repairs \cup resized.closed \cup pushed.closed
             /\ due' = FALSE
             /\ protected' = protected \cup {s}
             /\ thread' = [thread EXCEPT ![t] =
                          IF opened(resized.encoder, pushed.encoder) THEN "notify" ELSE "ready"]
    BY Zenon DEF protect
  <1> DEFINE s == carried[t]
             M == encoder.members
             resized == set_group_size(encoder, size)
             expired == due /\ Open(resized.encoder)
             pushed == push(resized.encoder, s, expired)
             groups == resized.closed \cup pushed.closed
  <1>2. /\ encoder \in [group_size : GroupSizes, members : SUBSET (1 .. MaxSequence)]
        /\ thread \in [Threads -> {"ready", "sent", "notify"}] /\ due \in BOOLEAN
        /\ sequences \in 0 .. MaxSequence /\ MaxSequence \in Nat
        /\ repairs \subseteq SUBSET (1 .. MaxSequence) /\ protected \subseteq 1 .. MaxSequence
    BY Zenon, SenderAssumption DEF CoverInv, SenderTypeOK
  <1>3. thread[t] = "sent" /\ s \in (1 .. sequences) \ protected
    BY Zenon DEF protect, CoverInv, OnTheirWay
  <1>4. s \in 1 .. MaxSequence /\ s \notin protected
    BY <1>2, <1>3
  <1>5. expired \in BOOLEAN
    BY Zenon, <1>2 DEF Open
  <1>6. /\ encoder' = pushed.encoder /\ repairs' = repairs \cup groups
        /\ due' = FALSE /\ protected' = protected \cup {s}
        /\ thread' = [thread EXCEPT ![t] = IF opened(resized.encoder, pushed.encoder) THEN "notify" ELSE "ready"]
    BY Zenon, <1>1
  <1>u. UNCHANGED <<sequences, carried, flusher, lock, stop, stopper>>
    BY Zenon DEF protect
  <1> HIDE DEF expired, s
  <1>e. resized = set_group_size(encoder, size) /\ pushed = push(resized.encoder, s, expired)
    BY Zenon
  <1> HIDE DEF resized, pushed
  <1>7. /\ pushed.encoder.group_size = size
        /\ pushed.encoder \in [group_size : GroupSizes, members : {M \cup {s}, {s}}]
        /\ \/ /\ pushed.encoder.members = M \cup {s} /\ groups = {}
              /\ M # {} /\ size = encoder.group_size /\ can_join(encoder, s, expired)
           \/ /\ pushed.encoder.members = {s}
              /\ groups = IF M # {} THEN {M} ELSE {}
    <2>1. encoder \in [group_size : GroupSizes, members : SUBSET (1 .. MaxSequence)]
      BY Zenon, <1>2
    <2>2. Shape(encoder, size, s, expired, resized, pushed)
      BY Zenon, <2>1, <1>5, <1>e, ProtectShape
    <2> QED BY <2>2 DEF Shape
  <1> HIDE DEF groups
  <1>8. Covered(protected, M, repairs) /\ M \subseteq protected /\ s \notin M
    BY Zenon, <1>4 DEF CoverInv, Covered
  <1>9. Fits(M) /\ \A g \in repairs : Fits(g)
    BY Zenon DEF CoverInv, GroupsFit
  <1>10. M \in SUBSET (1 .. MaxSequence)
    BY Zenon, <1>2
  <1>11. /\ Covered(protected', encoder'.members, repairs')
         /\ Cardinality(encoder'.members) <= encoder'.group_size
         /\ \A g \in repairs' \cup {encoder'.members} : Fits(g)
         /\ repairs' \subseteq SUBSET (1 .. MaxSequence)
    <2>1. CASE /\ pushed.encoder.members = M \cup {s} /\ groups = {}
               /\ M # {} /\ size = encoder.group_size /\ can_join(encoder, s, expired)
      <3>1. Covered(protected \cup {s}, M \cup {s}, repairs)
        BY Zenon, <1>4, <1>8, JoiningKeeps
      <3>2. Cardinality(M \cup {s}) <= encoder.group_size /\ Fits(M \cup {s})
        BY Zenon, <2>1, <1>2, <1>4, <1>8, <1>9, JoinedFits
      <3> QED BY ZenonT(60), <2>1, <3>1, <3>2, <1>2, <1>6, <1>7, <1>9
    <2>2. CASE pushed.encoder.members = {s} /\ groups = IF M # {} THEN {M} ELSE {}
      <3>1. Covered(protected, {}, repairs \cup groups)
        BY Zenon, <2>2, <1>8, ClosingKeeps
      <3>2. Covered(protected \cup {s}, {} \cup {s}, repairs \cup groups)
        BY Zenon, <3>1, <1>4, JoiningKeeps
      <3>3. {} \cup {s} = {s}
        BY Zenon
      <3>4. Cardinality({s}) <= size /\ Fits({s})
        BY Zenon, <1>4, SingleFits
      <3>5. \A g \in repairs \cup groups : Fits(g)
        BY Zenon, <2>2, <1>9
      <3>6. repairs \cup groups \subseteq SUBSET (1 .. MaxSequence)
        BY Zenon, <2>2, <1>2, <1>10
      <3> QED BY Zenon, <2>2, <3>2, <3>3, <3>4, <3>5, <3>6, <1>6, <1>7
    <2> QED BY Zenon, <1>7, <2>1, <2>2
  <1>12. SenderTypeOK'
    <2>1. encoder' \in [group_size : GroupSizes, members : SUBSET (1 .. MaxSequence)]
      BY Zenon, <1>4, <1>6, <1>7, <1>10
    <2>2. thread' \in [Threads -> {"ready", "sent", "notify"}]
      BY Zenon, <1>2, <1>6
    <2>3. protected' \subseteq 1 .. MaxSequence
      BY Zenon, <1>2, <1>4, <1>6
    <2> QED BY Zenon, <1>6, <1>11, <1>u, <2>1, <2>2, <2>3 DEF CoverInv, SenderTypeOK
  <1>13. OnTheirWay'
    <2>1. sequences' = sequences /\ carried' = carried
      BY Zenon, <1>u
    <2>2. protected' \subseteq 1 .. sequences
      BY Zenon, <1>3, <1>6 DEF CoverInv, OnTheirWay
    <2>3. thread'[t] # "sent" /\ \A u \in Threads \ {t} : thread'[u] = thread[u]
      BY Zenon, <1>2, <1>6
    <2>4. ASSUME NEW u \in Threads, thread'[u] = "sent"
          PROVE  /\ carried[u] \in (1 .. sequences) \ protected'
                 /\ \A v \in Threads \ {u} : thread'[v] = "sent" => carried[v] # carried[u]
      <3>1. u # t /\ thread[u] = "sent"
        BY Zenon, <2>3, <2>4
      <3>2. carried[u] \in (1 .. sequences) \ protected /\ carried[u] # s
        BY Zenon, <3>1, <1>3 DEF CoverInv, OnTheirWay, s
      <3>3. \A v \in Threads \ {u} : thread'[v] = "sent" => thread[v] = "sent"
        BY Zenon, <2>3
      <3>4. \A v \in Threads \ {u} : thread[v] = "sent" => carried[v] # carried[u]
        BY Zenon, <3>1 DEF CoverInv, OnTheirWay
      <3> QED BY Zenon, <3>2, <3>3, <3>4, <1>6
    <2> QED BY Zenon, <2>1, <2>2, <2>4 DEF OnTheirWay
  <1> QED BY Zenon, <1>11, <1>12, <1>13 DEF CoverInv, GroupsFit, HasRoom

(* The open group is closed, or kept, and no packet is added. *)
LEMMA ClosingStep ==
    ASSUME CoverInv, UNCHANGED <<sequences, carried, protected>>, SenderTypeOK',
           \A t \in Threads : thread'[t] = "sent" => thread[t] = "sent",
           \/ /\ encoder'.members = encoder.members /\ encoder'.group_size = encoder.group_size
              /\ repairs' = repairs
           \/ /\ encoder'.members = {}
              /\ repairs' = repairs \cup Closed(encoder)
    PROVE  CoverInv'
  <1> DEFINE M == encoder.members
  <1>1. OnTheirWay'
    BY Zenon DEF CoverInv, OnTheirWay
  <1>2. CASE /\ encoder'.members = M /\ encoder'.group_size = encoder.group_size
             /\ repairs' = repairs
    BY Zenon, <1>1, <1>2 DEF CoverInv, GroupsFit, HasRoom
  <1>3. CASE encoder'.members = {} /\ repairs' = repairs \cup Closed(encoder)
    <2>1. Closed(encoder) = IF M # {} THEN {M} ELSE {}
      BY Zenon DEF Closed, Open
    <2>2. Covered(protected, {}, repairs \cup Closed(encoder))
      BY Zenon, <2>1, ClosingKeeps DEF CoverInv
    <2>3. encoder'.group_size \in GroupSizes
      BY Zenon DEF SenderTypeOK
    <2>4. encoder'.group_size \in Nat /\ MAX_SPAN \in Nat
      BY Zenon, <2>3, SenderAssumption
    <2>5. Cardinality({}) <= encoder'.group_size
      BY <2>4, FS_EmptySet
    <2>6. Fits({})
      BY Zenon, <2>3, <2>5 DEF Fits
    <2>7. \A g \in repairs \cup Closed(encoder) : Fits(g)
      BY Zenon, <2>1 DEF CoverInv, GroupsFit
    <2>8. GroupsFit' /\ HasRoom'
      BY Zenon, <1>3, <2>5, <2>6, <2>7 DEF GroupsFit, HasRoom
    <2> QED BY Zenon, <1>1, <1>3, <2>2, <2>8 DEF CoverInv
  <1> QED BY Zenon, <1>2, <1>3

(* A packet takes a sequence that nobody else has. *)
LEMMA SendKeeps ==
    ASSUME CoverInv, NEW t \in Threads, send(t)
    PROVE  CoverInv'
  <1>1. /\ sequences \in 0 .. MaxSequence /\ MaxSequence \in Nat
        /\ thread \in [Threads -> {"ready", "sent", "notify"}]
        /\ carried \in [Threads -> 0 .. MaxSequence]
        /\ protected \subseteq 1 .. sequences
    BY Zenon, SenderAssumption DEF CoverInv, SenderTypeOK, OnTheirWay
  <1>2. /\ sequences < MaxSequence /\ sequences' = sequences + 1
        /\ thread' = [thread EXCEPT ![t] = "sent"]
        /\ carried' = [carried EXCEPT ![t] = sequences + 1]
        /\ UNCHANGED <<encoder, due, flusher, lock, stop, stopper, protected, repairs>>
    BY Zenon DEF send
  <1>3. sequences' \in 0 .. MaxSequence /\ sequences \in Nat
        /\ sequences + 1 \in 1 .. (sequences + 1) /\ sequences + 1 \notin 1 .. sequences
        /\ 1 .. sequences \subseteq 1 .. (sequences + 1)
    BY <1>1, <1>2
  <1>4. SenderTypeOK'
    BY Zenon, <1>1, <1>2, <1>3 DEF CoverInv, SenderTypeOK
  <1>5. /\ carried'[t] = sequences + 1 /\ thread'[t] = "sent"
        /\ \A u \in Threads \ {t} : carried'[u] = carried[u] /\ thread'[u] = thread[u]
    BY Zenon, <1>1, <1>2
  <1>6. \A u \in Threads \ {t} : thread'[u] = "sent" => carried'[u] \in 1 .. sequences
    BY Zenon, <1>5 DEF CoverInv, OnTheirWay
  <1>7. protected' = protected /\ protected' \subseteq 1 .. sequences'
    BY Zenon, <1>1, <1>2, <1>3
  <1>8. ASSUME NEW u \in Threads, thread'[u] = "sent"
        PROVE  /\ carried'[u] \in (1 .. sequences') \ protected'
               /\ \A v \in Threads \ {u} : thread'[v] = "sent" => carried'[v] # carried'[u]
    <2>1. CASE u = t
      BY Zenon, <2>1, <1>1, <1>2, <1>3, <1>5, <1>6, <1>7
    <2>2. CASE u # t
      <3>1. thread[u] = "sent" /\ carried'[u] = carried[u] /\ carried[u] \in (1 .. sequences) \ protected
        BY Zenon, <2>2, <1>5, <1>8 DEF CoverInv, OnTheirWay
      <3>2. carried'[u] \in (1 .. sequences') \ protected'
        BY Zenon, <3>1, <1>2, <1>3, <1>7
      <3>3. carried'[t] # carried'[u]
        BY Zenon, <3>1, <1>3, <1>5
      <3>4. \A v \in Threads \ {u, t} : thread'[v] = "sent" => carried'[v] # carried'[u]
        BY Zenon, <3>1, <1>5 DEF CoverInv, OnTheirWay
      <3> QED BY Zenon, <3>2, <3>3, <3>4
    <2> QED BY Zenon, <2>1, <2>2
  <1>9. OnTheirWay'
    BY Zenon, <1>7, <1>8 DEF OnTheirWay
  <1> QED BY Zenon, <1>2, <1>4, <1>9 DEF CoverInv, GroupsFit, HasRoom

(* Every step of the threads, the flusher and the stopping thread keeps it. *)
LEMMA CoverStep ==
    ASSUME CoverInv, [SenderNext]_senderVars
    PROVE  CoverInv'
  <1>1. /\ encoder \in [group_size : GroupSizes, members : SUBSET (1 .. MaxSequence)]
        /\ thread \in [Threads -> {"ready", "sent", "notify"}]
        /\ repairs \subseteq SUBSET (1 .. MaxSequence) /\ due \in BOOLEAN
        /\ SenderTypeOK
    BY Zenon DEF CoverInv, SenderTypeOK
  <1>2. Closed(encoder) \subseteq SUBSET (1 .. MaxSequence)
    <2>1. encoder.members \in SUBSET (1 .. MaxSequence)
      BY Zenon, <1>1
    <2> QED BY Zenon, <2>1 DEF Closed
  <1>3. close(encoder) = [group_size |-> encoder.group_size, members |-> {}]
    <2>1. encoder \in [group_size : GroupSizes, members : SUBSET (1 .. MaxSequence)]
      BY Zenon, <1>1
    <2> QED BY <2>1 DEF close
  <1>4. ASSUME NEW t \in Threads, protect_oversized(t)
        PROVE  CoverInv'
    <2>1. PICK size \in GroupSizes :
            LET resized == set_group_size(encoder, size) IN
            /\ encoder' = resized.encoder /\ repairs' = repairs \cup resized.closed
            /\ due' = (due /\ Open(resized.encoder))
      BY Zenon, <1>4 DEF protect_oversized
    <2>2. \/ encoder' = encoder /\ repairs' = repairs
          \/ /\ encoder' = [group_size |-> size, members |-> {}]
             /\ repairs' = repairs \cup Closed(encoder)
      <3> DEFINE e == close(encoder)
      <3>1. [e EXCEPT !.group_size = size] = [group_size |-> size, members |-> {}]
        BY <1>3
      <3> HIDE DEF e
      <3>2. \/ encoder' = encoder /\ repairs' = repairs
            \/ /\ encoder' = [e EXCEPT !.group_size = size]
               /\ repairs' = repairs \cup Closed(encoder)
        BY Zenon, <2>1 DEF set_group_size, e
      <3> QED BY Zenon, <3>1, <3>2
    <2>3. due' \in BOOLEAN
      BY Zenon, <2>1, <1>1 DEF Open
    <2>4. /\ thread' = [thread EXCEPT ![t] = "ready"]
          /\ UNCHANGED <<sequences, carried, flusher, lock, stop, stopper, protected>>
      BY Zenon, <1>4 DEF protect_oversized
    <2>5. /\ thread' \in [Threads -> {"ready", "sent", "notify"}]
          /\ \A u \in Threads : thread'[u] = "sent" => thread[u] = "sent"
      BY Zenon, <1>1, <2>4
    <2>6. /\ encoder' \in [group_size : GroupSizes, members : SUBSET (1 .. MaxSequence)]
          /\ repairs' \subseteq SUBSET (1 .. MaxSequence)
      <3>1. CASE encoder' = encoder /\ repairs' = repairs
        BY Zenon, <3>1, <1>1
      <3>2. CASE /\ encoder' = [group_size |-> size, members |-> {}]
                 /\ repairs' = repairs \cup Closed(encoder)
        BY Zenon, <3>2, <1>1, <1>2
      <3> QED BY Zenon, <2>2, <3>1, <3>2
    <2>7. SenderTypeOK'
      BY Zenon, <1>1, <2>3, <2>4, <2>5, <2>6 DEF SenderTypeOK
    <2> QED BY <2>2, <2>4, <2>5, <2>7, ClosingStep
  <1>5. CASE FlusherCloses
    <2>1. /\ encoder' = close(encoder) /\ repairs' = repairs \cup Closed(encoder) /\ due' = FALSE
          /\ flusher' = "locking" /\ lock' = "free"
          /\ UNCHANGED <<sequences, thread, carried, stop, stopper, protected>>
      BY Zenon, <1>5 DEF FlusherCloses
    <2>2. encoder' \in [group_size : GroupSizes, members : SUBSET (1 .. MaxSequence)]
          /\ encoder'.members = {}
      BY <1>1, <1>3, <2>1
    <2>3. repairs' \subseteq SUBSET (1 .. MaxSequence)
      BY Zenon, <1>1, <1>2, <2>1
    <2>4. SenderTypeOK'
      BY Zenon, <1>1, <2>1, <2>2, <2>3 DEF SenderTypeOK
    <2> QED BY Zenon, <2>1, <2>2, <2>4, ClosingStep
  <1>6. ASSUME UNCHANGED <<sequences, carried, encoder, protected, repairs>>, SenderTypeOK',
               \A t \in Threads : thread'[t] = "sent" => thread[t] = "sent"
        PROVE  CoverInv'
    BY Zenon, <1>6, ClosingStep
  <1>7. ASSUME NEW t \in Threads, notify_one(t)
        PROVE  CoverInv'
    <2>1. /\ UNCHANGED <<sequences, carried, encoder, due, lock, stop, stopper, protected, repairs>>
          /\ thread' = [thread EXCEPT ![t] = "ready"] /\ flusher' = Woken
      BY Zenon, <1>7 DEF notify_one
    <2>2. /\ thread' \in [Threads -> {"ready", "sent", "notify"}]
          /\ \A u \in Threads : thread'[u] = "sent" => thread[u] = "sent"
      BY Zenon, <1>1, <2>1
    <2>3. SenderTypeOK'
      BY Zenon, <1>1, <2>1, <2>2 DEF SenderTypeOK, Woken
    <2> QED BY Zenon, <1>6, <2>1, <2>2, <2>3
  <1>8. CASE OtherFrame
    <2>1. /\ sequences < MaxSequence /\ sequences' = sequences + 1
          /\ UNCHANGED <<thread, carried, encoder, due, flusher, lock, stop, stopper,
                 protected, repairs>>
      BY Zenon, <1>8 DEF OtherFrame
    <2>2. sequences' \in 0 .. MaxSequence /\ 1 .. sequences \subseteq 1 .. sequences'
      BY <1>1, <2>1, SenderAssumption DEF SenderTypeOK
    <2>3. SenderTypeOK'
      BY Zenon, <1>1, <2>1, <2>2 DEF SenderTypeOK
    <2>4. OnTheirWay'
      BY Zenon, <2>1, <2>2 DEF CoverInv, OnTheirWay
    <2> QED BY Zenon, <2>1, <2>3, <2>4 DEF CoverInv, GroupsFit, HasRoom
  <1>9. ASSUME FlusherLocks \/ FlusherReadsStop \/ FlusherWaits \/ FlusherTimesOut
               \/ IdleTimesOut \/ GroupAges \/ StopSession \/ wake_flusher
        PROVE  CoverInv'
    <2>1. UNCHANGED <<sequences, thread, carried, encoder, protected, repairs>>
      BY Zenon, <1>9 DEF FlusherLocks, FlusherReadsStop, FlusherWaits, FlusherTimesOut, IdleTimesOut,
                  GroupAges, StopSession, wake_flusher
    <2>2. SenderTypeOK'
      <3>1. due' \in BOOLEAN /\ stop' \in BOOLEAN
        BY Zenon, <1>1, <1>9 DEF SenderTypeOK, FlusherLocks, FlusherReadsStop, FlusherWaits,
                  FlusherTimesOut, IdleTimesOut, GroupAges, StopSession, wake_flusher
      <3>2. /\ flusher' \in {"locking", "holding", "deciding", "idle", "timed", "stopped"}
            /\ lock' \in {"free", "flusher"} /\ stopper' \in {"running", "waking", "done"}
        BY Zenon, <1>1, <1>9 DEF SenderTypeOK, FlusherLocks, FlusherReadsStop, FlusherWaits,
                  FlusherTimesOut, IdleTimesOut, GroupAges, StopSession, wake_flusher, Woken
      <3> QED BY Zenon, <1>1, <2>1, <3>1, <3>2 DEF SenderTypeOK
    <2> QED BY Zenon, <1>6, <2>1, <2>2
  <1>10. CASE UNCHANGED senderVars
    <2>1. SenderTypeOK'
      BY Zenon, <1>1, <1>10 DEF SenderTypeOK, senderVars
    <2> QED BY Zenon, <1>6, <1>10, <2>1 DEF senderVars
  <1> QED BY Zenon, <1>4, <1>5, <1>7, <1>8, <1>9, <1>10, ProtectKeeps, SendKeeps
         DEF SenderNext, Flusher

(* Every packet given to the encoder is covered by exactly one repair, or will
   be by the open group, and every repair can be written in its format: for any
   threads, group sizes, resizes and deadlines, in any order. *)
THEOREM AlwaysCoveredExactlyOnce == SenderSpec => []CoveredExactlyOnce
  <1>1. CoverInv /\ [SenderNext]_senderVars => CoverInv'
    BY Zenon, CoverStep
  <1>2. CoverInv => CoveredExactlyOnce
    BY Zenon DEF CoverInv, CoveredExactlyOnce, Covered, GroupsFit, Fits
  <1> QED BY <1>1, <1>2, InitCover, PTL DEF SenderSpec

-----------------------------------------------------------------------------
(* The VPN's controller.  The awaits of a start, and those of a stop. *)
StartPlaces == {"validate", "starting", "started", "failed", "refused", "cleaning", "cleaned",
                "stepping aside", "stepped aside"}
StopPlaces == {"stop", "stopping", "stopped"}

(* A stop waits in the queue; a start waits there that no stop follows. *)
StopIn(q) == \E i \in 1 .. Len(q) : q[i] = "stop"
StartIn(q) == \E i \in 1 .. Len(q) : /\ q[i] = "start"
                                     /\ \A j \in 1 .. Len(q) : j > i => q[j] # "stop"

(* The job running stops the session for good: it starts nothing afterwards. *)
EndsIt == job.at \in StopPlaces /\ job.kind = "stop"

(* A reconnect is scheduled only for a VPN that is wanted. *)
TimerIsWanted == timer => wanted

(* While a start runs no reconnect is scheduled, and a user who changed their
   mind has a stop waiting behind it. *)
StartIsFollowed == job.at \in StartPlaces => ~timer /\ (wanted \/ StopIn(jobs))

(* Which jobs stop, and which job reconsiders. *)
KindsFit ==
    /\ job.at \in StopPlaces => job.kind \in {"stop", "restart", "reconsider", "lost"}
    /\ job.at = "reconsider" => job.kind = "reconsider"

(* A live session is polled until it is being stopped. *)
LiveIsPolled == status \in LIVE => polling \/ job.at \in {"stopping", "stopped"}

(* A stop the user has taken back has a start behind it. *)
StopIsTakenBack == wanted /\ (StopIn(jobs) \/ EndsIt) => StartIn(jobs)

(* A VPN that is wanted is at rest for a reason, or something that is queued or
   running brings it there. *)
WantedIsServed ==
    wanted => \/ timer \/ status = "paused" \/ (status \in LIVE /\ polling)
              \/ StartIn(jobs)
              \/ job.at \in StartPlaces \cup {"start"}
              \/ job.at \in StopPlaces /\ job.kind # "stop"

(* A session that is no longer wanted is being stopped, or will be. *)
UnwantedEnds == ~wanted /\ status \in ACTIVE => StopIn(jobs) \/ job.at \in StopPlaces

ControlInv ==
    /\ TimerIsWanted /\ StartIsFollowed /\ KindsFit /\ LiveIsPolled
    /\ StopIsTakenBack /\ WantedIsServed /\ UnwantedEnds

VpnInv == VpnTypeOK /\ ControlInv

(* What a job added at the end of the queue changes. *)
LEMMA EnqueueFacts ==
    ASSUME NEW q \in Seq(Kinds), NEW k \in Kinds
    PROVE  /\ Append(q, k) \in Seq(Kinds)
           /\ StopIn(q) => StopIn(Append(q, k))
           /\ k # "stop" /\ StopIn(Append(q, k)) => StopIn(q)
           /\ k # "stop" /\ StartIn(q) => StartIn(Append(q, k))
           /\ k = "start" => StartIn(Append(q, k))
           /\ k = "stop" => StopIn(Append(q, k))
  <1> DEFINE r == Append(q, k)
  <1>1. /\ r \in Seq(Kinds)
        /\ Len(q) \in Nat /\ Len(r) = Len(q) + 1
        /\ r[Len(q) + 1] = k
        /\ \A i \in 1 .. Len(q) : r[i] = q[i]
    OBVIOUS
  <1> HIDE DEF r
  <1>2. \A i \in 1 .. Len(r) : i \in 1 .. Len(q) \/ i = Len(q) + 1
    BY <1>1
  <1>3. \A i \in 1 .. Len(q) : i \in 1 .. Len(r)
    BY <1>1
  <1>4. StopIn(q) => StopIn(r)
    BY Zenon, <1>1, <1>3 DEF StopIn
  <1>5. k # "stop" /\ StopIn(r) => StopIn(q)
    BY Zenon, <1>1, <1>2 DEF StopIn
  <1>6. ASSUME k # "stop", StartIn(q)
        PROVE  StartIn(r)
    <2>1. PICK i \in 1 .. Len(q) : /\ q[i] = "start"
                                   /\ \A j \in 1 .. Len(q) : j > i => q[j] # "stop"
      BY Zenon, <1>6 DEF StartIn
    <2>2. \A j \in 1 .. Len(r) : j > i => r[j] # "stop"
      BY Zenon, <1>1, <1>2, <1>6, <2>1
    <2>3. i \in 1 .. Len(r) /\ r[i] = "start"
      BY Zenon, <1>1, <1>3, <2>1
    <2> QED BY Zenon, <2>2, <2>3 DEF StartIn
  <1>7. k = "start" => StartIn(r)
    <2>1. Len(q) + 1 \in 1 .. Len(r) /\ \A j \in 1 .. Len(r) : ~(j > Len(q) + 1)
      BY <1>1
    <2> QED BY Zenon, <1>1, <2>1 DEF StartIn
  <1>8. k = "stop" => StopIn(r)
    <2>1. Len(q) + 1 \in 1 .. Len(r)
      BY <1>1
    <2> QED BY Zenon, <1>1, <2>1 DEF StopIn
  <1> QED BY Zenon, <1>1, <1>4, <1>5, <1>6, <1>7, <1>8 DEF r

(* What taking the first job off the queue changes. *)
LEMMA TakingFacts ==
    ASSUME NEW q \in Seq(Kinds), q # <<>>
    PROVE  /\ Head(q) \in Kinds /\ Tail(q) \in Seq(Kinds)
           /\ StopIn(Tail(q)) => StopIn(q)
           /\ Head(q) = "stop" => StopIn(q)
           /\ StopIn(q) => StopIn(Tail(q)) \/ Head(q) = "stop"
           /\ StartIn(q) => StartIn(Tail(q)) \/ Head(q) = "start"
           /\ StartIn(q) /\ StopIn(Tail(q)) => StartIn(Tail(q))
  <1> DEFINE t == Tail(q)
  <1>1. /\ t \in Seq(Kinds) /\ Head(q) \in Kinds
        /\ Len(q) \in Nat /\ Len(q) > 0 /\ Len(t) = Len(q) - 1
        /\ Head(q) = q[1]
        /\ \A i \in 1 .. Len(t) : t[i] = q[i + 1]
    OBVIOUS
  <1> HIDE DEF t
  <1>2. \A i \in 1 .. Len(t) : i + 1 \in 1 .. Len(q)
    BY <1>1
  <1>3. \A i \in 1 .. Len(q) : i = 1 \/ (i - 1 \in 1 .. Len(t) /\ t[i - 1] = q[i])
    BY <1>1
  <1>4. StopIn(t) => StopIn(q)
    BY Zenon, <1>1, <1>2 DEF StopIn
  <1>5. Head(q) = "stop" => StopIn(q)
    <2>1. 1 \in 1 .. Len(q)
      BY <1>1
    <2> QED BY Zenon, <1>1, <2>1 DEF StopIn
  <1>6. StopIn(q) => StopIn(t) \/ Head(q) = "stop"
    BY Zenon, <1>1, <1>3 DEF StopIn
  <1>7. ASSUME StartIn(q)
        PROVE  /\ StartIn(t) \/ Head(q) = "start"
               /\ StopIn(t) => StartIn(t)
    <2>1. PICK i \in 1 .. Len(q) : /\ q[i] = "start"
                                   /\ \A j \in 1 .. Len(q) : j > i => q[j] # "stop"
      BY Zenon, <1>7 DEF StartIn
    <2>2. CASE i = 1
      <3>1. \A j \in 1 .. Len(t) : j + 1 \in 1 .. Len(q) /\ j + 1 > i
        BY <1>1, <2>2
      <3>2. \A j \in 1 .. Len(t) : t[j] # "stop"
        BY Zenon, <1>1, <2>1, <3>1
      <3>3. Head(q) = "start"
        BY Zenon, <1>1, <2>1, <2>2
      <3> QED BY Zenon, <3>2, <3>3 DEF StopIn
    <2>3. CASE i # 1
      <3>1. i - 1 \in 1 .. Len(t) /\ t[i - 1] = "start"
        BY Zenon, <1>3, <2>1, <2>3
      <3>2. \A j \in 1 .. Len(t) : j > i - 1 => t[j] # "stop"
        <4> SUFFICES ASSUME NEW j \in 1 .. Len(t), j > i - 1 PROVE t[j] # "stop"
          BY Zenon
        <4>1. j + 1 \in 1 .. Len(q) /\ j + 1 > i /\ t[j] = q[j + 1]
          BY <1>1
        <4> QED BY Zenon, <2>1, <4>1
      <3>3. StartIn(t)
        BY Zenon, <3>1, <3>2 DEF StartIn
      <3> QED BY Zenon, <3>3
    <2> QED BY Zenon, <2>2, <2>3
  <1> QED BY Zenon, <1>1, <1>4, <1>5, <1>6, <1>7 DEF t

(* A job that moves to its next await keeps its kind. *)
LEMMA AtFacts ==
    ASSUME VpnTypeOK, NEW w \in Places, At(w)
    PROVE  job'.at = w /\ job'.kind = job.kind /\ job' \in [kind : Kinds \cup {"none"}, at : Places]
  BY Zenon DEF VpnTypeOK, At

LEMMA DoneFacts ==
    ASSUME Done
    PROVE  job'.at = "none" /\ job'.kind = "none" /\ job' \in [kind : Kinds \cup {"none"}, at : Places]
  BY Zenon DEF Done, NoJob, Places

LEMMA StatusFacts ==
    ASSUME VpnTypeOK, NEW s, StatusBecomes(s)
    PROVE  /\ status' = s
           /\ poll' \in [at : {"none", "out", "up", "down", "error", "pause", "silent"}, current : BOOLEAN]
  BY Zenon DEF VpnTypeOK, StatusBecomes

(* scheduleReconnect leaves a reconnect scheduled exactly when the VPN is wanted
   or one was. *)
LEMMA ScheduleFacts ==
    ASSUME VpnTypeOK, scheduleReconnect("error", wanted)
    PROVE  /\ status' \in {"reconnecting", "error"}
           /\ status' = "reconnecting" => wanted
           /\ timer' \in BOOLEAN /\ (timer' <=> timer \/ wanted)
           /\ poll' \in [at : {"none", "out", "up", "down", "error", "pause", "silent"}, current : BOOLEAN]
  <1>1. StatusBecomes(IF wanted /\ ~timer THEN "reconnecting" ELSE "error")
    BY Zenon DEF scheduleReconnect
  <1>2. /\ status' = IF wanted /\ ~timer THEN "reconnecting" ELSE "error"
        /\ poll' \in [at : {"none", "out", "up", "down", "error", "pause", "silent"}, current : BOOLEAN]
    BY <1>1, StatusFacts
  <1>3. timer' = (timer \/ wanted)
    BY Zenon DEF scheduleReconnect
  <1>4. timer' \in BOOLEAN /\ (timer' <=> timer \/ wanted)
    BY <1>3, ZenonT(20)
  <1> QED BY Zenon, <1>2, <1>4

(* What the session becomes when a stop is through. *)
LEMMA StoppedFacts ==
    ASSUME VpnTypeOK, TimerIsWanted, job.kind \in {"stop", "restart", "reconsider", "lost"},
           Stopped(job.kind)
    PROVE  /\ status' \in {"idle", "paused", "error", "reconnecting"}
           /\ status' = "reconnecting" => wanted
           /\ job.kind = "reconsider" => status' = "paused"
           /\ job.kind = "lost" /\ wanted => timer'
           /\ timer' \in BOOLEAN /\ (timer' => wanted) /\ (timer => timer')
           /\ poll' \in [at : {"none", "out", "up", "down", "error", "pause", "silent"}, current : BOOLEAN]
  <1>1. timer \in BOOLEAN /\ wanted \in BOOLEAN
    BY Zenon DEF VpnTypeOK
  <1>2. CASE job.kind \in {"stop", "restart"}
    <2>1. StatusBecomes("idle") /\ timer' = timer
      BY Zenon, <1>2 DEF Stopped
    <2>2. status' = "idle" /\ poll' \in [at : {"none", "out", "up", "down", "error", "pause", "silent"}, current : BOOLEAN]
      BY Zenon, <2>1, StatusFacts
    <2> QED BY Zenon, <1>1, <1>2, <2>1, <2>2 DEF TimerIsWanted
  <1>3. CASE job.kind = "reconsider"
    <2>1. StatusBecomes("paused") /\ timer' = timer
      BY Zenon, <1>3 DEF Stopped
    <2>2. status' = "paused" /\ poll' \in [at : {"none", "out", "up", "down", "error", "pause", "silent"}, current : BOOLEAN]
      BY Zenon, <2>1, StatusFacts
    <2> QED BY Zenon, <1>1, <1>3, <2>1, <2>2 DEF TimerIsWanted
  <1>4. CASE job.kind = "lost"
    <2>1. scheduleReconnect("error", wanted)
      BY Zenon, <1>4 DEF Stopped
    <2> QED BY Zenon, <1>1, <1>4, <2>1, ScheduleFacts DEF TimerIsWanted
  <1> QED BY Zenon, <1>2, <1>3, <1>4

(* Every step keeps the types. *)
LEMMA VpnTypeStep == VpnInv /\ [VpnNext]_vpnVars => VpnTypeOK'
  <1> SUFFICES ASSUME VpnInv, [VpnNext]_vpnVars
               PROVE  VpnTypeOK'
    BY Zenon
  <1> USE DEF vpnVars, client, service, world, bounds
  <1>1. VpnTypeOK /\ TimerIsWanted /\ KindsFit
    BY Zenon DEF VpnInv, ControlInv
  <1>2. /\ MAX_ANSWERED_FAILURES \in Nat \ {0} /\ SilentPolls \in Nat \ {0}
    BY Zenon, VpnAssumption
  <1>3. \A k \in Kinds : Enqueue(k) => jobs' \in Seq(Kinds)
    BY Zenon, <1>1, EnqueueFacts DEF VpnTypeOK, Enqueue
  <1>4. CASE connect
    <2>1. jobs' \in Seq(Kinds)
      BY Zenon, <1>3, <1>4 DEF connect, Kinds
    <2> QED BY <1>1, <1>4, <2>1 DEF connect, VpnTypeOK
  <1>5. CASE disconnect
    <2>1. jobs' \in Seq(Kinds)
      BY Zenon, <1>3, <1>5 DEF disconnect, Kinds
    <2>2. timer' \in BOOLEAN /\ wanted' \in BOOLEAN
      BY Zenon, <1>5 DEF disconnect
    <2> QED BY <1>1, <1>5, <2>1, <2>2 DEF disconnect, VpnTypeOK
  <1>6. CASE restart
    <2>1. jobs' \in Seq(Kinds)
      BY Zenon, <1>3, <1>6 DEF restart, Kinds
    <2> QED BY <1>1, <1>6, <2>1 DEF restart, VpnTypeOK
  <1>7. CASE onResume
    <2>1. jobs' \in Seq(Kinds)
      BY Zenon, <1>3, <1>7 DEF onResume, Kinds
    <2>2. timer' \in BOOLEAN
      BY Zenon, <1>7 DEF onResume
    <2> QED BY <1>1, <1>7, <2>1, <2>2 DEF onResume, VpnTypeOK
  <1>8. CASE ReconnectTimer
    <2>1. jobs' \in Seq(Kinds)
      BY Zenon, <1>3, <1>8 DEF ReconnectTimer, Kinds
    <2>2. timer' \in BOOLEAN
      BY Zenon, <1>8 DEF ReconnectTimer
    <2> QED BY <1>1, <1>8, <2>1, <2>2 DEF ReconnectTimer, VpnTypeOK
  <1>9. CASE JobTaken
    <2>1. jobs \in Seq(Kinds) /\ jobs # <<>> /\ jobs' = Tail(jobs)
      BY Zenon, <1>1, <1>9 DEF JobTaken, VpnTypeOK
    <2>2. Head(jobs) \in Kinds /\ jobs' \in Seq(Kinds)
      BY Zenon, <2>1, TakingFacts
    <2>3. job' \in [kind : Kinds \cup {"none"}, at : Places]
      BY Zenon, <1>9, <2>2 DEF JobTaken, Kinds, Places
    <2> QED BY <1>1, <1>9, <2>2, <2>3 DEF JobTaken, VpnTypeOK
  <1>10. CASE reconsider
    <2>1. job' \in [kind : Kinds \cup {"none"}, at : Places]
      BY Zenon, <1>1, <1>10, AtFacts, DoneFacts DEF reconsider, Places
    <2>2. timer' \in BOOLEAN
      BY Zenon, <1>1, <1>10 DEF reconsider, VpnTypeOK
    <2> QED BY <1>1, <1>10, <2>1, <2>2 DEF reconsider, VpnTypeOK
  <1>11. CASE StartBegins
    <2>1. job' \in [kind : Kinds \cup {"none"}, at : Places]
      BY Zenon, <1>1, <1>11, AtFacts, DoneFacts DEF StartBegins, Places
    <2>2. /\ status' \in ACTIVE \cup {"idle", "paused", "error"}
          /\ poll' \in [at : {"none", "out", "up", "down", "error", "pause", "silent"}, current : BOOLEAN]
      BY Zenon, <1>1, <1>11, StatusFacts DEF StartBegins, VpnTypeOK, ACTIVE
    <2> QED BY ZenonT(60), <1>1, <1>11, <2>1, <2>2 DEF StartBegins, VpnTypeOK
  <1>12. CASE Validated
    <2>1. job' \in [kind : Kinds \cup {"none"}, at : Places]
      BY Zenon, <1>1, <1>12, AtFacts, DoneFacts DEF Validated, Places
    <2>2. /\ status' \in ACTIVE \cup {"idle", "paused", "error"}
          /\ timer' \in BOOLEAN /\ wanted' \in BOOLEAN
          /\ poll' \in [at : {"none", "out", "up", "down", "error", "pause", "silent"}, current : BOOLEAN]
      BY Zenon, <1>1, <1>12, StatusFacts, ScheduleFacts DEF Validated, VpnTypeOK, ACTIVE
    <2> QED BY Zenon, <1>1, <1>12, <2>1, <2>2 DEF Validated, VpnTypeOK
  <1>13. CASE StartConnects
    <2>1. job' \in [kind : Kinds \cup {"none"}, at : Places]
      BY Zenon, <1>13, DoneFacts DEF StartConnects
    <2>2. /\ status' = "connected"
          /\ poll' \in [at : {"none", "out", "up", "down", "error", "pause", "silent"}, current : BOOLEAN]
      BY Zenon, <1>1, <1>13, StatusFacts DEF StartConnects
    <2> QED BY <1>1, <1>2, <1>13, <2>1, <2>2 DEF StartConnects, VpnTypeOK, ACTIVE, LIVE
  <1>14. CASE StartCleansUp
    <2>1. At("cleaning") \/ At("stepping aside")
      BY Zenon, <1>14 DEF StartCleansUp
    <2>2. job' \in [kind : Kinds \cup {"none"}, at : Places]
      BY Zenon, <1>1, <2>1, AtFacts DEF Places
    <2>3. UNCHANGED <<wanted, status, timer, polling, fails, silent, jobs, poll, service, world>>
      BY Zenon, <1>14 DEF StartCleansUp
    <2> QED BY <1>1, <2>2, <2>3 DEF VpnTypeOK
  <1>15. CASE StartGivesUp
    <2>1. job' \in [kind : Kinds \cup {"none"}, at : Places]
      BY Zenon, <1>15, DoneFacts DEF StartGivesUp
    <2>2. /\ status' \in ACTIVE \cup {"idle", "paused", "error"}
          /\ timer' \in BOOLEAN
          /\ poll' \in [at : {"none", "out", "up", "down", "error", "pause", "silent"}, current : BOOLEAN]
      BY Zenon, <1>1, <1>15, StatusFacts, ScheduleFacts DEF StartGivesUp, VpnTypeOK, ACTIVE
    <2> QED BY Zenon, <1>1, <1>15, <2>1, <2>2 DEF StartGivesUp, VpnTypeOK
  <1>16. CASE StopBegins
    <2>1. job' \in [kind : Kinds \cup {"none"}, at : Places]
      BY Zenon, <1>1, <1>16, AtFacts, DoneFacts DEF StopBegins, Places
    <2>2. job.kind \in {"stop", "restart", "reconsider", "lost"}
      BY Zenon, <1>1, <1>16 DEF StopBegins, KindsFit, StopPlaces
    <2>3. /\ status' \in ACTIVE \cup {"idle", "paused", "error"}
          /\ timer' \in BOOLEAN
          /\ poll' \in [at : {"none", "out", "up", "down", "error", "pause", "silent"}, current : BOOLEAN]
      BY Zenon, <1>1, <1>16, <2>2, StoppedFacts DEF StopBegins, VpnTypeOK, ACTIVE
    <2> QED BY Zenon, <1>1, <1>16, <2>1, <2>3 DEF StopBegins, VpnTypeOK
  <1>17. CASE StopEnds
    <2>1. job' \in [kind : Kinds \cup {"none"}, at : Places]
      BY Zenon, <1>1, <1>17, AtFacts, DoneFacts DEF StopEnds, Places
    <2>2. job.kind \in {"stop", "restart", "reconsider", "lost"}
      BY Zenon, <1>1, <1>17 DEF StopEnds, KindsFit, StopPlaces
    <2>3. /\ status' \in ACTIVE \cup {"idle", "paused", "error"}
          /\ timer' \in BOOLEAN
          /\ poll' \in [at : {"none", "out", "up", "down", "error", "pause", "silent"}, current : BOOLEAN]
      BY Zenon, <1>1, <1>17, <2>2, StoppedFacts DEF StopEnds, ACTIVE
    <2> QED BY Zenon, <1>1, <1>17, <2>1, <2>3 DEF StopEnds, VpnTypeOK
  <1>18. CASE ServiceStops
    <2>1. job' \in [kind : Kinds \cup {"none"}, at : Places]
      BY Zenon, <1>1, <1>18, AtFacts DEF ServiceStops, AfterStop, Places
    <2> QED BY <1>1, <1>18, <2>1 DEF ServiceStops, VpnTypeOK
  <1>19. CASE ServiceStarts
    <2>1. job' \in [kind : Kinds \cup {"none"}, at : Places]
      BY Zenon, <1>1, <1>19, AtFacts DEF ServiceStarts, Places
    <2>2. slot' \in {"running", "idle", "paused"}
      BY Zenon, <1>1, <1>19 DEF ServiceStarts, VpnTypeOK
    <2> QED BY <1>1, <1>19, <2>1, <2>2 DEF ServiceStarts, VpnTypeOK
  <1>20. CASE RequestTimesOut
    <2>1. job' \in [kind : Kinds \cup {"none"}, at : Places]
      BY Zenon, <1>1, <1>20, AtFacts DEF RequestTimesOut, AfterStop, Places
    <2>2. late' \subseteq {"start", "stop"}
      BY Zenon, <1>1, <1>20 DEF RequestTimesOut, VpnTypeOK
    <2> QED BY <1>1, <1>20, <2>1, <2>2 DEF RequestTimesOut, VpnTypeOK
  <1>21. CASE LateRequest \/ LeaseExpires
    BY ZenonT(60), <1>1, <1>21 DEF LateRequest, LeaseExpires, VpnTypeOK
  <1>22. CASE PollSends \/ PollAnswered \/ PollUnanswered
    <2>1. poll' \in [at : {"none", "out", "up", "down", "error", "pause", "silent"}, current : BOOLEAN]
      <3>1. CASE PollSends
        BY Zenon, <3>1 DEF PollSends
      <3>2. CASE PollAnswered
        BY Zenon, <1>1, <3>2 DEF PollAnswered, VpnTypeOK
      <3>3. CASE PollUnanswered
        BY Zenon, <1>1, <3>3 DEF PollUnanswered, VpnTypeOK
      <3> QED BY Zenon, <1>22, <3>1, <3>2, <3>3
    <2> QED BY <1>1, <1>22, <2>1 DEF PollSends, PollAnswered, PollUnanswered, VpnTypeOK
  <1>23. CASE PollApplied
    <2>1. poll' \in [at : {"none", "out", "up", "down", "error", "pause", "silent"}, current : BOOLEAN]
      BY Zenon, <1>23 DEF PollApplied, Dropped, NoPoll
    <2>2. jobs' \in Seq(Kinds)
      BY Zenon, <1>1, <1>3, <1>23 DEF PollApplied, VpnTypeOK, Kinds
    <2>3. fails' \in 0 .. MAX_ANSWERED_FAILURES /\ silent' \in 0 .. SilentPolls
      BY <1>1, <1>2, <1>23 DEF PollApplied, VpnTypeOK
    <2>4. status' \in ACTIVE \cup {"idle", "paused", "error"} /\ polling' \in BOOLEAN
      BY Zenon, <1>1, <1>23 DEF PollApplied, VpnTypeOK, ACTIVE, LIVE
    <2> QED BY Zenon, <1>1, <1>23, <2>1, <2>2, <2>3, <2>4 DEF PollApplied, VpnTypeOK
  <1>24. CASE beforeGameStart \/ GameTakesAll \/ gameChanged \/ GameGivenUp
    <2>1. Enqueue("reconsider")
      BY Zenon, <1>24 DEF beforeGameStart, GameTakesAll, gameChanged, GameGivenUp
    <2>2. jobs' \in Seq(Kinds)
      BY Zenon, <1>3, <2>1 DEF Kinds
    <2> QED BY ZenonT(60), <1>1, <1>24, <2>2 DEF beforeGameStart, GameTakesAll, gameChanged, GameGivenUp, VpnTypeOK
  <1>25. CASE GameStops \/ GameLeaseExpires \/ NodeFails \/ NodeReturns
    BY ZenonT(60), <1>1, <1>25 DEF GameStops, GameLeaseExpires, NodeFails, NodeReturns, VpnTypeOK
  <1>26. CASE UNCHANGED vpnVars
    BY <1>1, <1>26 DEF VpnTypeOK
  <1> QED BY Zenon, <1>4, <1>5, <1>6, <1>7, <1>8, <1>9, <1>10, <1>11, <1>12, <1>13, <1>14, <1>15, <1>16,
             <1>17, <1>18, <1>19, <1>20, <1>21, <1>22, <1>23, <1>24, <1>25, <1>26
          DEF VpnNext, Controller, Service, Polling, Game

(* Every step keeps what the controller relies on. *)
LEMMA ControlStep == VpnInv /\ [VpnNext]_vpnVars => ControlInv'
  <1> SUFFICES ASSUME VpnInv, [VpnNext]_vpnVars
               PROVE  ControlInv'
    BY Zenon
  <1> USE DEF vpnVars, client, service, world, bounds
  <1>1. VpnTypeOK /\ ControlInv /\ TimerIsWanted /\ KindsFit
    BY Zenon DEF VpnInv, ControlInv
  <1>2. /\ wanted \in BOOLEAN /\ timer \in BOOLEAN /\ polling \in BOOLEAN
        /\ jobs \in Seq(Kinds)
        /\ status \in ACTIVE \cup {"idle", "paused", "error"}
    BY Zenon, <1>1 DEF VpnTypeOK
  <1> USE DEF ControlInv, TimerIsWanted, StartIsFollowed, KindsFit, LiveIsPolled, StopIsTakenBack,
              WantedIsServed, UnwantedEnds, EndsIt, StartPlaces, StopPlaces, ACTIVE, LIVE
  \* A job other than a stop is queued; the rest stays.
  <1>3. ASSUME NEW k \in Kinds \ {"stop"}, Enqueue(k),
               wanted' = wanted, polling' = polling, job' = job, timer' = timer, status' = status
        PROVE  ControlInv'
    <2>1. /\ StopIn(jobs) <=> StopIn(jobs)'
          /\ StartIn(jobs) => StartIn(jobs)'
      BY Zenon, <1>2, <1>3, EnqueueFacts DEF Enqueue
    <2> QED BY Zenon, <1>1, <1>2, <1>3, <2>1
  \* The queue stays, and so does everything else the controller decides by.
  <1>4. ASSUME wanted' = wanted, polling' = polling, job' = job, timer' = timer, status' = status,
               jobs' = jobs
        PROVE  ControlInv'
    BY Zenon, <1>1, <1>4
  <1>5. CASE connect
    <2>1. StartIn(jobs)'
      BY Zenon, <1>2, <1>5, EnqueueFacts DEF connect, Enqueue, Kinds
    <2>2. /\ wanted' = TRUE
          /\ timer' = timer /\ status' = status /\ polling' = polling /\ job' = job
      BY Zenon, <1>5 DEF connect
    <2> QED BY Zenon, <1>1, <1>2, <2>1, <2>2
  <1>6. CASE disconnect
    <2>1. StopIn(jobs)'
      BY Zenon, <1>2, <1>6, EnqueueFacts DEF disconnect, Enqueue, Kinds
    <2>2. /\ wanted' = FALSE /\ timer' = FALSE
          /\ status' = status /\ polling' = polling /\ job' = job
      BY Zenon, <1>6 DEF disconnect
    <2> QED BY Zenon, <1>1, <1>2, <2>1, <2>2
  <1>7. CASE restart
    BY Zenon, <1>3, <1>7 DEF restart, Kinds
  <1>8. CASE onResume \/ ReconnectTimer
    <2>1. /\ StartIn(jobs)' /\ (StopIn(jobs) => StopIn(jobs)')
      BY Zenon, <1>2, <1>8, EnqueueFacts DEF onResume, ReconnectTimer, Enqueue, Kinds
    <2>2. /\ timer' = FALSE
          /\ wanted' = wanted /\ status' = status /\ polling' = polling /\ job' = job
      BY Zenon, <1>8 DEF onResume, ReconnectTimer
    <2> QED BY Zenon, <1>1, <1>2, <2>1, <2>2
  <1>9. CASE JobTaken
    <2>1. jobs # <<>> /\ jobs' = Tail(jobs) /\ job = NoJob
      BY Zenon, <1>9 DEF JobTaken
    <2>2. /\ Head(jobs) \in Kinds
          /\ StopIn(jobs)' => StopIn(jobs)
          /\ Head(jobs) = "stop" => StopIn(jobs)
          /\ StopIn(jobs) => StopIn(jobs)' \/ Head(jobs) = "stop"
          /\ StartIn(jobs) => StartIn(jobs)' \/ Head(jobs) = "start"
          /\ StartIn(jobs) /\ StopIn(jobs)' => StartIn(jobs)'
      BY Zenon, <1>2, <2>1, TakingFacts
    <2>3. /\ job'.kind = Head(jobs)
          /\ job'.at = CASE Head(jobs) \in {"start", "reconsider"} -> Head(jobs)
                         [] Head(jobs) = "restart" /\ status \notin ACTIVE -> "start"
                         [] OTHER -> "stop"
      BY Zenon, <1>9 DEF JobTaken
    <2>4. /\ Head(jobs) = "start" => job'.at = "start"
          /\ Head(jobs) = "reconsider" => job'.at = "reconsider"
          /\ Head(jobs) = "restart" => job'.at \in {"start", "stop"}
          /\ Head(jobs) \in {"stop", "lost"} => job'.at = "stop"
      BY Zenon, <2>2, <2>3 DEF Kinds
    <2>5. job.at = "none" /\ job.kind = "none"
      BY Zenon, <2>1 DEF NoJob
    <2>6. /\ timer' = timer /\ wanted' = wanted /\ status' = status /\ polling' = polling
      BY Zenon, <1>9 DEF JobTaken
    <2> QED BY Zenon, <1>1, <1>2, <2>2, <2>3, <2>4, <2>5, <2>6 DEF Kinds
  <1>10. CASE reconsider
    <2>1. /\ job.at = "reconsider" /\ job.kind = "reconsider"
          /\ jobs' = jobs /\ wanted' = wanted /\ status' = status /\ polling' = polling
      BY Zenon, <1>1, <1>10 DEF reconsider
    <2>2. CASE status \in ACTIVE /\ timer' = FALSE /\ At("stop")
      <3>1. job'.at = "stop" /\ job'.kind = "reconsider"
        BY Zenon, <1>1, <2>1, <2>2, AtFacts DEF Places
      <3> QED BY Zenon, <1>1, <1>2, <2>1, <2>2, <3>1
    <2>3. CASE wanted /\ status = "paused" /\ At("start") /\ timer' = timer
      <3>1. job'.at = "start" /\ job'.kind = "reconsider"
        BY Zenon, <1>1, <2>1, <2>3, AtFacts DEF Places
      <3> QED BY Zenon, <1>1, <1>2, <2>1, <2>3, <3>1
    <2>4. CASE Done /\ timer' = timer
      <3>1. job'.at = "none" /\ job'.kind = "none"
        BY Zenon, <2>4, DoneFacts
      <3> QED BY Zenon, <1>1, <1>2, <2>1, <2>4, <3>1
    <2> QED BY Zenon, <1>10, <2>2, <2>3, <2>4 DEF reconsider
  <1>11. CASE StartBegins
    <2>1. /\ job.at = "start" /\ jobs' = jobs /\ polling' = polling /\ timer' = FALSE
      BY Zenon, <1>11 DEF StartBegins
    <2>2. CASE ~wanted /\ Done /\ status' = status /\ wanted' = wanted
      <3>1. job'.at = "none" /\ job'.kind = "none"
        BY Zenon, <2>2, DoneFacts
      <3> QED BY Zenon, <1>1, <1>2, <2>1, <2>2, <3>1
    <2>3. CASE wanted /\ StatusBecomes("paused") /\ Done /\ wanted' = wanted
      <3>1. job'.at = "none" /\ job'.kind = "none" /\ status' = "paused"
        BY Zenon, <1>1, <2>3, DoneFacts, StatusFacts
      <3> QED BY Zenon, <1>1, <1>2, <2>1, <2>3, <3>1
    <2>4. CASE wanted /\ StatusBecomes("connecting") /\ At("validate") /\ wanted' = wanted
      <3>1. job'.at = "validate" /\ status' = "connecting"
        BY Zenon, <1>1, <2>4, AtFacts, StatusFacts DEF Places
      <3> QED BY Zenon, <1>1, <1>2, <2>1, <2>4, <3>1
    <2>5. CASE wanted' = FALSE /\ StatusBecomes("error") /\ Done
      <3>1. job'.at = "none" /\ job'.kind = "none" /\ status' = "error"
        BY Zenon, <1>1, <2>5, DoneFacts, StatusFacts
      <3> QED BY Zenon, <1>1, <1>2, <2>1, <2>5, <3>1
    <2> QED BY Zenon, <1>11, <2>2, <2>3, <2>4, <2>5 DEF StartBegins
  <1>12. CASE Validated
    <2>1. /\ job.at = "validate" /\ jobs' = jobs /\ polling' = polling
      BY Zenon, <1>12 DEF Validated
    <2>2. CASE At("starting") /\ UNCHANGED <<wanted, status, timer>>
      <3>1. job'.at = "starting"
        BY Zenon, <1>1, <2>2, AtFacts DEF Places
      <3> QED BY Zenon, <1>1, <1>2, <2>1, <2>2, <3>1
    <2>3. CASE wanted' = FALSE /\ StatusBecomes("error") /\ Done /\ timer' = timer
      <3>1. job'.at = "none" /\ job'.kind = "none" /\ status' = "error"
        BY Zenon, <1>1, <2>3, DoneFacts, StatusFacts
      <3> QED BY Zenon, <1>1, <1>2, <2>1, <2>3, <3>1
    <2>4. CASE scheduleReconnect("error", wanted) /\ Done /\ wanted' = wanted
      <3>1. job'.at = "none" /\ job'.kind = "none"
        BY Zenon, <2>4, DoneFacts
      <3>2. /\ status' \in {"reconnecting", "error"} /\ (status' = "reconnecting" => wanted)
            /\ (timer' <=> timer \/ wanted)
        BY Zenon, <1>1, <2>4, ScheduleFacts
      <3> QED BY Zenon, <1>1, <1>2, <2>1, <2>4, <3>1, <3>2
    <2> QED BY Zenon, <1>12, <2>2, <2>3, <2>4 DEF Validated
  <1>13. CASE StartConnects
    <2>1. /\ job.at = "started" /\ jobs' = jobs /\ wanted' = wanted /\ timer' = timer /\ polling' = TRUE
      BY Zenon, <1>13 DEF StartConnects
    <2>2. job'.at = "none" /\ job'.kind = "none" /\ status' = "connected"
      BY Zenon, <1>1, <1>13, DoneFacts, StatusFacts DEF StartConnects
    <2> QED BY Zenon, <1>1, <1>2, <2>1, <2>2
  <1>14. CASE StartCleansUp
    <2>1. /\ job.at \in {"failed", "refused"} /\ jobs' = jobs
          /\ wanted' = wanted /\ timer' = timer /\ polling' = polling /\ status' = status
      BY Zenon, <1>14 DEF StartCleansUp
    <2>2. job'.at \in {"cleaning", "stepping aside"}
      BY Zenon, <1>1, <1>14, AtFacts DEF StartCleansUp, Places
    <2> QED BY Zenon, <1>1, <1>2, <2>1, <2>2
  <1>15. CASE StartGivesUp
    <2>1. /\ job.at \in {"cleaned", "stepped aside"} /\ jobs' = jobs
          /\ wanted' = wanted /\ polling' = polling
          /\ job'.at = "none" /\ job'.kind = "none"
      BY Zenon, <1>15, DoneFacts DEF StartGivesUp
    <2>2. CASE StatusBecomes("paused") /\ timer' = timer
      <3>1. status' = "paused"
        BY Zenon, <1>1, <2>2, StatusFacts
      <3> QED BY Zenon, <1>1, <1>2, <2>1, <2>2, <3>1
    <2>3. CASE scheduleReconnect("error", wanted)
      <3>1. /\ status' \in {"reconnecting", "error"} /\ (status' = "reconnecting" => wanted)
            /\ (timer' <=> timer \/ wanted)
        BY Zenon, <1>1, <2>3, ScheduleFacts
      <3> QED BY Zenon, <1>1, <1>2, <2>1, <3>1
    <2> QED BY Zenon, <1>15, <2>2, <2>3 DEF StartGivesUp
  \* A stop is through: a restart goes on to start, the other jobs are done.
  <1>16. ASSUME job.at \in StopPlaces, Stopped(job.kind),
                IF job.kind = "restart" THEN At("start") ELSE Done,
                wanted' = wanted, jobs' = jobs, polling' \in BOOLEAN
         PROVE  ControlInv'
    <2>1. job.kind \in {"stop", "restart", "reconsider", "lost"}
      BY Zenon, <1>1, <1>16
    <2>2. /\ status' \in {"idle", "paused", "error", "reconnecting"}
          /\ status' = "reconnecting" => wanted
          /\ job.kind = "reconsider" => status' = "paused"
          /\ job.kind = "lost" /\ wanted => timer'
          /\ timer' => wanted
      BY Zenon, <1>1, <1>16, <2>1, StoppedFacts
    <2>3. CASE job.kind = "restart"
      <3>1. job'.at = "start" /\ job'.kind = "restart"
        BY Zenon, <1>1, <1>16, <2>3, AtFacts DEF Places
      <3> QED BY Zenon, <1>1, <1>2, <1>16, <2>2, <2>3, <3>1
    <2>4. CASE job.kind # "restart"
      <3>1. job'.at = "none" /\ job'.kind = "none"
        BY Zenon, <1>16, <2>4, DoneFacts
      <3> QED BY Zenon, <1>1, <1>2, <1>16, <2>1, <2>2, <2>4, <3>1
    <2> QED BY Zenon, <2>3, <2>4
  <1>17. CASE StopBegins
    <2>1. /\ job.at = "stop" /\ jobs' = jobs /\ wanted' = wanted /\ polling' = FALSE
      BY Zenon, <1>17 DEF StopBegins
    <2>2. CASE status \in ACTIVE /\ At("stopping") /\ UNCHANGED <<status, timer>>
      <3>1. job'.at = "stopping" /\ job'.kind = job.kind
        BY Zenon, <1>1, <2>2, AtFacts DEF Places
      <3> QED BY Zenon, <1>1, <1>2, <2>1, <2>2, <3>1
    <2>3. CASE Stopped(job.kind) /\ (IF job.kind = "restart" THEN At("start") ELSE Done)
      BY Zenon, <1>16, <2>1, <2>3
    <2> QED BY Zenon, <1>17, <2>2, <2>3 DEF StopBegins
  <1>18. CASE StopEnds
    BY Zenon, <1>2, <1>16, <1>18 DEF StopEnds
  <1>19. CASE ServiceStops \/ RequestTimesOut \/ ServiceStarts
    <2>1. /\ jobs' = jobs /\ wanted' = wanted /\ timer' = timer /\ polling' = polling /\ status' = status
      BY Zenon, <1>19 DEF ServiceStops, RequestTimesOut, ServiceStarts
    <2>2. \/ job.at \in StartPlaces /\ job'.at \in StartPlaces /\ job'.kind = job.kind
          \/ job.at = "stopping" /\ job'.at = "stopped" /\ job'.kind = job.kind
      BY Zenon, <1>1, <1>19, AtFacts DEF ServiceStops, RequestTimesOut, ServiceStarts, AfterStop, Places
    <2> QED BY Zenon, <1>1, <1>2, <2>1, <2>2
  <1>20. CASE LateRequest \/ LeaseExpires \/ PollSends \/ PollAnswered \/ PollUnanswered
    BY Zenon, <1>4, <1>20 DEF LateRequest, LeaseExpires, PollSends, PollAnswered, PollUnanswered
  <1>21. CASE PollApplied
    <2>1. wanted' = wanted /\ timer' = timer /\ job' = job
      BY Zenon, <1>21 DEF PollApplied
    <2>2. jobs' = jobs \/ Enqueue("lost")
      BY Zenon, <1>21 DEF PollApplied
    <2>3. (StopIn(jobs)' <=> StopIn(jobs)) /\ (StartIn(jobs) => StartIn(jobs)')
      <3>1. CASE jobs' = jobs
        BY Zenon, <3>1
      <3>2. CASE Enqueue("lost")
        BY Zenon, <1>2, <3>2, EnqueueFacts DEF Enqueue, Kinds
      <3> QED BY Zenon, <2>2, <3>1, <3>2
    <2>4. \/ status' = status /\ polling' = polling
          \/ status \in LIVE /\ status' \in LIVE /\ polling' = polling
          \/ status \in LIVE /\ status' = "paused"
      BY Zenon, <1>21 DEF PollApplied
    <2> QED BY <1>1, <1>2, <2>1, <2>3, <2>4
  <1>22. CASE beforeGameStart \/ GameTakesAll \/ gameChanged \/ GameGivenUp
    BY Zenon, <1>3, <1>22 DEF beforeGameStart, GameTakesAll, gameChanged, GameGivenUp, Kinds
  <1>23. CASE GameStops \/ GameLeaseExpires \/ NodeFails \/ NodeReturns \/ UNCHANGED vpnVars
    BY Zenon, <1>4, <1>23 DEF GameStops, GameLeaseExpires, NodeFails, NodeReturns
  <1> QED BY ZenonT(60), <1>5, <1>6, <1>7, <1>8, <1>9, <1>10, <1>11, <1>12, <1>13, <1>14, <1>15, <1>17, <1>18,
             <1>19, <1>20, <1>21, <1>22, <1>23
          DEF VpnNext, Controller, Service, Polling, Game

LEMMA VpnInvAlways == VpnSpec => []VpnInv
  <1>1. VpnInit => VpnInv
    <2> SUFFICES ASSUME VpnInit PROVE VpnInv
      BY Zenon
    <2>1. VpnTypeOK
      <3>1. jobs \in Seq(Kinds) /\ late \subseteq {"start", "stop"}
        BY DEF VpnInit
      <3>2. /\ job \in [kind : Kinds \cup {"none"}, at : Places]
            /\ poll \in [at : {"none", "out", "up", "down", "error", "pause", "silent"}, current : BOOLEAN]
        BY Zenon DEF VpnInit, NoJob, NoPoll, Places
      <3>3. fails \in 0 .. MAX_ANSWERED_FAILURES /\ silent \in 0 .. SilentPolls
        BY VpnAssumption DEF VpnInit
      <3>4. /\ wanted \in BOOLEAN /\ timer \in BOOLEAN /\ polling \in BOOLEAN
            /\ gameInService \in BOOLEAN /\ nodeUp \in BOOLEAN
        BY Zenon DEF VpnInit
      <3> QED BY Zenon, <3>1, <3>2, <3>3, <3>4 DEF VpnInit, VpnTypeOK
    <2>2. ~StopIn(jobs)
      BY DEF VpnInit, StopIn
    <2>3. ControlInv
      BY Zenon, <2>2 DEF VpnInit, ControlInv, TimerIsWanted, StartIsFollowed, KindsFit, LiveIsPolled,
                  StopIsTakenBack, WantedIsServed, UnwantedEnds, EndsIt, StartPlaces, StopPlaces,
                  ACTIVE, LIVE, NoJob
    <2> QED BY Zenon, <2>1, <2>3 DEF VpnInv
  <1>2. VpnInv /\ [VpnNext]_vpnVars => VpnInv'
    BY Zenon, VpnTypeStep, ControlStep DEF VpnInv
  <1> QED BY <1>1, <1>2, PTL DEF VpnSpec

(* However the user's clicks, the polls, the timers, the game and the requests
   that time out interleave, a controller with nothing left to do is at rest for
   a reason: a VPN that is wanted is live and polled, has a reconnect scheduled
   or is paused, and one that is off has no session and no reconnect (the queue
   of vpn-session.cjs never loses a wish). *)
THEOREM RestIsAlwaysJustified == VpnSpec => []RestIsJustified
  <1>1. VpnInv => RestIsJustified
    <2> SUFFICES ASSUME VpnInv PROVE RestIsJustified
      BY Zenon
    <2>1. VpnTypeOK /\ TimerIsWanted /\ WantedIsServed /\ UnwantedEnds
      BY Zenon DEF VpnInv, ControlInv
    <2>2. Quiet => ~StartIn(jobs) /\ ~StopIn(jobs) /\ job.at = "none"
      BY DEF Quiet, StartIn, StopIn, NoJob
    <2> QED BY Zenon, <2>1, <2>2 DEF RestIsJustified, TimerIsWanted, WantedIsServed, UnwantedEnds,
                              StartPlaces, StopPlaces
  <1> QED BY <1>1, VpnInvAlways, PTL

(* Only a start brings a session to life: an answer to the poll, a timer or a
   request that fails late never makes one live that was stopped or replaced. *)
THEOREM OnlyStartsConnect == VpnSpec => OnlyAStartConnects
  <1> DEFINE Rule == status' \in LIVE /\ status \notin LIVE => StartConnects
  <1>1. VpnInv /\ [VpnNext]_vpnVars => [Rule]_vpnVars
    <2> SUFFICES ASSUME VpnInv, [VpnNext]_vpnVars, status' \in LIVE, status \notin LIVE
                 PROVE  StartConnects
      BY Zenon
    <2> USE DEF vpnVars, client, service, world, bounds
    <2>1. VpnTypeOK /\ TimerIsWanted /\ KindsFit
      BY Zenon DEF VpnInv, ControlInv
    <2>2. status' \in {"connected", "degraded"} /\ status' # status
      BY Zenon DEF LIVE
    <2>3. ~StartBegins
      BY <2>1, <2>2, StatusFacts DEF StartBegins
    <2>4. ~Validated
      BY <2>1, <2>2, StatusFacts, ScheduleFacts DEF Validated
    <2>5. ~StartGivesUp
      <3>1. StartGivesUp => StatusBecomes("paused") \/ scheduleReconnect("error", wanted)
        BY Zenon DEF StartGivesUp
      <3>2. StatusBecomes("paused") => status' = "paused"
        BY Zenon, <2>1, StatusFacts
      <3>3. scheduleReconnect("error", wanted) => status' \in {"reconnecting", "error"}
        BY Zenon, <2>1, ScheduleFacts
      <3> QED BY Zenon, <2>2, <3>1, <3>2, <3>3
    <2>6. ~StopBegins
      BY Zenon, <2>1, <2>2, StoppedFacts DEF StopBegins, KindsFit, StopPlaces
    <2>7. ~StopEnds
      BY Zenon, <2>1, <2>2, StoppedFacts DEF StopEnds, KindsFit, StopPlaces
    <2>8. ~PollApplied
      BY Zenon, <2>2 DEF PollApplied, LIVE
    <2>9. ~connect /\ ~disconnect /\ ~restart /\ ~onResume /\ ~ReconnectTimer
      BY Zenon, <2>2 DEF connect, disconnect, restart, onResume, ReconnectTimer
    <2>10. ~JobTaken /\ ~reconsider /\ ~StartCleansUp /\ ~Service /\ ~RequestTimesOut /\ ~LateRequest
      BY Zenon, <2>2 DEF JobTaken, reconsider, StartCleansUp, Service, ServiceStops, ServiceStarts,
                  RequestTimesOut, LateRequest
    <2>11. ~LeaseExpires /\ ~PollSends /\ ~PollAnswered /\ ~PollUnanswered /\ ~beforeGameStart
      BY Zenon, <2>2 DEF LeaseExpires, PollSends, PollAnswered, PollUnanswered, beforeGameStart
    <2>12. ~Game /\ ~GameGivenUp /\ ~GameLeaseExpires /\ ~NodeFails /\ ~NodeReturns
      BY Zenon, <2>2 DEF Game, GameTakesAll, GameStops, gameChanged, GameGivenUp, GameLeaseExpires,
                  NodeFails, NodeReturns
    <2>13. ~UNCHANGED vpnVars
      BY Zenon, <2>2
    <2> QED BY Zenon, <2>3, <2>4, <2>5, <2>6, <2>7, <2>8, <2>9, <2>10, <2>11, <2>12, <2>13
            DEF VpnNext, Controller, Polling
  <1>2. VpnSpec => [][VpnNext]_vpnVars
    BY Zenon DEF VpnSpec
  <1> QED BY <1>1, <1>2, VpnInvAlways, PTL DEF OnlyAStartConnects
=============================================================================
