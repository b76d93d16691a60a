----------------------------- MODULE RelayProofs -----------------------------
(***************************************************************************)
(* What the relay knows of its clients, for any number of sessions, paths  *)
(* and addresses.                                                          *)
(*                                                                         *)
(* Sessions, for any limit and any bursts.  Reply sequences only grow: the *)
(* inductive invariant is ClockLeads, that no sequence has caught up with  *)
(* the clock and a held session's counter is past everything sealed for    *)
(* its id.  Replies go to the session last heard from and only quiet       *)
(* sessions are dropped: HeldInv adds that no two held sessions were seen  *)
(* at the same time, so that there is one least recently seen, and         *)
(* evicting it makes room for exactly one.                                 *)
(*                                                                         *)
(* The addresses of a session.  Replies follow the client: ReturnInv says  *)
(* that recency is a total order, so that a full table has an oldest entry *)
(* to drop and a newest to fall back on, and that every entry is what the  *)
(* newest announcement of its path said.                                   *)
(*                                                                         *)
(* The records of the clients.  While every command takes the lock, no     *)
(* address is given twice: RegistryInv says that one command at a time is  *)
(* under way, and that an address ever given is in a record or reserved.   *)
(***************************************************************************)
EXTENDS RelaySessions, ReturnPaths, RelayRegistry, FiniteSetTheorems, WellFoundedInduction, TLAPS

Inv == SessionsTypeOK /\ ClockLeads

(* A map that some sessions were removed from is a part of the old one. *)
LEMMA WithoutIsPart ==
    ASSUME NEW f, NEW S
    PROVE  /\ DOMAIN Without(f, S) \subseteq DOMAIN f
           /\ \A i \in DOMAIN Without(f, S) : Without(f, S)[i] = f[i]
  BY Zenon DEF Without

(* Admission keeps the counters of the sessions it keeps, and starts a new
   one at the clock. *)
LEMMA AdmitFacts ==
    ASSUME Inv, NEW id \in AllIds
    PROVE  LET f == admit_session(id) IN
           /\ DOMAIN f \subseteq AllIds /\ id \in DOMAIN f
           /\ f \in [DOMAIN f -> [sequence : Nat, last_seen : Nat]]
           /\ \A i \in DOMAIN f : /\ sealed[i] <= f[i].sequence /\ f[i].sequence <= clock
                                  /\ f[i].last_seen <= clock
  <1> DEFINE live == Without(sessions, Expired(sessions))
             room == IF id \in DOMAIN live THEN live ELSE Without(live, Evicted(live))
  <1>1. DOMAIN room \subseteq Held /\ \A i \in DOMAIN room : room[i] = sessions[i]
    <2>1. DOMAIN live \subseteq Held /\ \A i \in DOMAIN live : live[i] = sessions[i]
      BY Zenon, WithoutIsPart DEF Held
    <2>2. DOMAIN Without(live, Evicted(live)) \subseteq DOMAIN live
          /\ \A i \in DOMAIN Without(live, Evicted(live)) : Without(live, Evicted(live))[i] = live[i]
      BY Zenon, WithoutIsPart
    <2> HIDE DEF live
    <2> QED BY Zenon, <2>1, <2>2
  <1>2. \A i \in Held : /\ sessions[i] \in [sequence : Nat, last_seen : Nat]
                        /\ sealed[i] <= sessions[i].sequence
                        /\ sessions[i].sequence < clock /\ sessions[i].last_seen < clock
    BY Zenon DEF Inv, SessionsTypeOK, ClockLeads
  <1>3. clock \in Nat /\ sealed \in [AllIds -> Nat] /\ Held \subseteq AllIds
        /\ \A i \in AllIds : sealed[i] < clock
    BY Zenon DEF Inv, SessionsTypeOK, ClockLeads
  <1>4. admit_session(id) = [i \in DOMAIN room \cup {id} |->
            [sequence |-> IF i \in DOMAIN room THEN room[i].sequence ELSE clock,
             last_seen |-> IF i = id THEN clock ELSE room[i].last_seen]]
    BY Zenon DEF admit_session, fresh_outbound_sequence
  <1> HIDE DEF room
  <1> DEFINE f == admit_session(id)
  <1>5. DOMAIN f = DOMAIN room \cup {id}
    BY Zenon, <1>4
  <1>6. ASSUME NEW i \in DOMAIN f
        PROVE  /\ f[i] \in [sequence : Nat, last_seen : Nat]
               /\ sealed[i] <= f[i].sequence /\ f[i].sequence <= clock
               /\ f[i].last_seen <= clock
    <2>1. f[i] = [sequence |-> IF i \in DOMAIN room THEN room[i].sequence ELSE clock,
                  last_seen |-> IF i = id THEN clock ELSE room[i].last_seen]
      BY Zenon, <1>4, <1>5
    <2>2. CASE i \in DOMAIN room
      <3>1. i \in Held /\ room[i] = sessions[i] BY Zenon, <2>2, <1>1
      <3>2. sessions[i].sequence \in Nat /\ sessions[i].last_seen \in Nat
            /\ sealed[i] \in Nat
        BY Zenon, <3>1, <1>2, <1>3
      <3> QED BY <2>1, <2>2, <3>1, <3>2, <1>2, <1>3
    <2>3. CASE i \notin DOMAIN room
      <3>1. i = id BY Zenon, <2>3, <1>5
      <3>2. f[i] = [sequence |-> clock, last_seen |-> clock] BY Zenon, <3>1, <2>1, <2>3
      <3>3. sealed[i] < clock /\ sealed[i] \in Nat BY Zenon, <3>1, <1>3
      <3> QED BY <3>2, <3>3, <1>3
    <2> QED BY Zenon, <2>2, <2>3
  <1>7. DOMAIN f \subseteq AllIds /\ id \in DOMAIN f
    BY Zenon, <1>5, <1>1, <1>3
  <1>8. f = [i \in DOMAIN f |-> f[i]]
    BY Zenon, <1>4, <1>5
  <1> HIDE DEF f
  <1>9. f \in [DOMAIN f -> [sequence : Nat, last_seen : Nat]]
    BY Zenon, <1>6, <1>8
  <1> QED BY Zenon, <1>6, <1>7, <1>9 DEF f

(* Sealing n frames of a session of such a map moves its counter and what is
   sealed for it on together, and leaves every other session alone. *)
LEMMA SealFacts ==
    ASSUME Inv, NEW f, NEW id \in DOMAIN f, NEW n \in Nat,
           DOMAIN f \subseteq AllIds,
           f \in [DOMAIN f -> [sequence : Nat, last_seen : Nat]],
           \A i \in DOMAIN f : /\ sealed[i] <= f[i].sequence /\ f[i].sequence <= clock
                               /\ f[i].last_seen <= clock,
           Seal(f, id, n), Elapses(n), heard' \in AllIds \cup {Nobody}
    PROVE  /\ Inv'
           /\ \A i \in AllIds : sealed'[i] # sealed[i] => sealed'[i] > sealed[i]
  <1>1. /\ clock \in Nat /\ sealed \in [AllIds -> Nat]
        /\ \A i \in AllIds : sealed[i] < clock
    BY Zenon DEF Inv, SessionsTypeOK, ClockLeads
  <1>2. clock' = clock + n + 1 /\ clock' \in Nat
    BY <1>1 DEF Elapses
  <1>3. f[id].sequence \in Nat /\ f[id].last_seen \in Nat /\ id \in AllIds
    BY Zenon
  <1>4. sessions' = [f EXCEPT ![id].sequence = @ + n]
    BY Zenon DEF Seal
  <1>5. DOMAIN sessions' = DOMAIN f
    BY Zenon, <1>4
  <1>6. sessions'[id] = [sequence |-> f[id].sequence + n, last_seen |-> f[id].last_seen]
    BY Zenon, <1>4
  <1>7. \A i \in DOMAIN f : i # id => sessions'[i] = f[i]
    BY Zenon, <1>4
  <1>8. sessions' \in [DOMAIN sessions' -> [sequence : Nat, last_seen : Nat]]
    <2>1. \A i \in DOMAIN f : sessions'[i] \in [sequence : Nat, last_seen : Nat]
      BY <1>3, <1>6, <1>7
    <2>2. sessions' = [i \in DOMAIN f |-> sessions'[i]]
      BY Zenon, <1>4
    <2> QED BY Zenon, <2>1, <2>2, <1>5
  <1>9. sealed' \in [AllIds -> Nat]
    BY <1>1, <1>3 DEF Seal
  <1>10. \A i \in AllIds : i # id => sealed'[i] = sealed[i]
    BY Zenon, <1>1, <1>3 DEF Seal
  <1>11. /\ n = 0 => sealed'[id] = sealed[id]
         /\ n # 0 => sealed'[id] = f[id].sequence + n
    BY Zenon, <1>1, <1>3 DEF Seal
  <1>12. sealed[id] \in Nat /\ sealed[id] <= f[id].sequence /\ f[id].sequence <= clock
         /\ f[id].last_seen <= clock /\ sealed[id] < clock
    BY Zenon, <1>1, <1>3
  <1>13. SessionsTypeOK'
    BY Zenon, <1>2, <1>5, <1>8, <1>9 DEF SessionsTypeOK, Held
  <1>14. \A i \in AllIds : sealed'[i] < clock'
    <2> SUFFICES ASSUME NEW i \in AllIds PROVE sealed'[i] < clock'
      BY Zenon
    <2>1. CASE i # id
      <3>1. sealed[i] \in Nat /\ sealed[i] < clock BY Zenon, <1>1
      <3> QED BY <2>1, <3>1, <1>1, <1>2, <1>10
    <2>2. CASE i = id
      BY <2>2, <1>1, <1>2, <1>3, <1>11, <1>12
    <2> QED BY Zenon, <2>1, <2>2
  <1>15. \A i \in DOMAIN sessions' :
            /\ sealed'[i] <= sessions'[i].sequence /\ sessions'[i].sequence < clock'
            /\ sessions'[i].last_seen < clock'
    <2> SUFFICES ASSUME NEW i \in DOMAIN f
                 PROVE  /\ sealed'[i] <= sessions'[i].sequence /\ sessions'[i].sequence < clock'
                        /\ sessions'[i].last_seen < clock'
      BY Zenon, <1>5
    <2>1. CASE i # id
      <3>1. f[i].sequence \in Nat /\ f[i].last_seen \in Nat /\ i \in AllIds
        BY Zenon
      <3>2. sessions'[i] = f[i] /\ sealed'[i] = sealed[i] BY Zenon, <2>1, <3>1, <1>7, <1>10
      <3> QED BY <3>1, <3>2, <1>1, <1>2
    <2>2. CASE i = id
      <3>1. sessions'[i].sequence = f[id].sequence + n /\ sessions'[i].last_seen = f[id].last_seen
        BY <2>2, <1>6
      <3> QED BY <2>2, <3>1, <1>1, <1>2, <1>3, <1>11, <1>12
    <2> QED BY Zenon, <2>1, <2>2
  <1>16. \A i \in AllIds : sealed'[i] # sealed[i] => sealed'[i] > sealed[i]
    BY <1>3, <1>10, <1>11, <1>12
  <1> QED BY Zenon, <1>13, <1>14, <1>15, <1>16 DEF Inv, ClockLeads, Held

(* A held session's map is already such a map. *)
LEMMA HeldFacts ==
    ASSUME Inv
    PROVE  /\ Held \subseteq AllIds
           /\ sessions \in [Held -> [sequence : Nat, last_seen : Nat]]
           /\ \A i \in Held : /\ sealed[i] <= sessions[i].sequence /\ sessions[i].sequence <= clock
                              /\ sessions[i].last_seen <= clock
  <1>1. /\ Held \subseteq AllIds /\ clock \in Nat
        /\ sessions \in [Held -> [sequence : Nat, last_seen : Nat]]
    BY Zenon DEF Inv, SessionsTypeOK
  <1>2. \A i \in Held : /\ sealed[i] <= sessions[i].sequence /\ sessions[i].sequence < clock
                        /\ sessions[i].last_seen < clock
    BY Zenon DEF Inv, ClockLeads
  <1>3. \A i \in Held : sessions[i].sequence \in Nat /\ sessions[i].last_seen \in Nat
    BY Zenon, <1>1
  <1> QED BY <1>1, <1>2, <1>3

(* The relay starts with no sessions and nothing sealed. *)
LEMMA InitInv == SessionsInit => Inv
  BY DEF SessionsInit, Inv, SessionsTypeOK, ClockLeads, Held

(* Every step keeps the invariant and seals no sequence at or below an earlier
   one of the same session. *)
LEMMA StepGrows ==
    ASSUME Inv, [SessionsNext]_sessionsVars
    PROVE  /\ Inv'
           /\ \A i \in AllIds : sealed'[i] # sealed[i] => sealed'[i] > sealed[i]
  <1>1. /\ clock \in Nat /\ sealed \in [AllIds -> Nat] /\ Held \subseteq AllIds
        /\ sessions \in [Held -> [sequence : Nat, last_seen : Nat]]
        /\ heard \in AllIds \cup {Nobody}
    BY Zenon DEF Inv, SessionsTypeOK
  <1>2. /\ \A i \in AllIds : sealed[i] < clock /\ sealed[i] \in Nat
        /\ \A i \in Held : /\ sealed[i] <= sessions[i].sequence /\ sessions[i].sequence < clock
                           /\ sessions[i].last_seen < clock
    BY Zenon, <1>1 DEF Inv, ClockLeads
  <1>b. MaxBurst \in Nat \ {0}
    BY Zenon, Constants
  <1>3. ASSUME NEW id \in AllIds, stateless_probe_reply(id)
        PROVE  /\ Inv'
               /\ \A i \in AllIds : sealed'[i] # sealed[i] => sealed'[i] > sealed[i]
    <2>1. /\ sealed' = [sealed EXCEPT ![id] = clock] /\ id \notin Held
          /\ sessions' = sessions /\ heard' = heard
      BY Zenon, <1>3 DEF stateless_probe_reply, fresh_outbound_sequence
    <2>2. clock' = clock + 1 + 1 /\ clock' \in Nat
      BY <1>1, <1>3 DEF stateless_probe_reply, Elapses
    <2>3. /\ sealed' \in [AllIds -> Nat] /\ sealed'[id] = clock
          /\ \A i \in AllIds : i # id => sealed'[i] = sealed[i]
      BY Zenon, <1>1, <2>1
    <2>4. SessionsTypeOK'
      BY Zenon, <1>1, <2>1, <2>2, <2>3 DEF SessionsTypeOK, Held
    <2>5. \A i \in AllIds : sealed'[i] < clock'
      BY <1>1, <1>2, <2>2, <2>3
    <2>6. \A i \in Held : sealed'[i] = sealed[i]
      BY Zenon, <1>1, <2>1, <2>3
    <2>7. \A i \in Held : sessions[i].sequence \in Nat /\ sessions[i].last_seen \in Nat
      BY Zenon, <1>1
    <2>8. \A i \in Held : sessions[i].sequence < clock' /\ sessions[i].last_seen < clock'
      BY <1>1, <1>2, <2>2, <2>7
    <2>9. ClockLeads'
      BY Zenon, <1>2, <2>1, <2>5, <2>6, <2>8 DEF ClockLeads, Held
    <2>10. \A i \in AllIds : sealed'[i] # sealed[i] => sealed'[i] > sealed[i]
      BY Zenon, <1>2, <1>1, <2>3
    <2> QED BY Zenon, <2>4, <2>9, <2>10 DEF Inv
  <1>4. ASSUME NEW id \in Ids, Frame(id)
        PROVE  /\ Inv'
               /\ \A i \in AllIds : sealed'[i] # sealed[i] => sealed'[i] > sealed[i]
    <2>1. PICK n \in 0 .. MaxBurst : Seal(admit_session(id), id, n) /\ Elapses(n)
      BY Zenon, <1>4 DEF Frame
    <2>2. n \in Nat /\ id \in AllIds /\ heard' \in AllIds \cup {Nobody}
      BY <1>4, <1>b DEF Frame, AllIds
    <2> DEFINE f == admit_session(id)
    <2>3. /\ DOMAIN f \subseteq AllIds /\ id \in DOMAIN f
          /\ f \in [DOMAIN f -> [sequence : Nat, last_seen : Nat]]
          /\ \A i \in DOMAIN f : /\ sealed[i] <= f[i].sequence /\ f[i].sequence <= clock
                                 /\ f[i].last_seen <= clock
      BY Zenon, <2>2, AdmitFacts
    <2>4. Seal(f, id, n) /\ Elapses(n)
      BY Zenon, <2>1
    <2> HIDE DEF f
    <2> QED BY Zenon, <2>2, <2>3, <2>4, SealFacts
  <1>5. ASSUME NEW id \in Held, NEW n \in Nat, Seal(sessions, id, n), Elapses(n), UNCHANGED heard
        PROVE  /\ Inv'
               /\ \A i \in AllIds : sealed'[i] # sealed[i] => sealed'[i] > sealed[i]
    <2>1. heard' \in AllIds \cup {Nobody}
      BY Zenon, <1>1, <1>5
    <2> QED BY Zenon, <1>5, <2>1, HeldFacts, SealFacts DEF Held
  <1>6. CASE forward_reply
    <2>1. PICK id \in newest, n \in 1 .. MaxBurst : Seal(sessions, id, n) /\ Elapses(n)
      BY Zenon, <1>6 DEF forward_reply
    <2>2. n \in Nat /\ id \in Held /\ UNCHANGED heard
      BY <1>6, <1>b DEF forward_reply, newest
    <2> QED BY Zenon, <1>5, <2>1, <2>2
  <1>7. CASE flush_repairs
    <2>1. PICK id \in Held : Seal(sessions, id, 1)
      BY Zenon, <1>7 DEF flush_repairs
    <2>2. Elapses(1) /\ UNCHANGED heard
      BY Zenon, <1>7 DEF flush_repairs
    <2> QED BY Zenon, <1>5, <2>1, <2>2
  <1>8. ASSUME Restart \/ Tick
        PROVE  /\ Inv'
               /\ \A i \in AllIds : sealed'[i] # sealed[i] => sealed'[i] > sealed[i]
    <2>1. sealed' = sealed /\ heard' \in AllIds \cup {Nobody}
      BY Zenon, <1>1, <1>8 DEF Restart, Tick
    <2>2. clock' = clock + 0 + 1 /\ clock' \in Nat
      BY <1>1, <1>8 DEF Restart, Tick, Elapses
    <2>3. \A i \in Held : sessions[i].sequence \in Nat /\ sessions[i].last_seen \in Nat
      BY Zenon, <1>1
    <2>4. CASE Restart
      <3>1. sessions' = [i \in {} |-> 0] /\ DOMAIN sessions' = {}
        BY Zenon, <2>4 DEF Restart
      <3>2. SessionsTypeOK'
        BY Zenon, <1>1, <2>1, <2>2, <3>1 DEF SessionsTypeOK, Held
      <3>3. ClockLeads'
        BY <1>1, <1>2, <2>1, <2>2, <3>1 DEF ClockLeads, Held
      <3> QED BY Zenon, <2>1, <3>2, <3>3 DEF Inv
    <2>5. CASE Tick
      <3>1. sessions' = sessions
        BY Zenon, <2>5 DEF Tick
      <3>2. SessionsTypeOK'
        BY Zenon, <1>1, <2>1, <2>2, <3>1 DEF SessionsTypeOK, Held
      <3>3. ClockLeads'
        BY <1>1, <1>2, <2>1, <2>2, <2>3, <3>1 DEF ClockLeads, Held
      <3> QED BY Zenon, <2>1, <3>2, <3>3 DEF Inv
    <2> QED BY Zenon, <1>8, <2>4, <2>5
  <1>9. CASE UNCHANGED sessionsVars
    BY Zenon, <1>9 DEF sessionsVars, Inv, SessionsTypeOK, ClockLeads, Held
  <1> QED BY Zenon, <1>3, <1>4, <1>6, <1>7, <1>8, <1>9 DEF SessionsNext

(* Whatever sessions the relay expires, evicts, loses or answers without
   holding, the clock stays ahead of every reply sequence it used. *)
THEOREM ClockAlwaysLeads == SessionsSpec => []Inv
  <1>1. Inv /\ [SessionsNext]_sessionsVars => Inv'
    BY Zenon, StepGrows
  <1> QED BY <1>1, InitInv, PTL DEF SessionsSpec

(* No reply repeats, or falls behind, the sequence of an earlier reply of the
   same session id: fresh_outbound_sequence's promise. *)
THEOREM RepliesNeverGoBack == SessionsSpec => SequencesOnlyGrow
  <1>1. Inv /\ [SessionsNext]_sessionsVars =>
           [\A i \in AllIds : sealed'[i] # sealed[i] => sealed'[i] > sealed[i]]_sessionsVars
    BY Zenon, StepGrows
  <1> QED BY <1>1, ClockAlwaysLeads, PTL DEF SessionsSpec, SequencesOnlyGrow

-----------------------------------------------------------------------------
(* Who is held and for how long: no two held sessions were seen at the same
   time, so the least recently seen one is unique, evicting it makes room for
   one, and the session last heard from is the newest. *)
Seen(f) == \A i, j \in DOMAIN f : f[i].last_seen = f[j].last_seen => i = j
Within(f) == IsFiniteSet(DOMAIN f) /\ Cardinality(DOMAIN f) <= MAX_SESSIONS
SpeakerLeads ==
    heard \in Held => \A j \in Held : sessions[j].last_seen <= sessions[heard].last_seen
HeldInv == Inv /\ Held \subseteq Ids /\ Seen(sessions) /\ Within(sessions) /\ SpeakerLeads

(* A nonempty set of naturals has a least element. *)
LEMMA LeastNat ==
    ASSUME NEW S \in SUBSET Nat, S # {}
    PROVE  \E m \in S : \A n \in S : m <= n
  <1> DEFINE R == OpToRel(<, Nat)
  <1>1. IsWellFoundedOn(R, Nat)
    BY Zenon, NatLessThanWellFounded
  <1>2. \A x, y \in Nat : x < y => <<x, y>> \in R
    BY Zenon DEF OpToRel
  <1> HIDE DEF R
  <1>3. PICK x \in S : \A y \in S : ~ (<<y, x>> \in R)
    BY Zenon, <1>1, WFMin
  <1>4. \A y \in S : ~ (y < x)
    BY Zenon, <1>2, <1>3
  <1>5. \A y \in S : x <= y
    BY <1>4
  <1> QED BY Zenon, <1>5

(* From a map within the limit at most one session is evicted, the one seen
   least recently, and one is evicted when the map is full. *)
LEMMA EvictedFacts ==
    ASSUME NEW f, Within(f), Seen(f), \A i \in DOMAIN f : f[i].last_seen \in Nat
    PROVE  /\ Evicted(f) \subseteq DOMAIN f
           /\ \A i \in Evicted(f) : /\ Cardinality(DOMAIN f) = MAX_SESSIONS
                                    /\ \A j \in DOMAIN f : f[i].last_seen <= f[j].last_seen
           /\ \A i, j \in Evicted(f) : i = j
           /\ Cardinality(DOMAIN f) = MAX_SESSIONS => Evicted(f) # {}
  <1> DEFINE D == DOMAIN f
             Less(i) == {j \in D : f[j].last_seen < f[i].last_seen}
  <1>1. MAX_SESSIONS \in Nat \ {0}
    BY Zenon, Constants
  <1>2. IsFiniteSet(D) /\ Cardinality(D) \in Nat /\ Cardinality(D) <= MAX_SESSIONS
    BY Zenon, FS_CardinalityType DEF Within
  <1>3. Evicted(f) = {i \in D : Cardinality(Less(i)) + MAX_SESSIONS < Cardinality(D) + 1}
    BY Zenon DEF Evicted
  <1>4. \A i \in D : IsFiniteSet(Less(i)) /\ Cardinality(Less(i)) \in Nat
    <2>1. \A i \in D : Less(i) \subseteq D
      BY Zenon
    <2> HIDE DEF Less, D
    <2> QED BY Zenon, <1>2, <2>1, FS_Subset, FS_CardinalityType
  <1>5. \A i \in D : i \in Evicted(f) <=> Less(i) = {} /\ Cardinality(D) = MAX_SESSIONS
    <2> SUFFICES ASSUME NEW i \in D
                 PROVE  i \in Evicted(f) <=> Less(i) = {} /\ Cardinality(D) = MAX_SESSIONS
      BY Zenon
    <2>1. i \in Evicted(f) <=> Cardinality(Less(i)) + MAX_SESSIONS < Cardinality(D) + 1
      BY Zenon, <1>3
    <2>2. Cardinality(Less(i)) = 0 <=> Less(i) = {}
      BY Zenon, <1>4, FS_EmptySet
    <2>3. Cardinality(Less(i)) \in Nat
      BY Zenon, <1>4
    <2> HIDE DEF Less, D
    <2> QED BY <1>1, <1>2, <2>1, <2>2, <2>3
  <1>6. \A i \in D : Less(i) = {} <=> \A j \in D : f[i].last_seen <= f[j].last_seen
    <2> SUFFICES ASSUME NEW i \in D
                 PROVE  Less(i) = {} <=> \A j \in D : f[i].last_seen <= f[j].last_seen
      BY Zenon
    <2>1. \A j \in D : j \in Less(i) <=> ~(f[i].last_seen <= f[j].last_seen)
      OBVIOUS
    <2>2. Less(i) \subseteq D
      BY Zenon
    <2> HIDE DEF Less
    <2> QED BY Zenon, <2>1, <2>2
  <1>7. Cardinality(D) = MAX_SESSIONS => Evicted(f) # {}
    <2> SUFFICES ASSUME Cardinality(D) = MAX_SESSIONS PROVE Evicted(f) # {}
      BY Zenon
    <2>1. D # {}
      BY Zenon, <1>1, <1>2, FS_EmptySet
    <2> DEFINE T == {f[i].last_seen : i \in D}
    <2>2. T \in SUBSET Nat /\ T # {}
      BY Zenon, <2>1
    <2>3. PICK m \in T : \A n \in T : m <= n
      <3> HIDE DEF T
      <3> QED BY Zenon, <2>2, LeastNat
    <2>4. PICK i \in D : m = f[i].last_seen
      BY Zenon
    <2>5. \A j \in D : f[i].last_seen <= f[j].last_seen
      BY Zenon, <2>3, <2>4
    <2> HIDE DEF Less, T
    <2> QED BY Zenon, <1>5, <1>6, <2>5
  <1>8. Evicted(f) \subseteq D
    BY Zenon, <1>3
  <1>9. \A i, j \in Evicted(f) : i = j
    <2> HIDE DEF Less
    <2> SUFFICES ASSUME NEW i \in Evicted(f), NEW j \in Evicted(f) PROVE i = j
      BY Zenon
    <2>1. i \in D /\ j \in D
      BY Zenon, <1>8
    <2>2. f[i].last_seen <= f[j].last_seen /\ f[j].last_seen <= f[i].last_seen
      BY Zenon, <2>1, <1>5, <1>6
    <2>3. f[i].last_seen = f[j].last_seen
      BY <2>1, <2>2
    <2> QED BY Zenon, <2>1, <2>3 DEF Seen
  <1> HIDE DEF Less
  <1> QED BY Zenon, <1>5, <1>6, <1>7, <1>8, <1>9

(* Admission keeps within the limit, marks the session as the one seen last,
   and drops another only if it expired or MAX_SESSIONS were seen after it. *)
LEMMA AdmitRoom ==
    ASSUME HeldInv, NEW id \in Ids
    PROVE  LET f == admit_session(id) IN
           /\ DOMAIN f \subseteq Held \cup {id} /\ id \in DOMAIN f
           /\ \A i \in DOMAIN f : f[i].last_seen = IF i = id THEN clock ELSE sessions[i].last_seen
           /\ Within(f)
           /\ \A i \in Held \ DOMAIN f :
                 \/ clock - sessions[i].last_seen > SESSION_TTL
                 \/ Cardinality({j \in DOMAIN f : f[j].last_seen > sessions[i].last_seen})
                        >= MAX_SESSIONS
  <1> DEFINE live == Without(sessions, Expired(sessions))
             room == IF id \in DOMAIN live THEN live ELSE Without(live, Evicted(live))
             f == admit_session(id)
  <1>1. /\ DOMAIN live \subseteq Held /\ \A i \in DOMAIN live : live[i] = sessions[i]
        /\ \A i \in Held \ DOMAIN live : clock - sessions[i].last_seen > SESSION_TTL
    BY Zenon DEF Without, Expired, Held
  <1>2. \A i \in Held : sessions[i].last_seen \in Nat /\ sessions[i].last_seen < clock
    BY Zenon DEF HeldInv, Inv, SessionsTypeOK, ClockLeads
  <1>c. clock \in Nat
    BY Zenon DEF HeldInv, Inv, SessionsTypeOK
  <1>3. MAX_SESSIONS \in Nat \ {0}
    BY Zenon, Constants
  <1>4. Within(live)
    <2>1. IsFiniteSet(Held) /\ Cardinality(Held) <= MAX_SESSIONS
      BY Zenon DEF HeldInv, Within, Held
    <2> HIDE DEF live
    <2>2. /\ IsFiniteSet(DOMAIN live) /\ Cardinality(DOMAIN live) <= Cardinality(Held)
          /\ Cardinality(DOMAIN live) \in Nat /\ Cardinality(Held) \in Nat
      BY Zenon, <1>1, <2>1, FS_Subset, FS_CardinalityType
    <2> QED BY <1>3, <2>1, <2>2 DEF Within
  <1>5. Seen(live)
    <2> HIDE DEF live
    <2> QED BY Zenon, <1>1 DEF HeldInv, Seen, Held
  <1>6. \A i \in DOMAIN live : live[i].last_seen \in Nat
    <2> HIDE DEF live
    <2> QED BY Zenon, <1>1, <1>2
  <1>7. f = [i \in DOMAIN room \cup {id} |->
            [sequence |-> IF i \in DOMAIN room THEN room[i].sequence ELSE clock,
             last_seen |-> IF i = id THEN clock ELSE room[i].last_seen]]
    BY Zenon DEF admit_session, fresh_outbound_sequence
  <1>8. room = IF id \in DOMAIN live THEN live ELSE Without(live, Evicted(live))
    BY Zenon
  <1> HIDE DEF live, room, f
  <1>9. /\ DOMAIN room \subseteq DOMAIN live /\ \A i \in DOMAIN room : room[i] = live[i]
        /\ id \in DOMAIN live => room = live
        /\ id \notin DOMAIN live => DOMAIN room = DOMAIN live \ Evicted(live)
    BY Zenon, <1>8 DEF Without
  <1>10. DOMAIN f = DOMAIN room \cup {id}
    BY Zenon, <1>7
  <1>11. \A i \in DOMAIN f : f[i].last_seen = IF i = id THEN clock ELSE sessions[i].last_seen
    BY Zenon, <1>1, <1>7, <1>9, <1>10
  <1>12. Within(f) /\ (Evicted(live) # {} /\ id \notin DOMAIN live => Cardinality(DOMAIN f) = MAX_SESSIONS)
    <2>1. IsFiniteSet(DOMAIN live) /\ Cardinality(DOMAIN live) \in Nat
          /\ Cardinality(DOMAIN live) <= MAX_SESSIONS
      BY Zenon, <1>4, FS_CardinalityType DEF Within
    <2>2. CASE id \in DOMAIN live
      <3>1. DOMAIN f = DOMAIN live
        BY Zenon, <2>2, <1>9, <1>10
      <3> QED BY Zenon, <2>1, <2>2, <3>1 DEF Within
    <2>3. CASE id \notin DOMAIN live /\ Evicted(live) = {}
      <3>1. DOMAIN f = DOMAIN live \cup {id}
        BY Zenon, <2>3, <1>9, <1>10
      <3>2. Cardinality(DOMAIN live) # MAX_SESSIONS
        BY Zenon, <2>3, <1>4, <1>5, <1>6, EvictedFacts
      <3>3. IsFiniteSet(DOMAIN f) /\ Cardinality(DOMAIN f) = Cardinality(DOMAIN live) + 1
        BY <2>1, <2>3, <3>1, FS_AddElement
      <3> QED BY <1>3, <2>1, <2>3, <3>2, <3>3 DEF Within
    <2>4. CASE id \notin DOMAIN live /\ Evicted(live) # {}
      <3>1. PICK e : e \in Evicted(live)
        BY Zenon, <2>4
      <3>2. Evicted(live) = {e} /\ e \in DOMAIN live /\ Cardinality(DOMAIN live) = MAX_SESSIONS
        BY <3>1, <1>4, <1>5, <1>6, EvictedFacts
      <3>3. DOMAIN room = DOMAIN live \ {e}
        BY Zenon, <2>4, <3>2, <1>9
      <3>4. IsFiniteSet(DOMAIN room) /\ Cardinality(DOMAIN room) = MAX_SESSIONS - 1
        BY <2>1, <3>2, <3>3, FS_RemoveElement
      <3>5. id \notin DOMAIN room
        BY Zenon, <2>4, <3>3
      <3>6. IsFiniteSet(DOMAIN f) /\ Cardinality(DOMAIN f) = Cardinality(DOMAIN room) + 1
        BY Zenon, <3>4, <3>5, <1>10, FS_AddElement
      <3> QED BY <1>3, <3>4, <3>6 DEF Within
    <2> QED BY Zenon, <2>2, <2>3, <2>4
  <1>13. ASSUME NEW i \in Held, i \notin DOMAIN f,
                ~(clock - sessions[i].last_seen > SESSION_TTL)
         PROVE  Cardinality({j \in DOMAIN f : f[j].last_seen > sessions[i].last_seen})
                    >= MAX_SESSIONS
    <2>1. i \in DOMAIN live /\ i # id /\ i \notin DOMAIN room
      BY Zenon, <1>1, <1>10, <1>13
    <2>2. id \notin DOMAIN live /\ i \in Evicted(live)
      BY Zenon, <2>1, <1>9
    <2>3. \A j \in DOMAIN live : live[i].last_seen <= live[j].last_seen
      BY Zenon, <2>2, <1>4, <1>5, <1>6, EvictedFacts
    <2>4. ASSUME NEW j \in DOMAIN f PROVE f[j].last_seen > sessions[i].last_seen
      <3>1. CASE j = id
        BY Zenon, <3>1, <1>11, <1>2, <1>c
      <3>2. CASE j # id
        <4>1. j \in DOMAIN live /\ j # i /\ j \in Held
          BY Zenon, <3>2, <2>1, <1>1, <1>9, <1>10
        <4>2. live[i].last_seen # live[j].last_seen
          BY Zenon, <4>1, <2>1, <1>5 DEF Seen
        <4>3. f[j].last_seen = live[j].last_seen /\ sessions[i].last_seen = live[i].last_seen
          BY Zenon, <4>1, <3>2, <2>1, <1>1, <1>11
        <4>4. live[i].last_seen \in Nat /\ live[j].last_seen \in Nat
          BY Zenon, <4>1, <2>1, <1>6
        <4> QED BY <4>1, <4>2, <4>3, <4>4, <2>3
      <3> QED BY Zenon, <3>1, <3>2
    <2>5. {j \in DOMAIN f : f[j].last_seen > sessions[i].last_seen} = DOMAIN f
      BY Zenon, <2>4
    <2>6. Cardinality(DOMAIN f) = MAX_SESSIONS
      BY Zenon, <2>2, <1>12
    <2> QED BY <2>5, <2>6, <1>3
  <1>14. DOMAIN f \subseteq Held \cup {id} /\ id \in DOMAIN f
    BY Zenon, <1>1, <1>9, <1>10
  <1> QED BY Zenon, <1>11, <1>12, <1>13, <1>14 DEF f

(* What OnlyQuietSessionsGo asks of one step. *)
QuietGo ==
    \A i \in Held \ DOMAIN sessions' :
       \/ sessions' = [j \in {} |-> 0]
       \/ clock - sessions[i].last_seen > SESSION_TTL
       \/ Cardinality({j \in DOMAIN sessions' :
                         sessions'[j].last_seen > sessions[i].last_seen}) >= MAX_SESSIONS

(* Sealing frames of a map changes neither whose sessions it holds nor when
   they were seen. *)
LEMMA SealKeepsSeen ==
    ASSUME NEW f, NEW id \in DOMAIN f, NEW n,
           f \in [DOMAIN f -> [sequence : Nat, last_seen : Nat]], Seal(f, id, n)
    PROVE  /\ DOMAIN sessions' = DOMAIN f
           /\ \A i \in DOMAIN f : sessions'[i].last_seen = f[i].last_seen
  <1>1. sessions' = [f EXCEPT ![id].sequence = @ + n]
    BY Zenon DEF Seal
  <1>2. DOMAIN sessions' = DOMAIN f
    BY Zenon, <1>1
  <1>3. f[id] \in [sequence : Nat, last_seen : Nat]
    BY Zenon
  <1>4. sessions'[id] = [f[id] EXCEPT !.sequence = f[id].sequence + n]
    BY Zenon, <1>1
  <1>5. sessions'[id].last_seen = f[id].last_seen
    BY Zenon, <1>3, <1>4
  <1>6. \A i \in DOMAIN f : i # id => sessions'[i] = f[i]
    BY Zenon, <1>1
  <1> QED BY Zenon, <1>2, <1>5, <1>6

(* The same sessions, seen when they were: nothing HeldInv speaks of changes. *)
LEMMA SameSeen ==
    ASSUME HeldInv, Inv', heard' = heard, DOMAIN sessions' = Held,
           \A i \in Held : sessions'[i].last_seen = sessions[i].last_seen
    PROVE  HeldInv' /\ QuietGo
  BY Zenon DEF HeldInv, QuietGo, Seen, Within, SpeakerLeads, Held

(* Every step keeps the invariant and drops only quiet sessions. *)
LEMMA HeldStep ==
    ASSUME HeldInv, [SessionsNext]_sessionsVars
    PROVE  HeldInv' /\ QuietGo
  <1>1. Inv' /\ Inv
    BY Zenon, StepGrows DEF HeldInv
  <1>2. /\ clock \in Nat /\ sessions \in [Held -> [sequence : Nat, last_seen : Nat]]
        /\ \A i \in Held : sessions[i].last_seen < clock /\ sessions[i].last_seen \in Nat
    BY Zenon DEF HeldInv, Inv, SessionsTypeOK, ClockLeads
  <1>3. ASSUME NEW id \in Ids, Frame(id)
        PROVE  HeldInv' /\ QuietGo
    <2> DEFINE f == admit_session(id)
    <2>1. PICK n \in 0 .. MaxBurst : Seal(f, id, n)
      BY Zenon, <1>3 DEF Frame
    <2>2. heard' = id
      BY Zenon, <1>3 DEF Frame
    <2>3. id \in DOMAIN f /\ f \in [DOMAIN f -> [sequence : Nat, last_seen : Nat]]
      BY Zenon, <1>1, AdmitFacts DEF AllIds
    <2>4. /\ DOMAIN f \subseteq Held \cup {id}
          /\ \A i \in DOMAIN f : f[i].last_seen = IF i = id THEN clock ELSE sessions[i].last_seen
          /\ Within(f)
          /\ \A i \in Held \ DOMAIN f :
                \/ clock - sessions[i].last_seen > SESSION_TTL
                \/ Cardinality({j \in DOMAIN f : f[j].last_seen > sessions[i].last_seen})
                       >= MAX_SESSIONS
      BY Zenon, AdmitRoom
    <2> HIDE DEF f
    <2>5. /\ DOMAIN sessions' = DOMAIN f
          /\ \A i \in DOMAIN f : sessions'[i].last_seen = f[i].last_seen
      BY Zenon, <2>1, <2>3, SealKeepsSeen
    <2>6. Within(sessions)'
      BY Zenon, <2>4, <2>5 DEF Within
    <2>7. (Held \subseteq Ids)'
      BY <2>4, <2>5 DEF HeldInv, Held
    <2>8. \A i \in DOMAIN f : sessions'[i].last_seen = IF i = id THEN clock ELSE sessions[i].last_seen
      BY Zenon, <2>4, <2>5
    <2>9. \A i \in DOMAIN f : i # id => i \in Held /\ sessions'[i].last_seen = sessions[i].last_seen
      BY Zenon, <2>4, <2>8
    <2>10. sessions'[id].last_seen = clock
      BY Zenon, <2>3, <2>8
    <2>11. Seen(sessions)'
      <3> SUFFICES ASSUME NEW i \in DOMAIN f, NEW j \in DOMAIN f,
                          sessions'[i].last_seen = sessions'[j].last_seen
                   PROVE  i = j
        BY Zenon, <2>5 DEF Seen
      <3>1. CASE i = id
        BY <3>1, <2>9, <2>10, <1>2
      <3>2. CASE j = id
        BY <3>2, <2>9, <2>10, <1>2
      <3>3. CASE i # id /\ j # id
        BY Zenon, <3>3, <2>9 DEF HeldInv, Seen, Held
      <3> QED BY Zenon, <3>1, <3>2, <3>3
    <2>12. SpeakerLeads'
      <3> SUFFICES ASSUME NEW j \in DOMAIN f PROVE sessions'[j].last_seen <= sessions'[id].last_seen
        BY Zenon, <2>2, <2>5 DEF SpeakerLeads, Held
      <3>1. CASE j = id
        BY <3>1, <2>10, <1>2
      <3>2. CASE j # id
        BY <3>2, <2>9, <2>10, <1>2
      <3> QED BY Zenon, <3>1, <3>2
    <2>13. QuietGo
      <3>1. \A i : {j \in DOMAIN sessions' : sessions'[j].last_seen > sessions[i].last_seen}
                   = {j \in DOMAIN f : f[j].last_seen > sessions[i].last_seen}
        BY Zenon, <2>5
      <3> QED BY Zenon, <2>4, <2>5, <3>1 DEF QuietGo
    <2> QED BY Zenon, <1>1, <2>6, <2>7, <2>11, <2>12, <2>13 DEF HeldInv
  <1>4. ASSUME NEW id \in Held, NEW n, Seal(sessions, id, n), UNCHANGED heard
        PROVE  HeldInv' /\ QuietGo
    <2>1. /\ DOMAIN sessions' = Held
          /\ \A i \in Held : sessions'[i].last_seen = sessions[i].last_seen
      BY Zenon, <1>2, <1>4, SealKeepsSeen DEF Held
    <2> QED BY Zenon, <1>1, <1>4, <2>1, SameSeen
  <1>5. CASE forward_reply
    BY Zenon, <1>4, <1>5 DEF forward_reply, newest
  <1>6. CASE flush_repairs
    BY Zenon, <1>4, <1>6 DEF flush_repairs
  <1>7. CASE Restart
    <2>1. sessions' = [i \in {} |-> 0] /\ DOMAIN sessions' = {}
      BY Zenon, <1>7 DEF Restart
    <2>2. Within(sessions)'
      BY <2>1, FS_EmptySet, Constants DEF Within
    <2> QED BY Zenon, <1>1, <2>1, <2>2 DEF HeldInv, QuietGo, Seen, SpeakerLeads, Held
  <1>8. CASE sessions' = sessions /\ heard' = heard
    BY Zenon, <1>1, <1>8, SameSeen DEF Held
  <1>9. \A id : stateless_probe_reply(id) => sessions' = sessions /\ heard' = heard
    BY Zenon DEF stateless_probe_reply
  <1>10. Tick \/ UNCHANGED sessionsVars => sessions' = sessions /\ heard' = heard
    BY Zenon DEF Tick, sessionsVars
  <1> QED BY Zenon, <1>3, <1>5, <1>6, <1>7, <1>8, <1>9, <1>10 DEF SessionsNext

(* The relay starts with nobody held. *)
LEMMA InitHeld == SessionsInit => HeldInv
  <1> SUFFICES ASSUME SessionsInit PROVE HeldInv
    BY Zenon
  <1>1. Inv
    BY Zenon, InitInv
  <1>2. DOMAIN sessions = {}
    BY Zenon DEF SessionsInit
  <1>3. Within(sessions)
    BY <1>2, FS_EmptySet, Constants DEF Within
  <1> QED BY Zenon, <1>1, <1>2, <1>3 DEF HeldInv, Seen, SpeakerLeads, Held

(* A reply goes to the session the client last spoke from, and the map keeps to
   its limit: the invariant says so. *)
LEMMA SpeakerIsNewest == HeldInv => RepliesGoToTheSpeaker
  <1> SUFFICES ASSUME HeldInv PROVE RepliesGoToTheSpeaker
    BY Zenon
  <1>1. SessionsTypeOK /\ \A i \in Held : sessions[i].last_seen \in Nat
    BY Zenon DEF HeldInv, Inv, SessionsTypeOK
  <1>2. Held \cap Probes = {} /\ Cardinality(Held) <= MAX_SESSIONS
    BY Zenon, Constants DEF HeldInv, Within, Held
  <1>3. ASSUME heard \in Held PROVE newest = {heard}
    <2>1. \A j \in Held : sessions[j].last_seen <= sessions[heard].last_seen
      BY Zenon, <1>3 DEF HeldInv, SpeakerLeads
    <2>2. heard \in newest
      BY Zenon, <1>3, <2>1 DEF newest
    <2>3. ASSUME NEW i \in newest PROVE i = heard
      <3>1. i \in Held /\ sessions[heard].last_seen <= sessions[i].last_seen
        BY Zenon, <1>3, <2>3 DEF newest
      <3>2. sessions[i].last_seen = sessions[heard].last_seen
        BY <1>1, <1>3, <2>1, <3>1
      <3> QED BY Zenon, <1>3, <3>1, <3>2 DEF HeldInv, Seen, Held
    <2> QED BY Zenon, <2>2, <2>3
  <1> QED BY Zenon, <1>1, <1>2, <1>3 DEF RepliesGoToTheSpeaker

(* With any number of clients' sessions and any limit, a packet for the client
   is sealed for the session it last spoke from, and the relay never holds
   more sessions than MAX_SESSIONS_PER_CLIENT nor one for a probe. *)
THEOREM RepliesAlwaysGoToTheSpeaker == SessionsSpec => []RepliesGoToTheSpeaker
  <1>1. HeldInv /\ [SessionsNext]_sessionsVars => HeldInv'
    BY Zenon, HeldStep
  <1> QED BY <1>1, InitHeld, SpeakerIsNewest, PTL DEF SessionsSpec

(* A session leaves the map only by a restart, by SESSION_TTL of silence, or
   because as many sessions as the map holds were heard from after it. *)
THEOREM QuietSessionsGo == SessionsSpec => OnlyQuietSessionsGo
  <1>1. HeldInv /\ [SessionsNext]_sessionsVars => HeldInv'
    BY Zenon, HeldStep
  <1>2. HeldInv /\ [SessionsNext]_sessionsVars => [QuietGo]_sessionsVars
    BY Zenon, HeldStep
  <1> QED BY <1>1, <1>2, InitHeld, PTL DEF SessionsSpec, OnlyQuietSessionsGo, QuietGo

-----------------------------------------------------------------------------
(***************************************************************************)
(* The addresses of a session (ReturnPaths).  TableOK says of a table that *)
(* its recency is a total order of its entries, that it is within its      *)
(* capacity and that no two entries are of one path; Told says that an     *)
(* entry is what the newest applied announcement of its path said.         *)
(***************************************************************************)
EntryTypes == [policy : Policies, healthy : BOOLEAN]
EntryMaps == UNION {[D -> EntryTypes] : D \in SUBSET Addresses}
OrderMaps == UNION {[D -> SUBSET Addresses] : D \in SUBSET Addresses}
Tables ==
  [entries : EntryMaps, older : OrderMaps, fresh : SUBSET Addresses,
   policy_sequences : [Paths -> Nat], selective : BOOLEAN]
Frames ==
  [kind : {"policy"}, from : SUBSET Addresses, path : Paths, selected : BOOLEAN, healthy : BOOLEAN]
  \cup [kind : {"data", "probe"}, from : SUBSET Addresses]

Ordered(D, older) ==
  /\ older \in [D -> SUBSET D]
  /\ \A a \in D : a \notin older[a]
  /\ \A a \in D : \A b \in older[a] : older[b] \subseteq older[a]
  /\ \A a, b \in D : a = b \/ a \in older[b] \/ b \in older[a]

OneEach(e) ==
  \A a, b \in DOMAIN e.entries :
    e.entries[a].policy.path = e.entries[b].policy.path /\ e.entries[a].policy.path # "none" => a = b

TableOK(e) ==
  /\ e \in Tables
  /\ Ordered(DOMAIN e.entries, e.older)
  /\ Cardinality(DOMAIN e.entries) <= CAPACITY
  /\ e.fresh \subseteq DOMAIN e.entries
  /\ OneEach(e)

Told(e) ==
  /\ \A p \in Paths : e.policy_sequences[p] <= Len(sent) /\ (e.policy_sequences[p] > 0 => e.selective)
  /\ \A a \in DOMAIN e.entries : \A p \in Paths : e.entries[a].policy.path = p =>
       LET n == e.policy_sequences[p] IN
       /\ n > 0 /\ sent[n].kind = "policy" /\ sent[n].path = p
       /\ a \in sent[n].from
       /\ e.entries[a].policy.selected = sent[n].selected
       /\ e.entries[a].healthy = sent[n].healthy

ReturnInv ==
  /\ address \in [Paths -> Addresses]
  /\ healthy_mask \subseteq Paths /\ decision_mask \subseteq Paths /\ decision_mask # {}
  /\ sent \in Seq(Frames)
  /\ session \in BOOLEAN /\ accepted \subseteq DOMAIN sent
  /\ TableOK(endpoints) /\ Told(endpoints)

(* A proper part of a finite set is smaller. *)
LEMMA ProperPart ==
    ASSUME NEW S, IsFiniteSet(S), NEW T \in SUBSET S, T # S
    PROVE  Cardinality(T) < Cardinality(S)
  <1>1. IsFiniteSet(T) /\ Cardinality(T) <= Cardinality(S) /\ Cardinality(S) # Cardinality(T)
    BY Zenon, FS_Subset
  <1>2. Cardinality(T) \in Nat /\ Cardinality(S) \in Nat
    BY Zenon, <1>1, FS_CardinalityType
  <1> QED BY <1>1, <1>2

(* A finite total order has a least and a greatest element. *)
LEMMA OrderEnds ==
    ASSUME NEW D, IsFiniteSet(D), D # {}, NEW older, Ordered(D, older)
    PROVE  /\ \E a \in D : older[a] = {}
           /\ \E a \in D : older[a] = D \ {a}
  <1>1. \A a \in D : older[a] \subseteq D /\ a \notin older[a] /\ IsFiniteSet(older[a]) /\ IsFiniteSet(D \ older[a])
    BY Zenon, FS_Subset DEF Ordered
  <1>2. \E a \in D : older[a] = {}
    <2> DEFINE W == {Cardinality(older[a]) : a \in D}
    <2>1. W \subseteq Nat /\ W # {}
      BY Zenon, <1>1, FS_CardinalityType
    <2>2. PICK w \in W : \A v \in W : w <= v
      BY Zenon, <2>1, LeastNat
    <2>3. PICK a \in D : w = Cardinality(older[a])
      BY Zenon
    <2>4. ASSUME NEW b \in older[a] PROVE FALSE
      <3>1. b \in D /\ older[b] \subseteq older[a] /\ b \notin older[b]
        BY Zenon, <1>1, <2>4 DEF Ordered
      <3>2. Cardinality(older[b]) < Cardinality(older[a])
        BY Zenon, <1>1, <2>4, <3>1, ProperPart
      <3>3. Cardinality(older[b]) \in W
        BY Zenon, <3>1
      <3>4. w <= Cardinality(older[b]) /\ w \in Nat /\ Cardinality(older[b]) \in Nat
        BY Zenon, <2>1, <2>2, <3>3
      <3> HIDE DEF W
      <3> QED BY <2>3, <3>2, <3>4
    <2> QED BY Zenon, <2>4
  <1>3. \E a \in D : older[a] = D \ {a}
    <2> DEFINE W == {Cardinality(D \ older[a]) : a \in D}
    <2>1. W \subseteq Nat /\ W # {}
      BY Zenon, <1>1, FS_CardinalityType
    <2>2. PICK w \in W : \A v \in W : w <= v
      BY Zenon, <2>1, LeastNat
    <2>3. PICK a \in D : w = Cardinality(D \ older[a])
      BY Zenon
    <2>4. ASSUME NEW b \in D, b # a, b \notin older[a] PROVE FALSE
      <3>1. a \in older[b] /\ older[a] \subseteq older[b]
        BY Zenon, <2>4 DEF Ordered
      <3>2. D \ older[b] \subseteq D \ older[a] /\ D \ older[b] # D \ older[a]
        BY Zenon, <1>1, <3>1
      <3>3. Cardinality(D \ older[b]) < Cardinality(D \ older[a])
        BY Zenon, <1>1, <3>2, ProperPart
      <3>4. Cardinality(D \ older[b]) \in W
        BY Zenon, <2>4
      <3>5. w <= Cardinality(D \ older[b]) /\ w \in Nat /\ Cardinality(D \ older[b]) \in Nat
        BY Zenon, <2>1, <2>2, <3>4
      <3> HIDE DEF W
      <3> QED BY <2>3, <3>3, <3>5
    <2>5. older[a] = D \ {a}
      BY Zenon, <1>1, <2>4
    <2> QED BY Zenon, <2>5
  <1> QED BY Zenon, <1>2, <1>3

(* Dropping addresses leaves an order, and so does hearing from one. *)
LEMMA RetainOrder ==
    ASSUME NEW D, NEW older, Ordered(D, older), NEW keep
    PROVE  Ordered(D \cap keep, [a \in D \cap keep |-> older[a] \cap keep])
  <1> DEFINE o == [a \in D \cap keep |-> older[a] \cap keep]
  <1>1. o \in [D \cap keep -> SUBSET (D \cap keep)]
    BY Zenon DEF Ordered
  <1>2. \A a \in D \cap keep : o[a] = older[a] \cap keep /\ o[a] \subseteq D \cap keep
    BY Zenon, <1>1
  <1> HIDE DEF o
  <1> QED BY Zenon, <1>1, <1>2 DEF Ordered, o

LEMMA HeardOrder ==
    ASSUME NEW D, NEW older, Ordered(D, older), NEW from
    PROVE  LET known == D \cup {from} IN
           Ordered(known, [a \in known |-> IF a = from THEN known \ {from} ELSE older[a] \ {from}])
  <1> DEFINE known == D \cup {from}
             o == [a \in known |-> IF a = from THEN known \ {from} ELSE older[a] \ {from}]
  <1>1. o \in [known -> SUBSET known]
    BY Zenon DEF Ordered
  <1>2. \A a \in known : a = from => o[a] = known \ {from}
    BY Zenon
  <1>3. \A a \in known : a # from => o[a] = older[a] \ {from} /\ a \in D
    BY Zenon
  <1> HIDE DEF o
  <1>4. \A a \in known : a \notin o[a]
    BY <1>2, <1>3 DEF Ordered
  <1>5. ASSUME NEW a \in known, NEW b \in o[a] PROVE o[b] \subseteq o[a]
    <2>1. b \in known /\ b # from
      BY Zenon, <1>1, <1>2, <1>3
    <2>2. o[b] = older[b] \ {from} /\ b \in D
      BY Zenon, <1>3, <2>1
    <2>3. CASE a = from
      BY <1>2, <2>2, <2>3 DEF Ordered
    <2>4. CASE a # from
      BY <1>3, <2>2, <2>4 DEF Ordered
    <2> QED BY Zenon, <2>3, <2>4
  <1>6. \A a, b \in known : a = b \/ a \in o[b] \/ b \in o[a]
    BY <1>2, <1>3 DEF Ordered
  <1> QED BY Zenon, <1>1, <1>4, <1>5, <1>6 DEF Ordered, o

LEMMA TableFields ==
    ASSUME NEW e, TableOK(e)
    PROVE  /\ DOMAIN e.entries \subseteq Addresses /\ IsFiniteSet(DOMAIN e.entries)
           /\ e.entries \in [DOMAIN e.entries -> EntryTypes]
           /\ e.fresh \subseteq DOMAIN e.entries
           /\ e.policy_sequences \in [Paths -> Nat] /\ e.selective \in BOOLEAN
           /\ Cardinality(DOMAIN e.entries) \in Nat /\ Cardinality(DOMAIN e.entries) <= CAPACITY
  <1>1. e.entries \in EntryMaps /\ e.policy_sequences \in [Paths -> Nat] /\ e.selective \in BOOLEAN
    BY Zenon DEF TableOK, Tables
  <1>2. PICK D \in SUBSET Addresses : e.entries \in [D -> EntryTypes]
    BY Zenon, <1>1 DEF EntryMaps
  <1>3. DOMAIN e.entries = D
    BY Zenon, <1>2
  <1>4. IsFiniteSet(D) /\ Cardinality(D) \in Nat
    BY Zenon, ReturnAssumption, FS_Subset, FS_CardinalityType
  <1> QED BY Zenon, <1>1, <1>2, <1>3, <1>4 DEF TableOK

(* What makes a table, by its fields. *)
LEMMA TableMade ==
    ASSUME NEW r \in Tables, NEW D, IsFiniteSet(D), DOMAIN r.entries = D,
           Ordered(D, r.older), r.fresh \subseteq D, Cardinality(D) <= CAPACITY,
           \A a, b \in D : r.entries[a].policy.path = r.entries[b].policy.path
                            /\ r.entries[a].policy.path # "none" => a = b
    PROVE  TableOK(r)
  BY Zenon DEF TableOK, OneEach

Changed(e, f, o, fresh) == [e EXCEPT !.entries = f, !.older = o, !.fresh = fresh]

LEMMA TableChanged ==
    ASSUME NEW e \in Tables, NEW D \in SUBSET Addresses, NEW f \in [D -> EntryTypes],
           NEW o, Ordered(D, o), NEW fresh \in SUBSET D
    PROVE  LET r == Changed(e, f, o, fresh) IN
           /\ r \in Tables /\ r.entries = f /\ r.older = o /\ r.fresh = fresh
           /\ r.policy_sequences = e.policy_sequences /\ r.selective = e.selective
  <1>1. f \in EntryMaps
    BY Zenon DEF EntryMaps
  <1>2. o \in [D -> SUBSET D] /\ o \in [D -> SUBSET Addresses]
    BY Zenon DEF Ordered
  <1>3. o \in OrderMaps
    BY Zenon, <1>2 DEF OrderMaps
  <1>4. fresh \in SUBSET Addresses
    BY Zenon
  <1> QED BY Zenon, <1>1, <1>3, <1>4 DEF Tables, Changed

LEMMA RetainFacts ==
    ASSUME NEW e, TableOK(e), NEW keep
    PROVE  LET r == retain(e, keep) IN
           /\ TableOK(r)
           /\ DOMAIN r.entries = DOMAIN e.entries \cap keep
           /\ \A a \in DOMAIN r.entries : r.entries[a] = e.entries[a]
           /\ r.policy_sequences = e.policy_sequences /\ r.selective = e.selective
  <1> DEFINE D == DOMAIN e.entries \cap keep
             f == [a \in D |-> e.entries[a]]
             o == [a \in D |-> e.older[a] \cap keep]
             r == retain(e, keep)
  <1>1. /\ DOMAIN e.entries \subseteq Addresses /\ IsFiniteSet(DOMAIN e.entries)
        /\ e.entries \in [DOMAIN e.entries -> EntryTypes] /\ e.fresh \subseteq DOMAIN e.entries
        /\ e.policy_sequences \in [Paths -> Nat] /\ e.selective \in BOOLEAN
        /\ Cardinality(DOMAIN e.entries) \in Nat /\ Cardinality(DOMAIN e.entries) <= CAPACITY
        /\ e \in Tables
    BY Zenon, TableFields DEF TableOK
  <1>2. Ordered(D, o)
    BY RetainOrder DEF TableOK
  <1>3. D \in SUBSET Addresses /\ f \in [D -> EntryTypes] /\ e.fresh \cap keep \in SUBSET D
    BY Zenon, <1>1
  <1>4. /\ r \in Tables /\ r.entries = f /\ r.older = o /\ r.fresh = e.fresh \cap keep
        /\ r.policy_sequences = e.policy_sequences /\ r.selective = e.selective
    <2>1. r = Changed(e, f, o, e.fresh \cap keep)
      BY Zenon DEF retain, Changed
    <2> HIDE DEF D, f, o, r
    <2> QED BY <1>1, <1>2, <1>3, <2>1, TableChanged
  <1>5. IsFiniteSet(D) /\ Cardinality(D) <= CAPACITY
    <2>1. IsFiniteSet(D) /\ Cardinality(D) <= Cardinality(DOMAIN e.entries)
      BY Zenon, <1>1, FS_Subset
    <2>2. Cardinality(D) \in Nat
      BY Zenon, <2>1, FS_CardinalityType
    <2> QED BY <1>1, <2>1, <2>2, ReturnAssumption
  <1>6. \A a, b \in D : f[a].policy.path = f[b].policy.path /\ f[a].policy.path # "none" => a = b
    BY Zenon DEF TableOK, OneEach
  <1>7. TableOK(r)
    <2>1. DOMAIN f = D
      BY Zenon
    <2> HIDE DEF D, f, o, r
    <2> QED BY Zenon, <1>2, <1>3, <1>4, <1>5, <1>6, <2>1, TableMade
  <1> HIDE DEF r
  <1> QED BY Zenon, <1>4, <1>7 DEF r

LEMMA ObserveFacts ==
    ASSUME NEW e, TableOK(e), NEW from \in Addresses
    PROVE  LET r == observe(e, from) IN
           /\ TableOK(r)
           /\ from \in DOMAIN r.entries /\ DOMAIN r.entries \subseteq DOMAIN e.entries \cup {from}
           /\ \A a \in DOMAIN r.entries : a \in DOMAIN e.entries => r.entries[a] = e.entries[a]
           /\ from \notin DOMAIN e.entries => r.entries[from].policy = NoPolicy
           /\ r.policy_sequences = e.policy_sequences /\ r.selective = e.selective
  <1> DEFINE full == from \notin DOMAIN e.entries /\ Cardinality(DOMAIN e.entries) >= CAPACITY
             room == IF full THEN retain(e, Addresses \ Oldest(e)) ELSE e
             entry == IF from \in DOMAIN e.entries THEN e.entries[from]
                      ELSE [policy |-> NoPolicy, healthy |-> TRUE]
             known == DOMAIN room.entries \cup {from}
             f == [a \in known |-> IF a = from THEN entry ELSE room.entries[a]]
             o == [a \in known |-> IF a = from THEN known \ {from} ELSE room.older[a] \ {from}]
             fr == room.fresh \cup {from}
             r == observe(e, from)
  <1>1. /\ DOMAIN e.entries \subseteq Addresses /\ IsFiniteSet(DOMAIN e.entries)
        /\ e.entries \in [DOMAIN e.entries -> EntryTypes] /\ e.fresh \subseteq DOMAIN e.entries
        /\ e.policy_sequences \in [Paths -> Nat] /\ e.selective \in BOOLEAN
        /\ Cardinality(DOMAIN e.entries) \in Nat /\ Cardinality(DOMAIN e.entries) <= CAPACITY
    BY Zenon, TableFields
  <1>2. /\ TableOK(room) /\ DOMAIN room.entries \subseteq DOMAIN e.entries
        /\ \A a \in DOMAIN room.entries : room.entries[a] = e.entries[a]
        /\ room.policy_sequences = e.policy_sequences /\ room.selective = e.selective
        /\ full => DOMAIN room.entries = DOMAIN e.entries \cap (Addresses \ Oldest(e))
        /\ ~full => room = e
    <2>1. CASE full
      <3> DEFINE keep == Addresses \ Oldest(e)
      <3>1. room = retain(e, keep)
        BY Zenon, <2>1
      <3> HIDE DEF room, full, keep
      <3>2. LET q == retain(e, keep) IN
            /\ TableOK(q) /\ DOMAIN q.entries = DOMAIN e.entries \cap keep
            /\ \A a \in DOMAIN q.entries : q.entries[a] = e.entries[a]
            /\ q.policy_sequences = e.policy_sequences /\ q.selective = e.selective
        BY Zenon, RetainFacts
      <3> QED BY Zenon, <2>1, <3>1, <3>2 DEF keep
    <2>2. CASE ~full
      <3>1. room = e
        BY Zenon, <2>2
      <3> HIDE DEF room, full
      <3> QED BY Zenon, <2>2, <3>1
    <2> QED BY Zenon, <2>1, <2>2
  <1> HIDE DEF full
  <1>3. /\ DOMAIN room.entries \subseteq Addresses /\ IsFiniteSet(DOMAIN room.entries)
        /\ room.entries \in [DOMAIN room.entries -> EntryTypes] /\ room.fresh \subseteq DOMAIN room.entries
        /\ Cardinality(DOMAIN room.entries) \in Nat /\ Cardinality(DOMAIN room.entries) <= CAPACITY
        /\ room \in Tables /\ Ordered(DOMAIN room.entries, room.older)
    BY Zenon, <1>2, TableFields DEF TableOK
  <1>4. r = Changed(room, f, o, fr)
    BY Zenon DEF observe, full, Changed
  <1>6. Ordered(known, o)
    <2> HIDE DEF room
    <2> QED BY <1>3, HeardOrder
  <1>7. entry \in EntryTypes /\ (from \notin DOMAIN e.entries => entry.policy = NoPolicy)
    BY Zenon, <1>1 DEF EntryTypes, Policies
  <1>8. full => Cardinality(DOMAIN room.entries) < CAPACITY
    <2> SUFFICES ASSUME full PROVE Cardinality(DOMAIN room.entries) < CAPACITY
      BY Zenon
    <2>1. DOMAIN e.entries # {} /\ Cardinality(DOMAIN e.entries) = CAPACITY
      <3>1. Cardinality(DOMAIN e.entries) = CAPACITY
        BY <1>1, ReturnAssumption DEF full
      <3> QED BY Zenon, <3>1, FS_EmptySet, ReturnAssumption
    <2>2. PICK a \in DOMAIN e.entries : e.older[a] = {}
      BY ZenonT(60), <1>1, <2>1, OrderEnds DEF TableOK
    <2>3. DOMAIN room.entries \in SUBSET DOMAIN e.entries /\ a \notin DOMAIN room.entries
      BY Zenon, <1>2, <2>2 DEF Oldest
    <2> HIDE DEF room
    <2>4. Cardinality(DOMAIN room.entries) < Cardinality(DOMAIN e.entries)
      BY Zenon, <1>1, <2>2, <2>3, ProperPart
    <2> QED BY Zenon, <2>1, <2>4
  <1>9. Cardinality(known) <= CAPACITY
    <2>1. CASE from \in DOMAIN room.entries
      <3>1. known = DOMAIN room.entries
        BY Zenon, <2>1
      <3> QED BY Zenon, <1>3, <3>1
    <2>2. CASE from \notin DOMAIN room.entries
      <3>1. Cardinality(DOMAIN room.entries) < CAPACITY
        <4>1. CASE full
          BY Zenon, <1>8, <4>1
        <4>2. CASE ~full
          <5>1. room = e /\ from \notin DOMAIN e.entries
            BY Zenon, <1>2, <2>2, <4>2
          <5>2. ~(Cardinality(DOMAIN e.entries) >= CAPACITY)
            BY Zenon, <4>2, <5>1 DEF full
          <5> QED BY <1>1, <5>1, <5>2, ReturnAssumption
        <4> QED BY Zenon, <4>1, <4>2
      <3> HIDE DEF room
      <3>2. Cardinality(known) = Cardinality(DOMAIN room.entries) + 1
        BY Zenon, <1>3, <2>2, FS_AddElement
      <3> QED BY <1>3, <3>1, <3>2, ReturnAssumption
    <2> QED BY Zenon, <2>1, <2>2
  <1>10. known \in SUBSET Addresses /\ f \in [known -> EntryTypes] /\ fr \in SUBSET known
    <2> HIDE DEF room, entry
    <2> QED BY Zenon, <1>3, <1>7
  <1>11. \A a \in known : /\ a \in DOMAIN e.entries => f[a] = e.entries[a]
                          /\ a \notin DOMAIN e.entries => a = from /\ f[a].policy = NoPolicy
    <2> HIDE DEF room
    <2> QED BY ZenonT(60), <1>2, <1>7
  <1> HIDE DEF room, entry, known, f, o, fr, r
  <1>5. /\ r \in Tables /\ r.entries = f /\ r.older = o /\ r.fresh = fr
        /\ r.policy_sequences = room.policy_sequences /\ r.selective = room.selective
    BY <1>3, <1>4, <1>6, <1>10, TableChanged
  <1>12. \A a, b \in known : f[a].policy.path = f[b].policy.path /\ f[a].policy.path # "none" => a = b
    BY <1>11 DEF TableOK, OneEach, NoPolicy
  <1>13. TableOK(r)
    <2>1. IsFiniteSet(known) /\ DOMAIN f = known
      BY Zenon, <1>10, ReturnAssumption, FS_Subset
    <2> QED BY Zenon, <1>5, <1>6, <1>9, <1>10, <1>12, <2>1, TableMade
  <1>14. DOMAIN r.entries = known /\ r.entries = f
    BY Zenon, <1>5, <1>10
  <1>15. r.policy_sequences = e.policy_sequences /\ r.selective = e.selective
    BY Zenon, <1>2, <1>5
  <1>16. from \in known /\ known \subseteq DOMAIN e.entries \cup {from}
    BY Zenon, <1>2 DEF known
  <1> QED BY Zenon, <1>11, <1>13, <1>14, <1>15, <1>16 DEF r

(* An announcement of path p that is newer than what was applied is its    *)
(* path's only entry afterwards; of other paths none is added.             *)
LEMMA ApplyFacts ==
    ASSUME NEW e, TableOK(e), NEW from \in Addresses, NEW pol \in [path : Paths, selected : BOOLEAN],
           NEW ok \in BOOLEAN, NEW n \in Nat, n > e.policy_sequences[pol.path]
    PROVE  LET r == apply(e, from, pol, ok, n) IN
           /\ TableOK(r)
           /\ from \in DOMAIN r.entries /\ r.entries[from].policy = pol /\ r.entries[from].healthy = ok
           /\ \A a \in DOMAIN r.entries \ {from} :
                a \in DOMAIN e.entries /\ r.entries[a] = e.entries[a] /\ e.entries[a].policy.path # pol.path
           /\ r.policy_sequences = [e.policy_sequences EXCEPT ![pol.path] = n] /\ r.selective
  <1> DEFINE others == {a \in DOMAIN e.entries : a = from \/ e.entries[a].policy.path # pol.path}
             q == retain(e, others)
             s == observe(q, from)
             entry == [policy |-> pol, healthy |-> ok]
             f == [s.entries EXCEPT ![from] = entry]
             seqs == [s.policy_sequences EXCEPT ![pol.path] = n]
             r == apply(e, from, pol, ok, n)
  <1>1. e.policy_sequences \in [Paths -> Nat] /\ pol.path \in Paths
    BY Zenon, TableFields
  <1>2. /\ TableOK(q) /\ DOMAIN q.entries = DOMAIN e.entries \cap others
        /\ \A a \in DOMAIN q.entries : q.entries[a] = e.entries[a]
        /\ q.policy_sequences = e.policy_sequences
    <2> HIDE DEF others
    <2> QED BY RetainFacts
  <1> HIDE DEF q
  <1>3. /\ TableOK(s) /\ from \in DOMAIN s.entries /\ DOMAIN s.entries \subseteq DOMAIN q.entries \cup {from}
        /\ \A a \in DOMAIN s.entries : a \in DOMAIN q.entries => s.entries[a] = q.entries[a]
        /\ s.policy_sequences = q.policy_sequences
    BY Zenon, <1>2, ObserveFacts
  <1>4. \A a \in DOMAIN s.entries \ {from} :
          a \in DOMAIN e.entries /\ s.entries[a] = e.entries[a] /\ e.entries[a].policy.path # pol.path
    BY Zenon, <1>2, <1>3
  <1>5. r = [s EXCEPT !.policy_sequences[pol.path] = n, !.selective = TRUE, !.entries[from] = entry]
    BY <1>1 DEF apply, q
  <1> HIDE DEF s
  <1>6. /\ DOMAIN s.entries \subseteq Addresses /\ IsFiniteSet(DOMAIN s.entries)
        /\ s.entries \in [DOMAIN s.entries -> EntryTypes] /\ s.fresh \subseteq DOMAIN s.entries
        /\ s.policy_sequences \in [Paths -> Nat] /\ s \in Tables
        /\ Cardinality(DOMAIN s.entries) <= CAPACITY /\ Ordered(DOMAIN s.entries, s.older)
    BY Zenon, <1>3, TableFields DEF TableOK
  <1>7. entry \in EntryTypes /\ entry.policy = pol /\ entry.healthy = ok
    BY Zenon DEF EntryTypes, Policies
  <1> HIDE DEF entry
  <1>8. /\ f \in [DOMAIN s.entries -> EntryTypes] /\ DOMAIN f = DOMAIN s.entries /\ f[from] = entry
        /\ \A a \in DOMAIN s.entries \ {from} : f[a] = s.entries[a]
        /\ seqs \in [Paths -> Nat]
    BY Zenon, <1>1, <1>3, <1>6, <1>7
  <1>9. f \in EntryMaps
    BY Zenon, <1>6, <1>8 DEF EntryMaps
  <1>10. r.entries = f /\ r.older = s.older /\ r.fresh = s.fresh /\ r.policy_sequences = seqs /\ r.selective = TRUE
    <2> HIDE DEF r
    <2> QED BY Zenon, <1>5, <1>6 DEF Tables
  <1>11. r \in Tables
    <2>1. r = [s EXCEPT !.policy_sequences = seqs, !.selective = TRUE, !.entries = f]
      <3> HIDE DEF r
      <3> QED BY Zenon, <1>5, <1>6 DEF Tables
    <2> HIDE DEF r, f, seqs
    <2> QED BY Zenon, <1>6, <1>8, <1>9, <2>1 DEF Tables
  <1> HIDE DEF r, f
  <1>12. TableOK(r)
    <2>1. \A a, b \in DOMAIN s.entries : r.entries[a].policy.path = r.entries[b].policy.path
                               /\ r.entries[a].policy.path # "none" => a = b
      <3> SUFFICES ASSUME NEW a \in DOMAIN s.entries, NEW b \in DOMAIN s.entries,
                          f[a].policy.path = f[b].policy.path, f[a].policy.path # "none"
                   PROVE  a = b
        BY Zenon, <1>10
      <3>1. CASE a = from \/ b = from
        BY <1>4, <1>7, <1>8, <3>1
      <3>2. CASE a # from /\ b # from
        BY Zenon, <1>3, <1>8, <3>2 DEF TableOK, OneEach
      <3> QED BY Zenon, <3>1, <3>2
    <2> QED BY Zenon, <1>6, <1>8, <1>10, <1>11, <2>1, TableMade
  <1>13. seqs = [e.policy_sequences EXCEPT ![pol.path] = n]
    BY Zenon, <1>2, <1>3
  <1> HIDE DEF seqs
  <1> QED BY <1>3, <1>4, <1>7, <1>8, <1>10, <1>12, <1>13 DEF r

(* What is dropped, or only heard from, leaves the rest as it was told. *)
LEMMA ToldStill ==
    ASSUME NEW e, Told(e), NEW r,
           r.policy_sequences = e.policy_sequences, r.selective = e.selective,
           \A a \in DOMAIN r.entries : \/ a \in DOMAIN e.entries /\ r.entries[a] = e.entries[a]
                                       \/ r.entries[a].policy = NoPolicy
    PROVE  Told(r)
  <1>1. \A a \in DOMAIN r.entries : \A p \in Paths : r.entries[a].policy.path = p =>
          a \in DOMAIN e.entries /\ r.entries[a] = e.entries[a]
    BY ReturnAssumption DEF NoPolicy
  <1> QED BY <1>1 DEF Told

LEMMA SendStep ==
    ASSUME ReturnInv, NEW frame \in Frames, Send(frame),
           UNCHANGED <<address, healthy_mask, decision_mask, relayVars>>
    PROVE  ReturnInv'
  <1>1. /\ sent \in Seq(Frames) /\ TableOK(endpoints) /\ Told(endpoints) /\ accepted \subseteq DOMAIN sent
        /\ sent' = Append(sent, frame) /\ endpoints' = endpoints /\ accepted' = accepted
    BY Zenon DEF ReturnInv, Send, relayVars
  <1>2. /\ sent' \in Seq(Frames) /\ Len(sent') = Len(sent) + 1 /\ Len(sent) \in Nat
        /\ DOMAIN sent = 1..Len(sent) /\ DOMAIN sent' = 1..(Len(sent) + 1)
        /\ \A i \in 1..Len(sent) : sent'[i] = sent[i]
    BY <1>1
  <1>3. endpoints.policy_sequences \in [Paths -> Nat]
    BY Zenon, <1>1, TableFields
  <1>4. Told(endpoints)'
    <2>1. \A p \in Paths : /\ endpoints.policy_sequences[p] <= Len(sent')
                           /\ endpoints.policy_sequences[p] > 0 => endpoints.policy_sequences[p] \in 1..Len(sent)
      BY <1>1, <1>2, <1>3 DEF Told
    <2> QED BY <1>1, <1>2, <2>1 DEF Told
  <1>5. TableOK(endpoints)'
    BY Zenon, <1>1 DEF TableOK, OneEach
  <1> QED BY <1>1, <1>2, <1>4, <1>5 DEF ReturnInv, relayVars

(* A frame arrives: what the relay knows is either heard again, or told.   *)
LEMMA ReceiveStep ==
    ASSUME ReturnInv, NEW n \in 1..MaxFrames, NEW from \in Addresses, Receive(n, from)
    PROVE  ReturnInv'
  <1>1. /\ sent \in Seq(Frames) /\ TableOK(endpoints) /\ Told(endpoints) /\ accepted \subseteq DOMAIN sent
    BY Zenon DEF ReturnInv
  <1> DEFINE known == observe(endpoints, from)
             m == sent[n]
             pol == [path |-> m.path, selected |-> m.selected]
             new == n \notin accepted /\ m.kind = "policy"
  <1>2. /\ n \in DOMAIN sent /\ from \in m.from /\ session' = TRUE /\ accepted' = accepted \cup {n}
        /\ endpoints' = IF new THEN apply(known, from, pol, m.healthy, n) ELSE known
        /\ UNCHANGED <<address, healthy_mask, decision_mask, sent>>
    BY Zenon DEF Receive, clientVars
  <1>3. /\ TableOK(known) /\ from \in DOMAIN known.entries
        /\ DOMAIN known.entries \subseteq DOMAIN endpoints.entries \cup {from}
        /\ \A a \in DOMAIN known.entries : a \in DOMAIN endpoints.entries => known.entries[a] = endpoints.entries[a]
        /\ from \notin DOMAIN endpoints.entries => known.entries[from].policy = NoPolicy
        /\ known.policy_sequences = endpoints.policy_sequences /\ known.selective = endpoints.selective
    BY Zenon, <1>1, ObserveFacts
  <1> HIDE DEF known, new, m
  <1>4. Told(known)
    <2>1. \A a \in DOMAIN known.entries : \/ a \in DOMAIN endpoints.entries /\ known.entries[a] = endpoints.entries[a]
                                          \/ known.entries[a].policy = NoPolicy
      BY Zenon, <1>3
    <2> QED BY Zenon, <1>1, <1>3, <2>1, ToldStill
  <1>5. n \in Nat \ {0} /\ n <= Len(sent) /\ m \in Frames
    BY <1>1, <1>2 DEF m
  <1>6. TableOK(endpoints') /\ Told(endpoints')
    <2>1. CASE ~(new /\ n > known.policy_sequences[pol.path])
      <3>1. endpoints' = known
        <4>1. CASE ~new
          BY Zenon, <1>2, <4>1
        <4>2. CASE new /\ ~(n > known.policy_sequences[pol.path])
          <5>1. m.path \in Paths
            BY Zenon, <1>5, <4>2 DEF new, Frames
          <5>2. known.policy_sequences[pol.path] \in Nat /\ n \in Nat
            BY Zenon, <1>3, <1>5, <5>1, TableFields
          <5>3. n <= known.policy_sequences[pol.path]
            BY <4>2, <5>2
          <5> QED BY Zenon, <1>2, <4>2, <5>3 DEF apply
        <4> QED BY Zenon, <2>1, <4>1, <4>2
      <3> QED BY Zenon, <1>3, <1>4, <3>1
    <2>2. CASE new /\ n > known.policy_sequences[pol.path]
      <3> DEFINE r == apply(known, from, pol, m.healthy, n)
      <3>1. /\ m.kind = "policy" /\ m.path \in Paths /\ m.selected \in BOOLEAN /\ m.healthy \in BOOLEAN
        BY Zenon, <1>5, <2>2 DEF new, Frames
      <3>2. pol \in [path : Paths, selected : BOOLEAN] /\ pol.path = m.path /\ pol.selected = m.selected
        BY ZenonT(60), <3>1
      <3> HIDE DEF pol
      <3>3. /\ TableOK(r)
            /\ from \in DOMAIN r.entries /\ r.entries[from].policy = pol /\ r.entries[from].healthy = m.healthy
            /\ \A a \in DOMAIN r.entries \ {from} :
                 /\ a \in DOMAIN known.entries /\ r.entries[a] = known.entries[a]
                 /\ known.entries[a].policy.path # pol.path
            /\ r.policy_sequences = [known.policy_sequences EXCEPT ![pol.path] = n] /\ r.selective
        BY <1>3, <1>5, <2>2, <3>1, <3>2, ApplyFacts
      <3>4. endpoints' = r
        BY ZenonT(60), <1>2, <2>2
      <3> HIDE DEF r
      <3>5. /\ known.policy_sequences \in [Paths -> Nat] /\ r.policy_sequences[m.path] = n
            /\ \A p \in Paths : p # m.path => r.policy_sequences[p] = known.policy_sequences[p]
        <4>1. known.policy_sequences \in [Paths -> Nat]
          BY Zenon, <1>3, TableFields
        <4> QED BY <3>1, <3>2, <3>3, <4>1
      <3>6. Told(r)
        <4>1. \A p \in Paths : r.policy_sequences[p] <= Len(sent) /\ (r.policy_sequences[p] > 0 => r.selective)
          BY Zenon, <1>4, <1>5, <3>3, <3>5 DEF Told
        <4>2. ASSUME NEW a \in DOMAIN r.entries, NEW p \in Paths, r.entries[a].policy.path = p
              PROVE  LET k == r.policy_sequences[p] IN
                     /\ k > 0 /\ sent[k].kind = "policy" /\ sent[k].path = p
                     /\ a \in sent[k].from
                     /\ r.entries[a].policy.selected = sent[k].selected
                     /\ r.entries[a].healthy = sent[k].healthy
          <5>1. CASE a = from
            <6>1. p = m.path /\ r.policy_sequences[p] = n
              BY ZenonT(60), <3>2, <3>3, <3>5, <4>2, <5>1
            <6> QED BY <1>2, <1>5, <3>1, <3>2, <3>3, <5>1, <6>1 DEF m
          <5>2. CASE a # from
            <6>1. a \in DOMAIN known.entries /\ r.entries[a] = known.entries[a] /\ p # m.path
              BY Zenon, <3>2, <3>3, <4>2, <5>2
            <6>2. r.policy_sequences[p] = known.policy_sequences[p]
              BY Zenon, <3>5, <6>1
            <6> QED BY <1>4, <4>2, <6>1, <6>2 DEF Told
          <5> QED BY ZenonT(60), <5>1, <5>2
        <4> QED BY Zenon, <4>1, <4>2 DEF Told
      <3> QED BY Zenon, <3>3, <3>4, <3>6
    <2> QED BY Zenon, <2>1, <2>2
  <1>7. TableOK(endpoints)' /\ Told(endpoints)'
    <2>1. TableOK(endpoints)'
      BY Zenon, <1>6 DEF TableOK, OneEach, Ordered
    <2>2. sent' = sent
      BY Zenon, <1>2
    <2>3. Told(endpoints)'
      BY <1>6, <2>2 DEF Told
    <2> QED BY Zenon, <2>1, <2>3
  <1> QED BY Zenon, <1>1, <1>2, <1>7 DEF ReturnInv

(* Fewer addresses, the same announcements.                                *)
LEMMA DropStep ==
    ASSUME ReturnInv, prune \/ GrowStale
    PROVE  ReturnInv'
  <1>1. /\ TableOK(endpoints) /\ Told(endpoints)
        /\ UNCHANGED <<address, healthy_mask, decision_mask, sent, session, accepted>>
    BY Zenon DEF ReturnInv, prune, GrowStale, clientVars
  <1>2. TableOK(endpoints') /\ Told(endpoints')
    <2>1. CASE prune
      <3>1. PICK a \in Oldest(endpoints) : endpoints' = retain(endpoints, Addresses \ {a})
        BY Zenon, <2>1 DEF prune
      <3> DEFINE keep == Addresses \ {a}
      <3>2. endpoints' = retain(endpoints, keep)
        BY Zenon, <3>1
      <3> HIDE DEF keep
      <3>3. /\ TableOK(endpoints') /\ DOMAIN endpoints'.entries = DOMAIN endpoints.entries \cap keep
            /\ \A b \in DOMAIN endpoints'.entries : endpoints'.entries[b] = endpoints.entries[b]
            /\ endpoints'.policy_sequences = endpoints.policy_sequences
            /\ endpoints'.selective = endpoints.selective
        BY Zenon, <1>1, <3>2, RetainFacts
      <3>4. \A b \in DOMAIN endpoints'.entries : b \in DOMAIN endpoints.entries
        BY Zenon, <3>3
      <3> QED BY Zenon, <1>1, <3>3, <3>4, ToldStill
    <2>2. CASE GrowStale
      <3>1. PICK a \in endpoints.fresh : endpoints' = [endpoints EXCEPT !.fresh = @ \ {a}]
        BY Zenon, <2>2 DEF GrowStale
      <3>2. endpoints \in Tables /\ endpoints.fresh \subseteq DOMAIN endpoints.entries
        BY Zenon, <1>1 DEF TableOK
      <3>3. /\ endpoints' \in Tables /\ endpoints'.entries = endpoints.entries
            /\ endpoints'.older = endpoints.older /\ endpoints'.fresh \subseteq endpoints.fresh
            /\ endpoints'.policy_sequences = endpoints.policy_sequences
            /\ endpoints'.selective = endpoints.selective
        BY Zenon, <3>1, <3>2 DEF Tables
      <3>4. TableOK(endpoints')
        BY Zenon, <1>1, <3>2, <3>3 DEF TableOK, OneEach
      <3> QED BY Zenon, <1>1, <3>3, <3>4, ToldStill
    <2> QED BY Zenon, <2>1, <2>2
  <1>3. TableOK(endpoints)'
    BY Zenon, <1>2 DEF TableOK, OneEach, Ordered
  <1>4. Told(endpoints)'
    BY <1>1, <1>2 DEF Told
  <1> QED BY Zenon, <1>1, <1>3, <1>4 DEF ReturnInv

(* A session of its own, without addresses. *)
LEMMA EmptyTable ==
    ASSUME sent \in Seq(Frames)
    PROVE  TableOK(EndpointsDefault) /\ Told(EndpointsDefault)
  <1> DEFINE e == EndpointsDefault
  <1>1. /\ DOMAIN e.entries = {} /\ DOMAIN e.older = {} /\ e.fresh = {} /\ e.selective = FALSE
        /\ e.policy_sequences = [p \in Paths |-> 0]
        /\ e = [entries |-> e.entries, older |-> e.older, fresh |-> {}, policy_sequences |-> e.policy_sequences,
                selective |-> FALSE]
        /\ e.entries \in [{} -> EntryTypes] /\ e.older \in [{} -> SUBSET {}]
    BY Zenon DEF EndpointsDefault
  <1> HIDE DEF e
  <1>2. e.entries \in EntryMaps /\ e.older \in OrderMaps
    <2>1. e.older \in [{} -> SUBSET Addresses] /\ {} \in SUBSET Addresses
      BY Zenon, <1>1
    <2> QED BY Zenon, <1>1, <2>1 DEF EntryMaps, OrderMaps
  <1>3. e \in Tables
    <2>1. e.policy_sequences \in [Paths -> Nat]
      BY <1>1
    <2> QED BY Zenon, <1>1, <1>2, <2>1 DEF Tables
  <1>4. Ordered({}, e.older)
    BY Zenon, <1>1 DEF Ordered
  <1>5. Cardinality({}) <= CAPACITY
    BY FS_EmptySet, ReturnAssumption
  <1>6. OneEach(e)
    BY Zenon, <1>1 DEF OneEach
  <1>7. Told(e)
    <2>1. Len(sent) \in Nat
      OBVIOUS
    <2> QED BY <1>1, <2>1 DEF Told
  <1> QED BY Zenon, <1>1, <1>3, <1>4, <1>5, <1>6, <1>7 DEF TableOK, e

LEMMA ReturnInit == Init => ReturnInv
  <1> SUFFICES ASSUME Init PROVE ReturnInv
    BY Zenon
  <1>1. sent = << >> /\ endpoints = EndpointsDefault
    BY Zenon DEF Init
  <1>2. sent \in Seq(Frames)
    BY <1>1
  <1>3. TableOK(endpoints) /\ Told(endpoints)
    BY Zenon, <1>1, <1>2, EmptyTable
  <1> QED BY Zenon, <1>2, <1>3 DEF Init, ReturnInv

LEMMA ReturnNext == ReturnInv /\ [Next]_vars => ReturnInv'
  <1> SUFFICES ASSUME ReturnInv, [Next]_vars PROVE ReturnInv'
    BY Zenon
  <1>1. address \in [Paths -> Addresses] /\ Carrying \subseteq Paths
    BY ZenonT(60) DEF ReturnInv, Carrying, selected_paths
  <1>2. ASSUME UNCHANGED <<sent, relayVars>>, address' \in [Paths -> Addresses], healthy_mask' \subseteq Paths,
               decision_mask' \subseteq Paths, decision_mask' # {}
        PROVE  ReturnInv'
    BY <1>2 DEF ReturnInv, relayVars, TableOK, OneEach, Ordered, Told
  <1>3. CASE UNCHANGED vars
    BY Zenon, <1>2, <1>3 DEF vars, clientVars, ReturnInv
  <1>4. ASSUME NEW p \in Paths, Announce(p)
        PROVE  ReturnInv'
    <2> DEFINE frame == [kind |-> "policy", from |-> {address[p]}, path |-> p,
                         selected |-> p \in Carrying, healthy |-> p \in healthy_mask]
    <2>1. frame \in Frames
      BY <1>1 DEF Frames
    <2>2. Send(frame) /\ UNCHANGED <<address, healthy_mask, decision_mask, relayVars>>
      BY Zenon, <1>4 DEF Announce
    <2> QED BY Zenon, <2>1, <2>2, SendStep
  <1>5. ASSUME NEW p \in Paths, SendProbe(p)
        PROVE  ReturnInv'
    <2> DEFINE frame == [kind |-> "probe", from |-> {address[p]}]
    <2>1. frame \in Frames
      BY Zenon, <1>1 DEF Frames
    <2>2. Send(frame) /\ UNCHANGED <<address, healthy_mask, decision_mask, relayVars>>
      BY Zenon, <1>5 DEF SendProbe
    <2> QED BY Zenon, <2>1, <2>2, SendStep
  <1>6. CASE SendData
    <2> DEFINE frame == [kind |-> "data", from |-> {address[p] : p \in Carrying}]
    <2>1. frame \in Frames
      BY Zenon, <1>1 DEF Frames
    <2>2. Send(frame) /\ UNCHANGED <<address, healthy_mask, decision_mask, relayVars>>
      BY Zenon, <1>6 DEF SendData
    <2> QED BY Zenon, <2>1, <2>2, SendStep
  <1>7. ASSUME NEW p \in Paths, Rebind(p)
        PROVE  ReturnInv'
    <2>1. address' \in [Paths -> Addresses]
      BY Zenon, <1>1, <1>7 DEF Rebind
    <2> QED BY Zenon, <1>2, <1>7, <2>1 DEF Rebind, ReturnInv
  <1>8. ASSUME NEW p \in Paths, publish_path_health(p)
        PROVE  ReturnInv'
    <2>1. healthy_mask' \subseteq Paths
      BY Zenon, <1>8 DEF publish_path_health, ReturnInv
    <2> QED BY Zenon, <1>1, <1>2, <1>8, <2>1 DEF publish_path_health, ReturnInv
  <1>9. CASE Decide
    BY Zenon, <1>2, <1>9 DEF Decide, ReturnInv
  <1>10. CASE SessionLost
    <2>1. endpoints' = EndpointsDefault /\ accepted' = {} /\ session' = FALSE /\ UNCHANGED clientVars
      BY Zenon, <1>10 DEF SessionLost
    <2>2. TableOK(endpoints') /\ Told(endpoints')
      BY Zenon, <2>1, EmptyTable DEF ReturnInv
    <2>3. TableOK(endpoints)'
      BY Zenon, <2>2 DEF TableOK, OneEach, Ordered
    <2>4. Told(endpoints)'
      BY <2>1, <2>2 DEF Told, clientVars
    <2> QED BY Zenon, <2>1, <2>3, <2>4 DEF ReturnInv, clientVars
  <1>11. CASE Next
    BY ZenonT(60), <1>4, <1>5, <1>6, <1>7, <1>8, <1>9, <1>10, <1>11, ReceiveStep, DropStep DEF Next
  <1> QED BY Zenon, <1>3, <1>11

(* The invariant says what RepliesFollowTheClient asks for.                *)
LEMMA ReturnInvSuffices == ReturnInv => RepliesFollowTheClient
  <1> SUFFICES ASSUME ReturnInv PROVE RepliesFollowTheClient
    BY Zenon
  <1> DEFINE e == endpoints
             D == DOMAIN endpoints.entries
  <1>1. TableOK(e) /\ Told(e) /\ sent \in Seq(Frames)
    BY Zenon DEF ReturnInv
  <1>2. /\ D \subseteq Addresses /\ IsFiniteSet(D) /\ e.entries \in [D -> EntryTypes]
        /\ e.fresh \subseteq D /\ e.policy_sequences \in [Paths -> Nat] /\ e.selective \in BOOLEAN
        /\ Cardinality(D) <= CAPACITY
    BY Zenon, <1>1, TableFields
  <1>3. Ordered(D, e.older)
    BY Zenon, <1>1 DEF TableOK
  <1>4. TypeOK
    <2>1. e.policy_sequences \in [Paths -> 0..Len(sent)]
      BY <1>1, <1>2 DEF Told
    <2> QED BY Zenon, <1>2, <2>1 DEF TypeOK, EntryTypes, ReturnInv
  <1>5. TableWellFormed
    BY Zenon, <1>2, <1>3 DEF TableWellFormed, Ordered
  <1>6. ASSUME NEW p \in Paths PROVE Cardinality(Entries(p)) <= 1
    <2>1. \A a, b \in Entries(p) : a = b
      BY Zenon, <1>1, ReturnAssumption DEF Entries, TableOK, OneEach
    <2>2. CASE Entries(p) = {}
      BY <2>2, FS_EmptySet
    <2>3. CASE Entries(p) # {}
      <3>1. PICK a : Entries(p) = {a}
        BY Zenon, <2>1, <2>3
      <3>2. Cardinality(Entries(p)) = 1
        BY ZenonT(60), <3>1, FS_Singleton
      <3> QED BY <3>2
    <2> QED BY Zenon, <2>2, <2>3
  <1>7. ASSUME NEW p \in Paths, NEW a \in Entries(p)
        PROVE  LET n == e.policy_sequences[p] IN
               /\ n > 0 /\ sent[n].kind = "policy" /\ sent[n].path = p
               /\ a \in sent[n].from
               /\ e.entries[a].policy.selected = sent[n].selected
               /\ e.entries[a].healthy = sent[n].healthy
    BY Zenon, <1>1, <1>7 DEF Told, Entries
  <1>8. EntryIsNewestAnnouncement
    BY Zenon, <1>4, <1>5, <1>6, <1>7 DEF EntryIsNewestAnnouncement
  <1>9. D # {} => \E a \in D : Newest(e) = {a}
    <2> SUFFICES ASSUME D # {} PROVE \E a \in D : Newest(e) = {a}
      BY Zenon
    <2>1. PICK a \in D : e.older[a] = D \ {a}
      BY Zenon, <1>2, <1>3, OrderEnds
    <2>2. ASSUME NEW b \in D, b # a, e.older[b] = D \ {b} PROVE FALSE
      <3>1. b \in e.older[a] /\ a \in e.older[b]
        BY Zenon, <2>1, <2>2
      <3>2. a \in e.older[a]
        BY Zenon, <1>3, <3>1 DEF Ordered
      <3> QED BY Zenon, <2>1, <3>2
    <2> QED BY Zenon, <2>1, <2>2 DEF Newest
  <1>10. HaveSomewhereToGo
    <2> SUFFICES ASSUME D # {}
                 PROVE  /\ targets(e) # {}
                        /\ e.selective => repair_target(e) # {}
                        /\ e.selective /\ (\A a \in D : ~e.entries[a].policy.selected)
                             => Cardinality(targets(e)) = 1
      BY Zenon DEF HaveSomewhereToGo
    <2>1. targets(e) # {}
      BY Zenon, <1>9 DEF targets
    <2>2. e.selective => repair_target(e) # {}
      BY Zenon, <2>1 DEF repair_target
    <2>3. ASSUME e.selective, \A a \in D : ~e.entries[a].policy.selected
          PROVE  Cardinality(targets(e)) = 1
      <3>1. Selected(e) = {}
        BY Zenon, <2>3 DEF Selected
      <3>2. PICK a \in D : targets(e) = {a}
        BY Zenon, <1>9, <3>1 DEF targets
      <3> QED BY Zenon, <3>2, FS_Singleton
    <2> QED BY Zenon, <2>1, <2>2, <2>3
  <1>11. ASSUME \A p \in Paths : UpToDate(p)
         PROVE  targets(e) = {address[p] : p \in Carrying}
    <2>1. Carrying \subseteq Paths /\ Carrying # {}
      BY Zenon DEF ReturnInv, Carrying, selected_paths
    <2>2. \A p \in Paths : /\ e.policy_sequences[p] > 0 /\ Entries(p) # {}
                           /\ sent[e.policy_sequences[p]].from = {address[p]}
                           /\ sent[e.policy_sequences[p]].selected = (p \in Carrying)
      BY Zenon, <1>11 DEF UpToDate
    <2>3. e.selective
      BY ZenonT(60), <1>1, <2>1, <2>2 DEF Told
    <2>4. ASSUME NEW p \in Paths, NEW a \in Entries(p)
          PROVE  a = address[p] /\ e.entries[a].policy.selected = (p \in Carrying) /\ a \in D
      BY <1>7, <2>2, <2>4 DEF Entries
    <2>5. ASSUME NEW a \in Selected(e) PROVE \E p \in Carrying : a = address[p]
      <3>1. a \in D /\ e.entries[a].policy.selected /\ e.entries[a] \in EntryTypes
        BY Zenon, <1>2, <2>3, <2>5 DEF Selected
      <3>2. e.entries[a].policy.path \in Paths
        BY <3>1 DEF EntryTypes, Policies, NoPolicy
      <3>3. a \in Entries(e.entries[a].policy.path)
        BY Zenon, <3>1 DEF Entries
      <3> QED BY Zenon, <2>4, <3>1, <3>2, <3>3
    <2>6. ASSUME NEW p \in Carrying PROVE address[p] \in Selected(e)
      <3>1. PICK a : a \in Entries(p)
        BY Zenon, <2>1, <2>2
      <3> QED BY Zenon, <2>1, <2>4, <3>1 DEF Selected
    <2>7. Selected(e) = {address[p] : p \in Carrying}
      BY Zenon, <2>5, <2>6
    <2>8. Selected(e) # {}
      BY Zenon, <2>1, <2>6
    <2> QED BY Zenon, <2>7, <2>8 DEF targets
  <1> QED BY Zenon, <1>8, <1>10, <1>11 DEF RepliesFollowTheClient

(* For any paths, addresses and capacity, and whatever of what was sent is *)
(* lost, late or repeated: a path has at most one return address, the one  *)
(* its newest applied announcement came from; a relay that knows an        *)
(* address has somewhere to send replies and repairs, and one place only   *)
(* while nothing is selected; and once each path's last announcement is    *)
(* applied, replies go to exactly the carrying paths (Endpoints::apply,    *)
(* observe, targets and repair_target).                                    *)
THEOREM RepliesAlwaysFollowTheClient == Spec => []RepliesFollowTheClient
  <1>1. Init => ReturnInv
    BY Zenon, ReturnInit
  <1>2. ReturnInv /\ [Next]_vars => ReturnInv'
    BY Zenon, ReturnNext
  <1>3. ReturnInv => RepliesFollowTheClient
    BY Zenon, ReturnInvSuffices
  <1> QED BY <1>1, <1>2, <1>3, PTL DEF Spec

-----------------------------------------------------------------------------
(***************************************************************************)
(* The enrolled clients (RelayRegistry).  With every command under the     *)
(* lock one command at a time is past its start, so what it read is still  *)
(* so when it acts on it; and a record leaves the disk only after its      *)
(* address is reserved, so every address ever given is held by a record or *)
(* reserved.                                                               *)
(***************************************************************************)
Enrolled == [id : 1 .. drawn, address : Subnet]

OneAtATime == \A a \in Admins : pc[a] # "idle" => lock = a
GivenIsKept == \A r \in given : r \in Records \/ r.address \in reserved
ReadIsCurrent ==
  \A a \in Admins :
    /\ pc[a] = "has records" => loc[a].files = Records /\ drawn < MaxClients
    /\ pc[a] = "chose" => loc[a].client \in Enrolled /\ loc[a].client.address \notin AddressesOf(given)
    /\ pc[a] \in {"published", "revoking", "reserved"} => loc[a].client \in given
    /\ pc[a] = "reserved" => loc[a].client.address \in reserved
OneOwner == \A r, s \in given : r.address = s.address => r = s

RegistryInv ==
  /\ RegistryTypeOK /\ OneAtATime /\ GivenIsKept /\ ReadIsCurrent /\ OneOwner
  /\ Records \subseteq given /\ given \subseteq Enrolled
  /\ tokens \subseteq {r.id : r \in given}

(* What the relay does reads the disk and changes nothing on it. *)
LEMMA RelayReads ==
    ASSUME RegistryInv, UNCHANGED <<disk, pc, loc, lock, drawn>>, RegistryTypeOK'
    PROVE  RegistryInv'
  <1>1. Records' = Records /\ Enrolled' = Enrolled
    BY Zenon DEF disk, Records, Enrolled
  <1> QED BY Zenon, <1>1 DEF RegistryInv, disk, OneAtATime, GivenIsKept, ReadIsCurrent, OneOwner

LEMMA RelayTypes ==
    ASSUME RegistryInv,
           ReloadLists \/ ReloadOpens \/ ReloadApplies \/ SessionStarts \/ RelayStarts \/ RelayStops
    PROVE  RegistryTypeOK' /\ UNCHANGED <<disk, pc, loc, lock, drawn>>
  <1>1. UNCHANGED <<disk, pc, loc, lock, drawn>>
    BY Zenon DEF ReloadLists, ReloadOpens, ReloadApplies, SessionStarts, RelayStarts, RelayStops
  <1>2. RegistryTypeOK /\ Records' = Records
    BY Zenon, <1>1 DEF RegistryInv, disk, Records
  <1>3. /\ active' \subseteq Clients /\ speaking' \subseteq {r.id : r \in active'}
        /\ reload' \in [busy : BOOLEAN, todo : SUBSET Names, got : SUBSET Clients]
        /\ up' \in BOOLEAN /\ crashes' \in 0 .. MaxCrashes
    <2>1. NotReloading \in [busy : BOOLEAN, todo : SUBSET Names, got : SUBSET Clients]
      BY Zenon DEF NotReloading
    <2>2. CASE ReloadLists
      BY Zenon, <1>2, <2>2 DEF ReloadLists, RegistryTypeOK
    <2>3. CASE ReloadOpens
      <3>1. PICK n \in reload.todo :
              reload' = IF n \in DOMAIN files
                        THEN [busy |-> TRUE, todo |-> reload.todo \ {n}, got |-> reload.got \cup {files[n]}]
                        ELSE NotReloading
        BY Zenon, <2>3 DEF ReloadOpens
      <3>2. n \in DOMAIN files => files[n] \in Clients
        BY Zenon, <1>2 DEF RegistryTypeOK, Records
      <3>3. reload' \in [busy : BOOLEAN, todo : SUBSET Names, got : SUBSET Clients]
        BY Zenon, <1>2, <2>1, <3>1, <3>2 DEF RegistryTypeOK
      <3> QED BY Zenon, <1>2, <2>3, <3>3 DEF ReloadOpens, RegistryTypeOK
    <2>4. CASE ReloadApplies
      <3>1. reload.got \subseteq Clients
        BY Zenon, <1>2 DEF RegistryTypeOK
      <3>2. reload' = NotReloading /\ up' = up /\ crashes' = crashes
        BY Zenon, <2>4 DEF ReloadApplies
      <3>3. active' \subseteq Clients /\ speaking' \subseteq {r.id : r \in active'}
        <4>1. CASE reconcile_clients(reload.got)
          BY Zenon, <3>1, <4>1 DEF reconcile_clients
        <4>2. CASE UNCHANGED <<active, speaking>>
          BY Zenon, <1>2, <4>2 DEF RegistryTypeOK
        <4> QED BY Zenon, <2>4, <4>1, <4>2 DEF ReloadApplies
      <3> QED BY Zenon, <1>2, <2>1, <3>2, <3>3 DEF RegistryTypeOK
    <2>5. CASE SessionStarts
      BY Zenon, <1>2, <2>5 DEF SessionStarts, RegistryTypeOK
    <2>6. CASE RelayStarts
      BY Zenon, <1>2, <2>1, <2>6 DEF RelayStarts, RegistryTypeOK
    <2>7. CASE RelayStops
      <3>1. /\ crashes < MaxCrashes /\ crashes' = crashes + 1 /\ up' = FALSE
            /\ active' = {} /\ speaking' = {} /\ reload' = NotReloading
        BY Zenon, <2>7 DEF RelayStops
      <3>2. crashes' \in 0 .. MaxCrashes
        <4>1. crashes \in 0 .. MaxCrashes
          BY Zenon, <1>2 DEF RegistryTypeOK
        <4> QED BY <3>1, <4>1, RegistryConstants
      <3> QED BY Zenon, <2>1, <3>1, <3>2
    <2> QED BY Zenon, <2>2, <2>3, <2>4, <2>5, <2>6, <2>7
  <1> QED BY Zenon, <1>1, <1>2, <1>3 DEF RegistryTypeOK, disk

(* A command that starts has the lock to itself. *)
LEMMA StartsAlone ==
    ASSUME RegistryInv, Unlocked \cap Admins = {}, NEW a \in Admins, Takes(a)
    PROVE  lock' = a /\ \A b \in Admins : pc[b] = "idle"
  BY Zenon, RegistryConstants DEF Takes, RegistryInv, OneAtATime

(* A command that has started is the only one that has. *)
LEMMA RunsAlone ==
    ASSUME RegistryInv, NEW a \in Admins, pc[a] # "idle"
    PROVE  lock = a /\ \A b \in Admins : b # a => pc[b] = "idle"
  BY Zenon DEF RegistryInv, OneAtATime

(* What holds after a step of command a is what holds of a. *)
LEMMA OnlyItself ==
    ASSUME NEW a \in Admins, \A b \in Admins : b # a => pc'[b] = "idle",
           /\ pc'[a] # "idle" => lock' = a
           /\ pc'[a] = "has records" => loc'[a].files = Records' /\ drawn' < MaxClients
           /\ pc'[a] = "chose" => /\ loc'[a].client \in Enrolled'
                                  /\ loc'[a].client.address \notin AddressesOf(given')
           /\ pc'[a] \in {"published", "revoking", "reserved"} => loc'[a].client \in given'
           /\ pc'[a] = "reserved" => loc'[a].client.address \in reserved'
    PROVE  OneAtATime' /\ ReadIsCurrent'
  <1>1. \A R : AddressesOf(R)' = AddressesOf(R)
    BY Zenon DEF AddressesOf
  <1> QED BY Zenon, <1>1 DEF OneAtATime, ReadIsCurrent, AddressesOf

(* A command ends: others are idle already. *)
LEMMA EndsFacts ==
    ASSUME RegistryInv, NEW a \in Admins, pc[a] # "idle", Ends(a)
    PROVE  /\ pc' \in [Admins -> {"idle", "has records", "chose", "published", "revoking", "reserved"}]
           /\ loc' \in [Admins -> [files : SUBSET Clients, client : Clients]]
           /\ lock' \in Admins \cup {NoOne}
           /\ \A b \in Admins : pc'[b] = "idle"
  <1>1. Nothing \in [files : SUBSET Clients, client : Clients]
    BY RegistryConstants DEF Nothing, NoRecord, Clients
  <1>2. RegistryTypeOK
    BY Zenon DEF RegistryInv
  <1>3. \A b \in Admins : b # a => pc[b] = "idle"
    BY Zenon, RunsAlone
  <1> QED BY Zenon, <1>1, <1>2, <1>3 DEF Ends, RegistryTypeOK

LEMMA EnrollReadsStep ==
    ASSUME RegistryInv, Unlocked \cap Admins = {}, NEW a \in Admins, EnrollReads(a)
    PROVE  RegistryInv'
  <1>1. /\ lock' = a /\ (\A b \in Admins : pc[b] = "idle")
        /\ UNCHANGED <<disk, relay, drawn, crashes>> /\ drawn < MaxClients
        /\ pc' = [pc EXCEPT ![a] = "has records"] /\ loc' = [loc EXCEPT ![a].files = Records]
    BY Zenon, StartsAlone DEF EnrollReads
  <1>2. RegistryTypeOK /\ Records \subseteq Clients /\ Records' = Records /\ Enrolled' = Enrolled
    <2>1. files' = files /\ drawn' = drawn
      BY Zenon, <1>1 DEF disk
    <2>2. RegistryTypeOK /\ Records \subseteq Clients
      BY Zenon DEF RegistryInv, RegistryTypeOK
    <2>3. Records' = Records
      BY Zenon, <2>1 DEF Records
    <2>4. Enrolled' = Enrolled
      BY Zenon, <2>1 DEF Enrolled
    <2> QED BY Zenon, <2>2, <2>3, <2>4
  <1>3. /\ loc' \in [Admins -> [files : SUBSET Clients, client : Clients]] /\ loc'[a].files = Records
    BY Zenon, <1>1, <1>2 DEF RegistryTypeOK
  <1>4. /\ pc' \in [Admins -> {"idle", "has records", "chose", "published", "revoking", "reserved"}]
        /\ pc'[a] = "has records" /\ \A b \in Admins : b # a => pc'[b] = "idle"
    BY Zenon, <1>1, <1>2 DEF RegistryTypeOK
  <1>5. RegistryTypeOK'
    BY Zenon, <1>1, <1>2, <1>3, <1>4 DEF RegistryTypeOK, disk, relay
  <1>6. OneAtATime' /\ ReadIsCurrent'
    BY Zenon, <1>1, <1>2, <1>3, <1>4, OnlyItself
  <1> QED BY Zenon, <1>1, <1>2, <1>5, <1>6 DEF RegistryInv, GivenIsKept, OneOwner, disk

LEMMA EnrollChoosesStep ==
    ASSUME RegistryInv, NEW a \in Admins, EnrollChooses(a)
    PROVE  RegistryInv'
  <1>1. /\ pc[a] = "has records" /\ UNCHANGED <<disk, relay, crashes>> /\ lock = a
        /\ \A b \in Admins : b # a => pc[b] = "idle"
    BY ZenonT(60), RunsAlone DEF EnrollChooses
  <1>2. /\ RegistryTypeOK /\ Records' = Records /\ loc[a].files = Records /\ drawn \in 0 .. MaxClients
        /\ given \subseteq Enrolled
    BY ZenonT(60), <1>1 DEF RegistryInv, RegistryTypeOK, ReadIsCurrent, Records, disk
  <1>3. CASE Ends(a) /\ UNCHANGED drawn
    <2>1. /\ pc' \in [Admins -> {"idle", "has records", "chose", "published", "revoking", "reserved"}]
          /\ loc' \in [Admins -> [files : SUBSET Clients, client : Clients]]
          /\ lock' \in Admins \cup {NoOne}
          /\ \A b \in Admins : pc'[b] = "idle"
      BY Zenon, <1>1, <1>3, EndsFacts
    <2>2. RegistryTypeOK' /\ Enrolled' = Enrolled
      BY Zenon, <1>1, <1>2, <1>3, <2>1 DEF RegistryTypeOK, disk, relay, Enrolled
    <2>3. OneAtATime' /\ ReadIsCurrent'
      BY Zenon, <2>1, OnlyItself
    <2> QED BY Zenon, <1>1, <1>2, <2>2, <2>3 DEF RegistryInv, GivenIsKept, OneOwner, disk
  <1>4. CASE \E ip \in next_virtual_ip(loc[a].files) :
               /\ Continues(a, "has records", "chose") /\ drawn' = drawn + 1
               /\ loc' = [loc EXCEPT ![a].client = [id |-> drawn', address |-> ip]]
    <2>1. PICK ip \in next_virtual_ip(loc[a].files) :
               /\ Continues(a, "has records", "chose") /\ drawn' = drawn + 1
               /\ loc' = [loc EXCEPT ![a].client = [id |-> drawn', address |-> ip]]
      BY Zenon, <1>4
    <2> DEFINE c == [id |-> drawn + 1, address |-> ip]
    <2>2. drawn + 1 \in 1 .. MaxClients
      <3>1. drawn < MaxClients
        BY Zenon, <1>1 DEF RegistryInv, ReadIsCurrent
      <3> QED BY <1>2, <3>1, RegistryConstants
    <2>3. ip \in Subnet /\ ip \notin AddressesOf(given)
      <3>1. ip \in Subnet /\ ip \notin AddressesOf(Records) /\ ip \notin reserved
        BY Zenon, <1>2, <2>1 DEF next_virtual_ip
      <3> QED BY Zenon, <3>1 DEF RegistryInv, GivenIsKept, AddressesOf
    <2>4. c \in Enrolled' /\ c \in Clients /\ c.address = ip
      <3>1. drawn + 1 \in 1 .. (drawn + 1) /\ drawn + 1 \in 0 .. MaxClients
        BY <1>2, <2>2
      <3> QED BY Zenon, <2>1, <2>3, <3>1 DEF Enrolled, Clients
    <2>5. loc' = [loc EXCEPT ![a].client = c]
      BY Zenon, <2>1
    <2> HIDE DEF c
    <2>6. loc' \in [Admins -> [files : SUBSET Clients, client : Clients]] /\ loc'[a].client = c
      <3>1. loc \in [Admins -> [files : SUBSET Clients, client : Clients]]
        BY ZenonT(60), <1>2 DEF RegistryTypeOK
      <3>2. [loc[a] EXCEPT !.client = c] \in [files : SUBSET Clients, client : Clients]
        BY Zenon, <2>4, <3>1
      <3>3. loc' = [loc EXCEPT ![a] = [loc[a] EXCEPT !.client = c]]
        BY Zenon, <2>5, <3>1
      <3> QED BY ZenonT(60), <3>1, <3>2, <3>3
    <2>7. /\ pc' \in [Admins -> {"idle", "has records", "chose", "published", "revoking", "reserved"}]
          /\ pc'[a] = "chose" /\ (\A b \in Admins : b # a => pc'[b] = "idle") /\ lock' = a
      BY Zenon, <1>1, <1>2, <2>1 DEF RegistryTypeOK, Continues
    <2>8. drawn' \in 0 .. MaxClients /\ given' \subseteq Enrolled'
      <3>1. 1 .. drawn \subseteq 1 .. (drawn + 1) /\ drawn' = drawn + 1 /\ given' = given
        <4>1. drawn' = drawn + 1 /\ given' = given
          BY Zenon, <1>1, <2>1 DEF disk
        <4> QED BY <1>2, <4>1
      <3>2. Enrolled \subseteq Enrolled'
        BY Zenon, <3>1 DEF Enrolled
      <3> QED BY <1>2, <2>2, <3>1, <3>2
    <2>9. RegistryTypeOK'
      BY ZenonT(60), <1>1, <1>2, <2>6, <2>7, <2>8 DEF RegistryTypeOK, disk, relay
    <2>10. OneAtATime' /\ ReadIsCurrent'
      <3>1. given' = given
        BY Zenon, <1>1 DEF disk
      <3> QED BY ZenonT(60), <2>3, <2>4, <2>6, <2>7, <3>1, OnlyItself
    <2> QED BY Zenon, <1>1, <1>2, <2>8, <2>9, <2>10 DEF RegistryInv, GivenIsKept, OneOwner, disk
  <1> QED BY Zenon, <1>3, <1>4 DEF EnrollChooses

LEMMA EnrollPublishesStep ==
    ASSUME RegistryInv, NEW a \in Admins, EnrollPublishes(a)
    PROVE  RegistryInv'
  <1> DEFINE c == loc[a].client
  <1>1. /\ pc[a] = "chose" /\ UNCHANGED <<reserved, tokens, relay, drawn, crashes>> /\ lock = a
        /\ \A b \in Admins : b # a => pc[b] = "idle"
    BY Zenon, RunsAlone DEF EnrollPublishes
  <1>2. /\ RegistryTypeOK /\ c \in Enrolled /\ c \in Clients /\ c.address \notin AddressesOf(given)
        /\ given \subseteq Enrolled /\ Enrolled' = Enrolled /\ Records \subseteq given
    BY ZenonT(60), <1>1 DEF RegistryInv, RegistryTypeOK, ReadIsCurrent, Enrolled
  <1>3. CASE Ends(a) /\ UNCHANGED <<files, given>>
    <2>1. /\ pc' \in [Admins -> {"idle", "has records", "chose", "published", "revoking", "reserved"}]
          /\ loc' \in [Admins -> [files : SUBSET Clients, client : Clients]]
          /\ lock' \in Admins \cup {NoOne}
          /\ \A b \in Admins : pc'[b] = "idle"
      BY Zenon, <1>1, <1>3, EndsFacts
    <2>2. Records' = Records
      BY ZenonT(60), <1>3 DEF Records
    <2>3. RegistryTypeOK'
      BY ZenonT(60), <1>1, <1>2, <1>3, <2>1, <2>2 DEF RegistryTypeOK, relay
    <2>4. OneAtATime' /\ ReadIsCurrent'
      BY Zenon, <2>1, OnlyItself
    <2> QED BY ZenonT(60), <1>1, <1>2, <1>3, <2>2, <2>3, <2>4 DEF RegistryInv, GivenIsKept, OneOwner
  <1>4. ASSUME NEW n \in Names, n \notin DOMAIN files,
               files' = [m \in DOMAIN files \cup {n} |-> IF m = n THEN c ELSE files[m]],
               given' = given \cup {c}, Continues(a, "chose", "published"), UNCHANGED loc
        PROVE  RegistryInv'
    <2>1. Records' = Records \cup {c} /\ DOMAIN files' = DOMAIN files \cup {n}
      <3> HIDE DEF c
      <3> QED BY Zenon, <1>4 DEF Records
    <2> HIDE DEF c
    <2>2. /\ pc' \in [Admins -> {"idle", "has records", "chose", "published", "revoking", "reserved"}]
          /\ pc'[a] = "published" /\ (\A b \in Admins : b # a => pc'[b] = "idle") /\ lock' = a
      BY Zenon, <1>1, <1>2, <1>4 DEF RegistryTypeOK, Continues
    <2>3. RegistryTypeOK'
      BY Zenon, <1>1, <1>2, <1>4, <2>1, <2>2 DEF RegistryTypeOK, relay
    <2>4. OneAtATime' /\ ReadIsCurrent'
      <3>1. loc'[a].client = c
        BY Zenon, <1>4 DEF c
      <3> QED BY Zenon, <1>4, <2>2, <3>1, OnlyItself
    <2>5. OneOwner'
      <3>1. \A r \in given : r.address # c.address
        BY Zenon, <1>2 DEF AddressesOf
      <3> QED BY Zenon, <1>4, <3>1 DEF RegistryInv, OneOwner
    <2>6. GivenIsKept'
      BY Zenon, <1>1, <1>4, <2>1 DEF RegistryInv, GivenIsKept
    <2>7. tokens' \subseteq {r.id : r \in given'}
      BY Zenon, <1>1, <1>4 DEF RegistryInv
    <2>8. Records' \subseteq given' /\ given' \subseteq Enrolled'
      BY Zenon, <1>2, <1>4, <2>1
    <2> QED BY ZenonT(60), <2>3, <2>4, <2>5, <2>6, <2>7, <2>8 DEF RegistryInv
  <1> QED BY Zenon, <1>3, <1>4 DEF EnrollPublishes

LEMMA EnrollHandsOverStep ==
    ASSUME RegistryInv, NEW a \in Admins, EnrollHandsOver(a)
    PROVE  RegistryInv'
  <1>1. /\ pc[a] = "published" /\ UNCHANGED <<files, reserved, given, relay, drawn, crashes>> /\ Ends(a)
        /\ tokens' = tokens \cup {loc[a].client.id}
    BY Zenon DEF EnrollHandsOver
  <1>2. /\ RegistryTypeOK /\ loc[a].client \in given /\ loc[a].client.id \in 1 .. MaxClients
    <2>1. RegistryTypeOK /\ loc[a].client \in given /\ loc[a].client \in Enrolled
      BY Zenon, <1>1 DEF RegistryInv, ReadIsCurrent
    <2>2. loc[a].client.id \in 1 .. drawn /\ drawn \in 0 .. MaxClients
      BY Zenon, <2>1 DEF Enrolled, RegistryTypeOK
    <2> QED BY <2>1, <2>2, RegistryConstants
  <1>3. /\ pc' \in [Admins -> {"idle", "has records", "chose", "published", "revoking", "reserved"}]
        /\ loc' \in [Admins -> [files : SUBSET Clients, client : Clients]]
        /\ lock' \in Admins \cup {NoOne}
        /\ \A b \in Admins : pc'[b] = "idle"
    BY Zenon, <1>1, EndsFacts
  <1>4. Records' = Records /\ Enrolled' = Enrolled
    BY ZenonT(60), <1>1 DEF Records, Enrolled
  <1>5. RegistryTypeOK'
    BY Zenon, <1>1, <1>2, <1>3, <1>4 DEF RegistryTypeOK, relay
  <1>6. OneAtATime' /\ ReadIsCurrent'
    BY Zenon, <1>3, OnlyItself
  <1>7. tokens' \subseteq {r.id : r \in given'}
    BY Zenon, <1>1, <1>2 DEF RegistryInv
  <1> QED BY Zenon, <1>1, <1>4, <1>5, <1>6, <1>7 DEF RegistryInv, GivenIsKept, OneOwner

LEMMA RevokeStep ==
    ASSUME RegistryInv, Unlocked \cap Admins = {}, NEW a \in Admins,
           RevokeReads(a) \/ RevokeReserves(a)
    PROVE  RegistryInv'
  <1>1. /\ UNCHANGED <<files, tokens, given, relay, drawn, crashes>>
        /\ RegistryTypeOK /\ Records \subseteq given /\ given \subseteq Enrolled /\ given \subseteq Clients
    BY Zenon DEF RevokeReads, RevokeReserves, RegistryInv, RegistryTypeOK, disk
  <1>2. Records' = Records /\ Enrolled' = Enrolled
    BY Zenon, <1>1 DEF Records, Enrolled
  <1>3. CASE RevokeReads(a)
    <2>1. /\ lock' = a /\ (\A b \in Admins : pc[b] = "idle") /\ reserved' = reserved
          /\ pc' = [pc EXCEPT ![a] = "revoking"]
      BY Zenon, <1>3, StartsAlone DEF RevokeReads, disk
    <2>2. PICK r \in Records : loc' = [loc EXCEPT ![a].client = r]
      BY Zenon, <1>3 DEF RevokeReads
    <2>3. loc' \in [Admins -> [files : SUBSET Clients, client : Clients]] /\ loc'[a].client = r
      <3>1. loc \in [Admins -> [files : SUBSET Clients, client : Clients]] /\ r \in Clients
        BY Zenon, <1>1 DEF RegistryTypeOK
      <3>2. [loc[a] EXCEPT !.client = r] \in [files : SUBSET Clients, client : Clients]
        BY Zenon, <3>1
      <3>3. loc' = [loc EXCEPT ![a] = [loc[a] EXCEPT !.client = r]]
        BY Zenon, <2>2, <3>1
      <3> QED BY Zenon, <3>1, <3>2, <3>3
    <2>4. /\ pc' \in [Admins -> {"idle", "has records", "chose", "published", "revoking", "reserved"}]
          /\ pc'[a] = "revoking" /\ (\A b \in Admins : b # a => pc'[b] = "idle")
      BY Zenon, <1>1, <2>1 DEF RegistryTypeOK
    <2>5. RegistryTypeOK'
      BY Zenon, <1>1, <1>2, <2>1, <2>3, <2>4 DEF RegistryTypeOK, relay
    <2>6. OneAtATime' /\ ReadIsCurrent'
      BY Zenon, <1>1, <2>1, <2>2, <2>3, <2>4, OnlyItself
    <2> QED BY Zenon, <1>1, <1>2, <2>1, <2>5, <2>6 DEF RegistryInv, GivenIsKept, OneOwner
  <1>4. CASE RevokeReserves(a)
    <2>1. /\ pc[a] = "revoking" /\ pc' = [pc EXCEPT ![a] = "reserved"] /\ UNCHANGED <<lock, loc>>
          /\ reserved' = reserved \cup {loc[a].client.address}
      BY Zenon, <1>4 DEF RevokeReserves, Continues
    <2>2. lock = a /\ (\A b \in Admins : b # a => pc[b] = "idle") /\ loc[a].client \in given
      BY Zenon, <2>1, RunsAlone DEF RegistryInv, ReadIsCurrent
    <2>3. loc[a].client.address \in Subnet
      BY ZenonT(60), <1>1, <2>2 DEF Enrolled
    <2>4. /\ pc' \in [Admins -> {"idle", "has records", "chose", "published", "revoking", "reserved"}]
          /\ pc'[a] = "reserved" /\ (\A b \in Admins : b # a => pc'[b] = "idle")
      BY Zenon, <1>1, <2>1, <2>2 DEF RegistryTypeOK
    <2>5. RegistryTypeOK'
      BY Zenon, <1>1, <1>2, <2>1, <2>3, <2>4 DEF RegistryTypeOK, relay
    <2>6. OneAtATime' /\ ReadIsCurrent'
      BY Zenon, <1>1, <2>1, <2>2, <2>4, OnlyItself
    <2>7. GivenIsKept'
      BY Zenon, <1>1, <1>2, <2>1 DEF RegistryInv, GivenIsKept
    <2> QED BY Zenon, <1>1, <1>2, <2>5, <2>6, <2>7 DEF RegistryInv, OneOwner
  <1> QED BY Zenon, <1>3, <1>4

LEMMA RevokeRemovesStep ==
    ASSUME RegistryInv, NEW a \in Admins, RevokeRemoves(a)
    PROVE  RegistryInv'
  <1> DEFINE c == loc[a].client
  <1>1. /\ pc[a] = "reserved" /\ UNCHANGED <<reserved, tokens, given, relay, drawn, crashes>> /\ Ends(a)
        /\ files' = [n \in {m \in DOMAIN files : files[m] # c} |-> files[n]]
    BY Zenon DEF RevokeRemoves
  <1>2. RegistryTypeOK /\ c \in given /\ c.address \in reserved
    BY Zenon, <1>1 DEF RegistryInv, ReadIsCurrent
  <1> HIDE DEF c
  <1>3. /\ pc' \in [Admins -> {"idle", "has records", "chose", "published", "revoking", "reserved"}]
        /\ loc' \in [Admins -> [files : SUBSET Clients, client : Clients]]
        /\ lock' \in Admins \cup {NoOne}
        /\ \A b \in Admins : pc'[b] = "idle"
    BY Zenon, <1>1, EndsFacts
  <1>4. Records' = Records \ {c} /\ DOMAIN files' \subseteq DOMAIN files
    BY Zenon, <1>1 DEF Records
  <1>5. Enrolled' = Enrolled
    BY ZenonT(60), <1>1 DEF Enrolled
  <1>6. RegistryTypeOK'
    BY Zenon, <1>1, <1>2, <1>3, <1>4 DEF RegistryTypeOK, relay
  <1>7. OneAtATime' /\ ReadIsCurrent'
    BY Zenon, <1>3, OnlyItself
  <1>8. GivenIsKept'
    BY Zenon, <1>1, <1>2, <1>4 DEF RegistryInv, GivenIsKept
  <1> QED BY Zenon, <1>1, <1>4, <1>5, <1>6, <1>7, <1>8 DEF RegistryInv, OneOwner

LEMMA CrashStep ==
    ASSUME RegistryInv, NEW a \in Admins, Crash(a)
    PROVE  RegistryInv'
  <1>1. /\ pc[a] # "idle" /\ UNCHANGED <<disk, relay, drawn>> /\ Ends(a)
        /\ crashes < MaxCrashes /\ crashes' = crashes + 1
    BY Zenon DEF Crash
  <1>2. RegistryTypeOK /\ crashes \in 0 .. MaxCrashes
    BY Zenon DEF RegistryInv, RegistryTypeOK
  <1>3. /\ pc' \in [Admins -> {"idle", "has records", "chose", "published", "revoking", "reserved"}]
        /\ loc' \in [Admins -> [files : SUBSET Clients, client : Clients]]
        /\ lock' \in Admins \cup {NoOne}
        /\ \A b \in Admins : pc'[b] = "idle"
    BY Zenon, <1>1, EndsFacts
  <1>4. Records' = Records /\ Enrolled' = Enrolled
    BY Zenon, <1>1 DEF Records, Enrolled, disk
  <1>5. crashes' \in 0 .. MaxCrashes
    BY <1>1, <1>2, RegistryConstants
  <1>6. RegistryTypeOK'
    BY Zenon, <1>1, <1>2, <1>3, <1>4, <1>5 DEF RegistryTypeOK, relay, disk
  <1>7. OneAtATime' /\ ReadIsCurrent'
    BY Zenon, <1>3, OnlyItself
  <1> QED BY Zenon, <1>1, <1>4, <1>6, <1>7 DEF RegistryInv, GivenIsKept, OneOwner, disk

LEMMA RegistryStart == RegistryInit => RegistryInv
  <1> SUFFICES ASSUME RegistryInit PROVE RegistryInv
    BY Zenon
  <1>1. DOMAIN files = {} /\ Records = {}
    BY Zenon DEF RegistryInit, Records
  <1>2. Nothing \in [files : SUBSET Clients, client : Clients]
    BY RegistryConstants DEF Nothing, NoRecord, Clients
  <1>3. NotReloading \in [busy : BOOLEAN, todo : SUBSET Names, got : SUBSET Clients]
    BY Zenon DEF NotReloading
  <1>4. drawn \in 0 .. MaxClients /\ crashes \in 0 .. MaxCrashes
    BY RegistryConstants DEF RegistryInit
  <1>5. RegistryTypeOK
    BY Zenon, <1>1, <1>2, <1>3, <1>4 DEF RegistryTypeOK, RegistryInit
  <1>6. OneAtATime /\ ReadIsCurrent
    BY Zenon DEF OneAtATime, ReadIsCurrent, RegistryInit
  <1> QED BY Zenon, <1>1, <1>5, <1>6 DEF RegistryInv, RegistryInit, GivenIsKept, OneOwner

LEMMA RegistryStep ==
    ASSUME Unlocked \cap Admins = {}, RegistryInv, [RegistryNext]_registryVars
    PROVE  RegistryInv'
  <1>1. CASE UNCHANGED registryVars
    <2>1. Records' = Records /\ Enrolled' = Enrolled
      BY Zenon, <1>1 DEF registryVars, Records, Enrolled
    <2> QED BY Zenon, <1>1, <2>1 DEF registryVars, RegistryInv, RegistryTypeOK, OneAtATime, GivenIsKept,
       ReadIsCurrent, OneOwner
  <1>2. ASSUME NEW a \in Admins, Command(a)
        PROVE  RegistryInv'
    BY Zenon, <1>2, EnrollReadsStep, EnrollChoosesStep, EnrollPublishesStep, EnrollHandsOverStep, RevokeStep,
       RevokeRemovesStep, CrashStep DEF Command
  <1>3. CASE ReloadLists \/ ReloadOpens \/ ReloadApplies \/ SessionStarts \/ RelayStarts \/ RelayStops
    BY Zenon, <1>3, RelayTypes, RelayReads
  <1> QED BY Zenon, <1>1, <1>2, <1>3 DEF RegistryNext

(* While every command takes the VPS lock, and for any administrators,     *)
(* names and addresses: an address once given to a client is never given   *)
(* to another, wherever the commands are cut off, and every token handed   *)
(* out is of a client that was enrolled (enroll, revoke).                  *)
THEOREM AddressesStayTheirs ==
    ASSUME Unlocked \cap Admins = {}
    PROVE  RegistrySpec => []AddressesAreNeverReused
  <1>1. RegistryInit => RegistryInv
    BY Zenon, RegistryStart
  <1>2. RegistryInv /\ [RegistryNext]_registryVars => RegistryInv'
    BY Zenon, RegistryStep
  <1>3. RegistryInv => AddressesAreNeverReused
    BY Zenon DEF RegistryInv, AddressesAreNeverReused, OneOwner
  <1> QED BY <1>1, <1>2, <1>3, PTL DEF RegistrySpec

(* A reload of the records never ends the sessions of a client that stays  *)
(* (reconcile_clients).                                                    *)
THEOREM StayingClientsKeepSpeaking ==
    RegistrySpec => [][up /\ up' => \A r \in active \cap active' :
                         r.id \in speaking => r.id \in speaking']_registryVars
  <1>1. ASSUME RegistryNext, up, up', NEW r \in active \cap active', r.id \in speaking
        PROVE  r.id \in speaking'
    <2>1. CASE ReloadApplies
      BY Zenon, <1>1, <2>1 DEF ReloadApplies, reconcile_clients
    <2>2. CASE SessionStarts
      BY Zenon, <1>1, <2>2 DEF SessionStarts
    <2>3. CASE RelayStarts \/ RelayStops
      BY Zenon, <1>1, <2>3 DEF RelayStarts, RelayStops
    <2>4. CASE ReloadLists \/ ReloadOpens
      BY Zenon, <1>1, <2>4 DEF ReloadLists, ReloadOpens
    <2>5. ASSUME NEW a \in Admins, Command(a) PROVE speaking' = speaking
      BY Zenon, <2>5 DEF Command, EnrollReads, EnrollChooses, EnrollPublishes, EnrollHandsOver, RevokeReads,
         RevokeReserves, RevokeRemoves, Crash, relay
    <2> QED BY Zenon, <1>1, <2>1, <2>2, <2>3, <2>4, <2>5 DEF RegistryNext
  <1>2. [RegistryNext]_registryVars =>
          [up /\ up' => \A r \in active \cap active' : r.id \in speaking => r.id \in speaking']_registryVars
    BY Zenon, <1>1
  <1> QED BY <1>2, PTL DEF RegistrySpec
=============================================================================
