--------------------------- MODULE RepairIngress ---------------------------
(***************************************************************************)
(* The receiving end of a repaired stream: the replay window, the repair   *)
(* decoder and the bounded queue behind them, all under one lock           *)
(* (engine/src/session/state.rs RelayIngress, engine/src/fec.rs Decoder).  *)
(*                                                                         *)
(* Frames arrive by several paths: each data frame and each repair may     *)
(* arrive in any order, any number of times, or never.  The bytes of the   *)
(* packet with sequence s are the set {s}, so that XOR is the symmetric    *)
(* difference and a wrongly rebuilt packet is told from the original.      *)
(* The replay window is the one of ReplayWindow; accepted is its history.  *)
(***************************************************************************)
EXTENDS ReplayWindow, FiniteSets, FiniteSetsExt, SequencesExt

CONSTANTS Groupings,         \* what the sender may have sent, see IngressInit
          RECENT_CAPACITY,   \* packets the decoder keeps (512)
          PENDING_CAPACITY,  \* repairs held back (32)
          QUEUE              \* length of the inbound queue

ASSUME IngressAssumption ==
  /\ RECENT_CAPACITY \in Nat \ {0}
  /\ PENDING_CAPACITY \in Nat \ {0} /\ QUEUE \in Nat \ {0}

VARIABLES
  groups,     \* the repairs sent: a repair's sequence |-> its members
  decoder,    \* Decoder: recent, pending, storing
  queue,      \* the inbound queue: sequence and bytes of each packet
  delivered   \* history: how often each sequence was queued
ingressVars == <<groups, window, accepted, decoder, queue, delivered>>

DataSequences == UNION {groups[r] : r \in DOMAIN groups}

-----------------------------------------------------------------------------
(* The operations work on a record of the state the lock protects.         *)

State == [window |-> window, accepted |-> accepted, decoder |-> decoder,
          queue |-> queue, delivered |-> delivered]

Missing(st, members) == {m \in members : would_accept(st.window, m)}

(* The sequence is entered in the window (and in its history).             *)
consume(st, s) ==
  [st EXCEPT !.window = accept(@, s), !.accepted = @ \cup {s}]

(* The packet joins the queue, and only then is its sequence consumed.     *)
deliver(st, s, packet) ==
  consume([st EXCEPT !.queue = Append(@, [sequence |-> s, packet |-> packet]),
                     !.delivered[s] = @ + 1], s)

(* Bytes are only kept once the peer has sent a group that needs them.     *)
remember(st, s, packet) ==
  IF ~st.decoder.storing THEN st
  ELSE [st EXCEPT !.decoder.recent[s % RECENT_CAPACITY] =
                     [sequence |-> s, packet |-> packet]]

stored(st, s) ==
  LET slot == st.decoder.recent[s % RECENT_CAPACITY]
  IN slot.sequence = s /\ slot.packet # {}

SymmetricDifference(a, b) == (a \ b) \cup (b \ a)

(* The parity of a repair with every other member's bytes taken out again. *)
rebuild(st, members, lost) ==
  FoldSet(LAMBDA m, bytes :
            SymmetricDifference(st.decoder.recent[m % RECENT_CAPACITY].packet, bytes),
          members, members \ {lost})

can_rebuild(st, members, lost) == \A m \in members \ {lost} : stored(st, m)

Full(st) == Len(st.queue) >= QUEUE

(* Hands over a rebuilt packet exactly as if it had arrived.               *)
admit_rebuilt(st, s, packet) ==
  IF ~would_accept(st.window, s) THEN st
  ELSE LET kept == remember(st, s, packet) IN
       IF Full(kept) THEN kept ELSE deliver(kept, s, packet)

(* A repair with nothing missing is dropped, with one member missing       *)
(* rebuilds it when the others are still kept, and otherwise waits, the    *)
(* oldest waiting one giving way when too many do.                         *)
resolve(st, members) ==
  LET missing == Missing(st, members)
      lost == CHOOSE m \in missing : TRUE
      room == IF Len(st.decoder.pending) >= PENDING_CAPACITY
              THEN Tail(st.decoder.pending) ELSE st.decoder.pending
  IN CASE missing = {} -> [state |-> st, rebuilt |-> FALSE]
       [] Cardinality(missing) > 1 ->
            [state |-> [st EXCEPT !.decoder.pending =
                          Append(room, [members |-> members, late |-> FALSE])],
             rebuilt |-> FALSE]
       [] OTHER ->
            IF can_rebuild(st, members, lost)
            THEN [state |-> admit_rebuilt(st, lost, rebuild(st, members, lost)),
                  rebuilt |-> TRUE]
            ELSE [state |-> st, rebuilt |-> FALSE]

swap_remove(seq, i) ==
  Front([seq EXCEPT ![i] = Last(seq)])

(* One turn of the retry loop: repairs held too long or left with nothing  *)
(* to do go, then the first one with a single member missing is resolved.  *)
RetryOnce(step) ==
  LET st == step.state
      held == SelectSeq(st.decoder.pending, LAMBDA r :
                /\ ~r.late \/ Missing(st, r.members) = {}
                /\ Missing(st, r.members) # {})
      ready == {i \in DOMAIN held : Cardinality(Missing(st, held[i].members)) = 1}
      first == CHOOSE i \in ready : \A j \in ready : i <= j
  IN IF ~step.rebuilt \/ st.decoder.pending = <<>> THEN step
     ELSE IF ready = {}
     THEN [state |-> [st EXCEPT !.decoder.pending = held], rebuilt |-> FALSE]
     ELSE resolve([st EXCEPT !.decoder.pending = swap_remove(held, first)],
                  held[first].members)

(* The loop ends at the first call that rebuilds nothing; every call that  *)
(* goes on takes one repair away.                                          *)
retry_pending(st) ==
  LET turns == Len(st.decoder.pending)
      loop[n \in 0..turns] == IF n = 0 THEN [state |-> st, rebuilt |-> TRUE]
                              ELSE RetryOnce(loop[n - 1])
  IN loop[turns].state

(* Mutant: a copy is queued without asking the window.                     *)
enqueue_authenticated_unchecked(st, s) ==
  LET kept == remember(st, s, {s}) IN
  IF Full(kept) THEN kept
  ELSE retry_pending(deliver(kept, s, {s}))

(* A data frame: the packet is queued first and its sequence consumed      *)
(* after, then the repairs waiting for it are looked at again.             *)
enqueue_authenticated(st, s) ==
  IF ~would_accept(st.window, s) THEN st
  ELSE LET kept == remember(st, s, {s}) IN
       IF Full(kept) THEN kept ELSE retry_pending(deliver(kept, s, {s}))

enqueue_repair(st, r) ==
  IF ~would_accept(st.window, r) THEN st
  ELSE LET taken == [consume(st, r) EXCEPT
                       !.decoder.storing = @ \/ Cardinality(groups[r]) > 1]
       IN retry_pending(resolve(taken, groups[r]).state)

Becomes(st) ==
  /\ window' = st.window /\ accepted' = st.accepted /\ decoder' = st.decoder
  /\ queue' = st.queue /\ delivered' = st.delivered

-----------------------------------------------------------------------------

IngressInit ==
  /\ groups \in Groupings
  /\ window = EmptyWindow /\ accepted = {} /\ queue = <<>>
  /\ decoder = [recent |-> [i \in 0..(RECENT_CAPACITY - 1) |->
                              [sequence |-> 0, packet |-> {}]],
                pending |-> <<>>, storing |-> FALSE]
  /\ delivered = [s \in DataSequences |-> 0]

ReceiveData(s) ==
  /\ Becomes(enqueue_authenticated(State, s))
  /\ UNCHANGED groups

ReceiveRepair(r) ==
  /\ Becomes(enqueue_repair(State, r))
  /\ UNCHANGED groups

(* The engine takes the next packet for the game.                          *)
receive ==
  /\ queue # <<>>
  /\ queue' = Tail(queue)
  /\ UNCHANGED <<groups, window, accepted, decoder, delivered>>

(* A waiting repair becomes older than PENDING_MAX_AGE.                    *)
PendingAges ==
  /\ \E i \in DOMAIN decoder.pending :
       /\ ~decoder.pending[i].late
       /\ decoder' = [decoder EXCEPT !.pending[i].late = TRUE]
  /\ UNCHANGED <<groups, window, accepted, queue, delivered>>

IngressNext ==
  \/ \E s \in DataSequences : ReceiveData(s)
  \/ \E r \in DOMAIN groups : ReceiveRepair(r)
  \/ receive
  \/ PendingAges

IngressSpec == IngressInit /\ [][IngressNext]_ingressVars

-----------------------------------------------------------------------------

IngressTypeOK ==
  /\ accepted \subseteq DataSequences \cup DOMAIN groups
  /\ Len(queue) <= QUEUE /\ Len(decoder.pending) <= PENDING_CAPACITY

(* Whatever mixture of copies, repairs and rebuilt packets arrives, the    *)
(* game gets a packet at most once, and a sequence is consumed exactly     *)
(* when its packet was queued: "A full queue must not consume the          *)
(* sequence: a backup arriving after space is available can still rescue   *)
(* this packet" (state.rs, RelayIngress).  Every packet handed over has    *)
(* the bytes it was sent with, also when it was rebuilt from others whose  *)
(* slots have been used again (fec.rs).                                    *)
ConsumedIsDeliveredOnce ==
  /\ IngressTypeOK
  /\ \A s \in DataSequences : delivered[s] = IF s \in accepted THEN 1 ELSE 0
  /\ \A i \in DOMAIN queue : queue[i].packet = {queue[i].sequence}

(* Between calls no repair waits that could be used: each one that is not  *)
(* overdue still lacks two members, or its members' bytes are gone ("A     *)
(* delivery can complete a repair that was waiting", state.rs).            *)
NoReadyRepairWaits ==
  \A i \in DOMAIN decoder.pending :
    LET members == decoder.pending[i].members
        missing == Missing(State, members)
    IN \A lost \in missing :
         missing = {lost} => ~can_rebuild(State, members, lost)
=============================================================================
