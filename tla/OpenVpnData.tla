---------------------------- MODULE OpenVpnData ----------------------------
(***************************************************************************)
(* The OpenVPN data channel (engine/src/openvpn/crypto.rs, session.rs):    *)
(* packets sealed under the newest key generation, each with a number that *)
(* is also its nonce, and opened under whichever live generation sealed    *)
(* them, against a shifting replay window.  Authentication is taken as     *)
(* done: a packet offered to a generation was sealed by it.                *)
(***************************************************************************)
EXTENDS Integers, Sequences, FiniteSets, SequencesExt

CONSTANTS Keys,        \* 0..n, the key generations in the order of their use
          MAX_ID,      \* the largest packet id (2^32 - 1 in the code)
          REPLAY_BITS  \* width of the replay bitmap (64 in the code)

ASSUME DataAssumption ==
  Keys \subseteq Nat /\ MAX_ID \in Nat \ {0} /\ REPLAY_BITS \in Nat \ {0}

VARIABLES channels,  \* Session::channels, oldest first
          sealed,    \* history: the last packet id sealed, by generation
          opened,    \* history: ids accepted, by generation
          verdict    \* history: the last packet offered, by generation

dataVars == <<channels, sealed, opened, verdict>>

DataChannel(key) == [key_id |-> key, next_packet_id |-> 1, highest |-> 0, seen |-> {}]

(* `seen` holds the distances behind `highest` whose bit is set.           *)
would_accept(c, id) ==
  /\ id # 0
  /\ id <= c.highest => c.highest - id < REPLAY_BITS /\ c.highest - id \notin c.seen

(* Mutant: the bits are not moved when a newer packet arrives.             *)
accept_unshifted(c, id) ==
  IF ~would_accept(c, id) THEN c
  ELSE IF id > c.highest
  THEN [c EXCEPT !.highest = id, !.seen = @ \cup {0}]
  ELSE [c EXCEPT !.seen = @ \cup {c.highest - id}]

accept(c, id) ==
  IF ~would_accept(c, id) THEN c
  ELSE IF id > c.highest
  THEN [c EXCEPT !.highest = id,
                 !.seen = {0} \cup {d \in {b + id - c.highest : b \in @} : d < REPLAY_BITS}]
  ELSE [c EXCEPT !.seen = @ \cup {c.highest - id}]

-----------------------------------------------------------------------------

(* send_inner and keepalive seal under the newest generation; the last id  *)
(* is never used, sealing fails instead.                                   *)
Seal ==
  /\ channels # <<>>
  /\ LET n == Len(channels)
         c == channels[n]
     IN /\ c.next_packet_id < MAX_ID
        /\ channels' = [channels EXCEPT ![n].next_packet_id = @ + 1]
        /\ sealed' = [sealed EXCEPT ![c.key_id] = c.next_packet_id]
  /\ UNCHANGED <<opened, verdict>>

(* open_data: a packet of a retired generation is dropped.                 *)
OpenData(key, id) ==
  \E i \in DOMAIN channels :
    /\ channels[i].key_id = key
    /\ channels' = [channels EXCEPT ![i] = accept(@, id)]
    /\ opened' = [opened EXCEPT ![key] = IF would_accept(channels[i], id) THEN @ \cup {id} ELSE @]
    /\ verdict' = [verdict EXCEPT ![key] = [sequence |-> id,
                                            verdict |-> would_accept(channels[i], id)]]
    /\ UNCHANGED sealed

(* install_keys, for the generation after the newest.                      *)
InstallKeys(key) ==
  /\ key = (IF channels = <<>> THEN 0 ELSE Last(channels).key_id + 1)
  /\ LET all == Append(channels, DataChannel(key))
     IN channels' = IF Len(all) > 2 THEN Tail(all) ELSE all
  /\ UNCHANGED <<sealed, opened, verdict>>

-----------------------------------------------------------------------------

DataInit ==
  /\ channels = <<>> /\ sealed = [k \in Keys |-> 0]
  /\ opened = [k \in Keys |-> {}]
  /\ verdict = [k \in Keys |-> [sequence |-> 0, verdict |-> FALSE]]

DataNext ==
  \/ Seal
  \/ \E key \in Keys : InstallKeys(key) \/ \E id \in 1..MAX_ID : OpenData(key, id)

DataSpec == DataInit /\ [][DataNext]_dataVars

-----------------------------------------------------------------------------

PerKey(key) == INSTANCE AcceptOnce WITH
  WINDOW <- REPLAY_BITS, Sequences <- 1..MAX_ID, accepted <- opened[key], answer <- verdict[key]

(* Every generation's window implements a receiver that accepts each       *)
(* packet once and refuses none that is recent and new ("only one that has *)
(* already been accepted is [a replay]", crypto.rs), also while the next   *)
(* generation is installed; and no nonce is used twice under a key.        *)
DataOpensOnce ==
  /\ \A key \in Keys : PerKey(key)!Init
  /\ [][\A key \in Keys : verdict'[key] # verdict[key] \/ opened'[key] # opened[key] =>
           PerKey(key)!Next]_dataVars
  /\ [][\A key \in Keys : sealed'[key] # sealed[key] => sealed'[key] > sealed[key]]_dataVars
=============================================================================
