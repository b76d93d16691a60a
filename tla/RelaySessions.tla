---------------------------- MODULE RelaySessions ----------------------------
(***************************************************************************)
(* The relay's sessions of one client (relay/src/main.rs): admitted by an  *)
(* authenticated frame, expired after SESSION_TTL, evicted least recently  *)
(* used first at MAX_SESSIONS_PER_CLIENT, all lost when the relay          *)
(* restarts.  A reply is sealed under a key that depends on the session id *)
(* alone, with the reply's sequence as its nonce, and the client discards  *)
(* replies far behind the newest: the sequence must never go back, over    *)
(* any number of lives of the same id.                                     *)
(*                                                                         *)
(* Time is a counter in the units of fresh_outbound_sequence, used for     *)
(* last_seen as well.  A step takes at least one unit, and one unit for    *)
(* every frame it seals: the clock is faster than any session sends, and   *)
(* is never set back.                                                      *)
(***************************************************************************)
EXTENDS Naturals, FiniteSets

CONSTANTS
    Ids,            \* ids of real sessions
    Probes,         \* ids clients use for a single reachability probe
    SESSION_TTL,
    MAX_SESSIONS,   \* MAX_SESSIONS_PER_CLIENT
    MaxBurst,       \* bound: frames one step seals
    MaxClock        \* bound: how long we watch

ASSUME Constants ==
    /\ Ids \cap Probes = {}
    /\ SESSION_TTL \in Nat /\ MAX_SESSIONS \in Nat \ {0} /\ MaxBurst \in Nat \ {0}
    /\ MaxClock \in Nat

VARIABLES
    sessions,   \* the session map: id -> [sequence, last_seen]
    clock,
    sealed,     \* history: the sequence last sealed for each id, 0 before any
    heard       \* history: the session an admitted frame last came from

sessionsVars == <<sessions, clock, sealed, heard>>

AllIds == Ids \cup Probes
Nobody == "nobody"
Held == DOMAIN sessions

Without(f, S) == [i \in DOMAIN f \ S |-> f[i]]

SessionsInit ==
    /\ sessions = [i \in {} |-> 0]
    /\ clock = 1
    /\ sealed = [i \in AllIds |-> 0]
    /\ heard = Nobody

(* Mutant: a new session counts its replies from zero. *)
fresh_outbound_sequence_zero == 0
fresh_outbound_sequence == clock

Expired(f) == {i \in DOMAIN f : clock - f[i].last_seen > SESSION_TTL}

(* The ids evicted to make room in f: as many of the least recently seen as
   are over the limit.  Steps take time, so no two were seen at once. *)
(* Mutant: the session seen last is evicted. *)
Evicted_newest(f) ==
    {i \in DOMAIN f :
        Cardinality({j \in DOMAIN f : f[j].last_seen > f[i].last_seen})
            < Cardinality(DOMAIN f) + 1 - MAX_SESSIONS}
Evicted(f) ==
    {i \in DOMAIN f :
        Cardinality({j \in DOMAIN f : f[j].last_seen < f[i].last_seen}) + MAX_SESSIONS
            < Cardinality(DOMAIN f) + 1}

admit_session(id) ==
    LET live == Without(sessions, Expired(sessions))
        room == IF id \in DOMAIN live THEN live ELSE Without(live, Evicted(live))
    IN  [i \in DOMAIN room \cup {id} |->
            [sequence |-> IF i \in DOMAIN room THEN room[i].sequence
                          ELSE fresh_outbound_sequence,
             last_seen |-> IF i = id THEN clock ELSE room[i].last_seen]]

(* The step lasts as long as its n frames take to seal. *)
Elapses(n) ==
    /\ clock + n + 1 <= MaxClock
    /\ clock' = clock + n + 1

(* Seals n frames of session id out of map f. *)
Seal(f, id, n) ==
    /\ sessions' = [f EXCEPT ![id].sequence = @ + n]
    /\ sealed' = IF n = 0 THEN sealed ELSE [sealed EXCEPT ![id] = f[id].sequence + n]

(* A probe of a session the relay does not hold is answered without admitting
   it: a control frame, whose id may be a one-off or a real session's. *)
stateless_probe_reply(id) ==
    /\ id \notin Held
    /\ sealed' = [sealed EXCEPT ![id] = fresh_outbound_sequence]
    /\ Elapses(1)
    /\ UNCHANGED <<sessions, heard>>

(* An authenticated frame of a real session: it is admitted and seen.  A
   replayed one, data and repairs are answered by nothing; a probe of a held
   session, a path policy and a repair offer by one frame, and an offer that
   closes the open group sends its repair first. *)
Frame(id) ==
    /\ \E n \in 0 .. MaxBurst :
          /\ Seal(admit_session(id), id, n)
          /\ Elapses(n)
    /\ heard' = id

(* The sessions seen last. *)
newest == {i \in Held : \A j \in Held : sessions[j].last_seen <= sessions[i].last_seen}

(* A packet for the client from the TUN, in one piece or more, each possibly
   closing a repair group; none are sent when no endpoint is live. *)
forward_reply ==
    /\ \E id \in newest, n \in 1 .. MaxBurst : Seal(sessions, id, n) /\ Elapses(n)
    /\ UNCHANGED heard

(* The flusher closes a group of any session. *)
flush_repairs ==
    /\ \E id \in Held : Seal(sessions, id, 1)
    /\ Elapses(1)
    /\ UNCHANGED heard

(* The relay is restarted: the client keeps its session and goes on. *)
Restart ==
    /\ sessions' = [i \in {} |-> 0]
    /\ heard' = Nobody
    /\ Elapses(0)
    /\ UNCHANGED sealed

Tick ==
    /\ Elapses(0)
    /\ UNCHANGED <<sessions, sealed, heard>>

SessionsNext ==
    \/ \E id \in AllIds : stateless_probe_reply(id)
    \/ \E id \in Ids : Frame(id)
    \/ forward_reply \/ flush_repairs \/ Restart \/ Tick

SessionsSpec == SessionsInit /\ [][SessionsNext]_sessionsVars

-----------------------------------------------------------------------------
SessionsTypeOK ==
    /\ Held \subseteq AllIds
    /\ sessions \in [Held -> [sequence : Nat, last_seen : Nat]]
    /\ clock \in Nat
    /\ sealed \in [AllIds -> Nat]
    /\ heard \in AllIds \cup {Nobody}

(* No reply of a session repeats the sequence of an earlier one, or falls
   behind it: not after the session expired, was evicted, was lost to a
   restart, or had been answered without being held. *)
SequencesOnlyGrow ==
    [][\A i \in AllIds : sealed'[i] # sealed[i] => sealed'[i] > sealed[i]]_sessionsVars

(* Every sequence sealed is behind the clock, and a held session's next reply
   follows everything sealed for its id.  With it a session can be forgotten
   and started again at any moment. *)
ClockLeads ==
    /\ \A i \in AllIds : sealed[i] < clock
    /\ \A i \in Held : sealed[i] <= sessions[i].sequence /\ sessions[i].sequence < clock
    /\ \A i \in Held : sessions[i].last_seen < clock

(* A session heard from within SESSION_TTL is only dropped, short of a restart,
   when MAX_SESSIONS sessions have been heard from since. *)
OnlyQuietSessionsGo ==
    [][\A i \in Held \ DOMAIN sessions' :
          \/ sessions' = [j \in {} |-> 0]
          \/ clock - sessions[i].last_seen > SESSION_TTL
          \/ Cardinality({j \in DOMAIN sessions' :
                            sessions'[j].last_seen > sessions[i].last_seen}) >= MAX_SESSIONS]_sessionsVars

(* Replies go to the session the client last spoke from: probes, other
   sessions' repairs and replies never change which that is.  The map never
   holds more than the limit, nor a one-off probe. *)
RepliesGoToTheSpeaker ==
    /\ SessionsTypeOK
    /\ heard \in Held => newest = {heard}
    /\ Cardinality(Held) <= MAX_SESSIONS
    /\ Held \cap Probes = {}
=============================================================================
