------------------------------ MODULE L2tpJoin ------------------------------
(***************************************************************************)
(* L2TP/IPsec routes dialled beside a relay session                        *)
(* (service/src/l2tp_join.rs, start_relay_engine in service/src/session.rs).*)
(* Every session of the slot has a generation.  One thread per route       *)
(* dials, with retries, and sends its result down the session's channel;   *)
(* the start receives from it while it holds the slot's lock, and after it *)
(* a join thread that takes the lock for every result.  A Windows RAS      *)
(* connection is hung up when the value that owns it is dropped: by the    *)
(* dialling thread, with the channel, or with the slot.                    *)
(***************************************************************************)
EXTENDS Naturals, FiniteSets

CONSTANTS
    Routes,
    DIAL_ATTEMPTS,
    MaxGenerations   \* bound: sessions the slot has

ASSUME JoinAssumption ==
    IsFiniteSet(Routes) /\ DIAL_ATTEMPTS \in Nat \ {0} /\ MaxGenerations \in Nat

Generations == 1 .. MaxGenerations

VARIABLES
    gen,        \* the slot's generation, 0 while idle
    phase,      \* "idle", "starting" (the lock is held) or "running"
    started,    \* the last generation handed out
    dial,       \* each dialling thread's place
    tries,      \* attempts it has made
    cancelled,  \* the generation's cancellation flag
    holder,     \* who holds the receiving end: "start", "join" or "gone"
    inbox,      \* results sent and not received
    left,       \* results the holder still expects
    ras,        \* RAS connections that are up, as <<generation, route>>
    kept,       \* the slot's l2tp_sessions
    attached,   \* routes the running engine was given
    pending     \* routes of the session whose outcome it has not dealt with

vars == <<gen, phase, started, dial, tries, cancelled, holder, inbox, left, ras, kept, attached, pending>>

Init ==
    /\ gen = 0 /\ phase = "idle" /\ started = 0
    /\ dial = [g \in Generations |-> [r \in Routes |-> "done"]]
    /\ tries = [g \in Generations |-> [r \in Routes |-> 0]]
    /\ cancelled = [g \in Generations |-> FALSE]
    /\ holder = [g \in Generations |-> "gone"]
    /\ inbox = [g \in Generations |-> {}]
    /\ left = [g \in Generations |-> 0]
    /\ ras = {} /\ kept = {} /\ attached = {} /\ pending = {}

Message(r, what) == [route |-> r, what |-> what]
Connections(g) == {<<g, m.route>> : m \in {x \in inbox[g] : x.what = "up"}}

(* The holder drops the dials: they are cancelled, and what is still in the
   channel is hung up. *)
DropDials(g) ==
    /\ holder' = [holder EXCEPT ![g] = "gone"]
    /\ cancelled' = [cancelled EXCEPT ![g] = TRUE]
    /\ inbox' = [inbox EXCEPT ![g] = {}]
    /\ left' = [left EXCEPT ![g] = 0]

(* A stop, also the first step of a start that replaces a session: the dials
   are cancelled and the slot's connections hung up. *)
take_for_teardown ==
    /\ ras' = ras \ kept
    /\ kept' = {} /\ attached' = {}
    /\ cancelled' = [g \in Generations |-> cancelled[g] \/ g = gen]

-----------------------------------------------------------------------------
Begin ==
    /\ phase # "starting"
    /\ started < MaxGenerations
    /\ LET g == started + 1 IN
          /\ started' = g /\ gen' = g /\ phase' = "starting"
          /\ dial' = [dial EXCEPT ![g] = [r \in Routes |-> "dialling"]]
          /\ holder' = [holder EXCEPT ![g] = "start"]
          /\ left' = [left EXCEPT ![g] = Cardinality(Routes)]
    /\ take_for_teardown
    /\ pending' = Routes
    /\ UNCHANGED <<tries, inbox>>

(* Windows connects; the thread has not looked at the flag yet. *)
DialConnects(g, r) ==
    /\ dial[g][r] = "dialling"
    /\ dial' = [dial EXCEPT ![g][r] = "connected"]
    /\ tries' = [tries EXCEPT ![g][r] = 0]
    /\ ras' = ras \cup {<<g, r>>}
    /\ UNCHANGED <<gen, phase, started, cancelled, holder, inbox, left, kept, attached, pending>>

DialChecks(g, r) ==
    /\ dial[g][r] = "connected"
    /\ \/ /\ cancelled[g]
          /\ dial' = [dial EXCEPT ![g][r] = "done"]
          /\ ras' = ras \ {<<g, r>>}
       \/ /\ ~cancelled[g]
          /\ dial' = [dial EXCEPT ![g][r] = "checked"]
          /\ UNCHANGED ras
    /\ UNCHANGED <<gen, phase, started, tries, cancelled, holder, inbox, left, kept, attached, pending>>

(* A send to a dropped receiver gives the value back, and it is dropped. *)
DialSends(g, r) ==
    /\ dial[g][r] = "checked"
    /\ dial' = [dial EXCEPT ![g][r] = "done"]
    /\ \/ /\ holder[g] # "gone"
          /\ inbox' = [inbox EXCEPT ![g] = @ \cup {Message(r, "up")}]
          /\ UNCHANGED ras
       \/ /\ holder[g] = "gone"
          /\ ras' = ras \ {<<g, r>>}
          /\ UNCHANGED inbox
    /\ UNCHANGED <<gen, phase, started, tries, cancelled, holder, left, kept, attached, pending>>

(* The dial fails.  Cancelled: the thread ends without a word.  With attempts
   left and a reason worth retrying it reports and waits; else it gives the
   route up. *)
DialFails(g, r) ==
    /\ dial[g][r] = "dialling"
    /\ \/ /\ cancelled[g]
          /\ dial' = [dial EXCEPT ![g][r] = "done"]
          /\ tries' = [tries EXCEPT ![g][r] = 0]
          /\ UNCHANGED inbox
       \/ /\ ~cancelled[g] /\ tries[g][r] + 1 < DIAL_ATTEMPTS
          /\ dial' = [dial EXCEPT ![g][r] = "waiting"]
          /\ tries' = [tries EXCEPT ![g][r] = @ + 1]
          /\ inbox' = [inbox EXCEPT ![g] = IF holder[g] = "gone" THEN @
                                           ELSE @ \cup {Message(r, "retrying")}]
       \/ /\ ~cancelled[g]               \* out of attempts, or a refused login
          /\ dial' = [dial EXCEPT ![g][r] = "done"]
          /\ tries' = [tries EXCEPT ![g][r] = 0]
          /\ inbox' = [inbox EXCEPT ![g] = IF holder[g] = "gone" THEN @
                                           ELSE @ \cup {Message(r, "failed")}]
    /\ UNCHANGED <<gen, phase, started, cancelled, holder, left, ras, kept, attached, pending>>

wait_unless_cancelled(g, r) ==
    /\ dial[g][r] = "waiting"
    /\ dial' = [dial EXCEPT ![g][r] = IF cancelled[g] THEN "done" ELSE "dialling"]
    /\ UNCHANGED <<gen, phase, started, tries, cancelled, holder, inbox, left, ras, kept, attached, pending>>

-----------------------------------------------------------------------------
Expected(g, m) == IF m.what = "retrying" THEN left[g] ELSE left[g] - 1

(* collect and wait_for_connected: the start keeps what has connected. *)
Collect ==
    /\ phase = "starting"
    /\ \E m \in inbox[gen] :
          /\ inbox' = [inbox EXCEPT ![gen] = @ \ {m}]
          /\ left' = [left EXCEPT ![gen] = Expected(gen, m)]
          /\ kept' = IF m.what = "up" THEN kept \cup {<<gen, m.route>>} ELSE kept
          /\ pending' = IF m.what = "retrying" THEN pending ELSE pending \ {m.route}
    /\ UNCHANGED <<gen, phase, started, dial, tries, cancelled, holder, ras, attached>>

(* The engine started on what there is, and the rest is left to join. *)
StartSucceeds ==
    /\ phase = "starting"
    /\ phase' = "running"
    /\ attached' = kept
    /\ \/ /\ left[gen] > 0
          /\ holder' = [holder EXCEPT ![gen] = "join"]
          /\ UNCHANGED <<cancelled, inbox, left>>
       \/ left[gen] = 0 /\ DropDials(gen)
    /\ UNCHANGED <<gen, started, dial, tries, ras, kept, pending>>

StartFails ==
    /\ phase = "starting"
    /\ phase' = "idle" /\ gen' = 0
    /\ DropDials(gen)
    /\ ras' = (ras \ kept) \ Connections(gen)
    /\ kept' = {} /\ attached' = {} /\ pending' = {}
    /\ UNCHANGED <<started, dial, tries>>

Stop ==
    /\ phase = "running"
    /\ phase' = "idle" /\ gen' = 0
    /\ take_for_teardown
    /\ pending' = {}
    /\ UNCHANGED <<started, dial, tries, holder, inbox, left>>

-----------------------------------------------------------------------------
SlotUnlocked == phase # "starting"

(* attach, under the slot's lock: only the session that the dial was made for
   is told of the outcome, and it keeps a connection only if its engine takes
   the route.  Otherwise the connection is hung up. *)
TakesOutcome(g, m) ==
    /\ gen = g
    /\ pending' = pending \ {m.route}
    /\ kept' = IF m.what = "up" THEN kept \cup {<<g, m.route>>} ELSE kept
    /\ attached' = IF m.what = "up" THEN attached \cup {<<g, m.route>>} ELSE attached
    /\ UNCHANGED ras
HangsUp(g, m) ==
    /\ pending' = IF gen = g THEN pending \ {m.route} ELSE pending
    /\ ras' = ras \ {<<g, m.route>>}
    /\ UNCHANGED <<kept, attached>>
(* Mutant: a route the engine did not take stays connected. *)
attach_leaks(g, m) == TakesOutcome(g, m) \/ UNCHANGED <<ras, kept, attached, pending>>
(* Mutant: the outcome of a session that has ended is left in the channel. *)
attach_current(g, m) == gen = g /\ (TakesOutcome(g, m) \/ HangsUp(g, m))
attach(g, m) == TakesOutcome(g, m) \/ HangsUp(g, m)

JoinReceives(g) ==
    /\ holder[g] = "join" /\ SlotUnlocked
    /\ \E m \in inbox[g] :
          /\ \/ /\ m.what = "retrying" /\ gen = g
                /\ UNCHANGED <<ras, kept, attached, pending>>
             \/ m.what # "retrying" /\ attach(g, m)
          /\ \/ /\ Expected(g, m) > 0
                /\ inbox' = [inbox EXCEPT ![g] = @ \ {m}]
                /\ left' = [left EXCEPT ![g] = Expected(g, m)]
                /\ UNCHANGED <<holder, cancelled>>
             \/ /\ Expected(g, m) = 0
                /\ DropDials(g)
    /\ UNCHANGED <<gen, phase, started, dial, tries>>

(* The session is gone, which the thread sees when a retry is reported or on
   its one-second timeout, or every dialling thread has ended: it returns, and
   what else the channel holds is hung up with it. *)
JoinReturns(g) ==
    /\ holder[g] = "join"
    /\ \/ gen # g /\ SlotUnlocked /\ \E m \in inbox[g] : m.what = "retrying"
       \/ gen # g /\ SlotUnlocked /\ inbox[g] = {}
       \/ inbox[g] = {} /\ \A r \in Routes : dial[g][r] = "done"
    /\ DropDials(g)
    /\ ras' = ras \ Connections(g)
    /\ UNCHANGED <<gen, phase, started, dial, tries, kept, attached, pending>>

Thread(g, r) ==
    \/ DialConnects(g, r) \/ DialChecks(g, r) \/ DialSends(g, r) \/ DialFails(g, r)
    \/ wait_unless_cancelled(g, r)

Next ==
    \/ Begin \/ Collect \/ StartSucceeds \/ StartFails \/ Stop
    \/ \E g \in Generations : JoinReceives(g) \/ JoinReturns(g)
    \/ \E g \in Generations, r \in Routes : Thread(g, r)

Spec == Init /\ [][Next]_vars

(* A RAS dial ends, one way or the other; a start ends at START_WAIT; the join
   thread receives or looks at the slot every second.  Each thread takes
   finitely many steps, so it is enough that some thread with a step takes one. *)
FairSpec ==
    /\ Spec
    /\ WF_vars(StartSucceeds \/ StartFails)
    /\ WF_vars(\E g \in Generations : JoinReceives(g) \/ JoinReturns(g))
    /\ WF_vars(\E g \in Generations, r \in Routes : Thread(g, r))

-----------------------------------------------------------------------------
Pairs == Generations \X Routes

TypeOK ==
    /\ gen \in 0 .. MaxGenerations /\ started \in 0 .. MaxGenerations
    /\ phase \in {"idle", "starting", "running"}
    /\ dial \in [Generations -> [Routes -> {"dialling", "connected", "checked", "waiting", "done"}]]
    /\ tries \in [Generations -> [Routes -> 0 .. DIAL_ATTEMPTS]]
    /\ cancelled \in [Generations -> BOOLEAN]
    /\ holder \in [Generations -> {"start", "join", "gone"}]
    /\ inbox \in [Generations -> SUBSET [route : Routes, what : {"up", "failed", "retrying"}]]
    /\ left \in [Generations -> 0 .. Cardinality(Routes)]
    /\ ras \subseteq Pairs /\ kept \subseteq Pairs /\ attached \subseteq Pairs
    /\ pending \subseteq Routes

(* A session is only ever given routes that were dialled for it, however late
   the dial of an earlier session connects. *)
JoinsItsOwnSession ==
    \A c \in kept \cup attached : c[1] = gen

(* Every RAS connection that is up belongs to exactly one of its dialling
   thread, its channel and the slot, and nothing owns one that is down. *)
Owners(c) ==
    Cardinality({o \in {"thread", "channel", "slot"} :
        \/ o = "thread" /\ dial[c[1]][c[2]] \in {"connected", "checked"}
        \/ o = "channel" /\ c \in Connections(c[1])
        \/ o = "slot" /\ c \in kept})

EveryConnectionHasOneOwner ==
    \A c \in Pairs : Owners(c) = IF c \in ras THEN 1 ELSE 0

(* No connection outlives its session for good: whatever was dialled for a
   session that has ended is hung up, and nothing connects for it later. *)
EndedSessionsHangUp == <>[](\A c \in ras : c[1] = gen)

(* No route is forgotten: when the last holder of a running session's dials
   has gone, the session has dealt with the outcome of every route. *)
NoRouteIsForgotten ==
    phase = "running" /\ holder[gen] = "gone" => pending = {}

(* However dials, retries, attachments and teardowns overlap, each connection
   and each route is accounted for. *)
DialsAreAccountedFor ==
    TypeOK /\ JoinsItsOwnSession /\ EveryConnectionHasOneOwner /\ NoRouteIsForgotten
=============================================================================
