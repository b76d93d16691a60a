---------------------------- MODULE ServiceSlots ----------------------------
(***************************************************************************)
(* The privileged service's two session slots, `game' and `vpn'            *)
(* (service/src/slot.rs, registry.rs, session.rs).                         *)
(*                                                                         *)
(* Each slot has a lock that a start, a stop, an expiry, a live rule edit, *)
(* a status request or a reconciliation holds from its first step to its   *)
(* last.  The slots never wait for each other's lock: each publishes a     *)
(* summary, and a change the other slot must follow is handed to a         *)
(* background thread that takes the other slot's lock and reads the latest *)
(* summary.  pc[s] is where the holder of slot s's lock stands.            *)
(***************************************************************************)
EXTENDS Naturals

CONSTANTS
    GameRequests,   \* what a client may ask of the game slot
    VpnRequests,    \* and of the VPN slot: [mode, app, native] records
    Bypasses,       \* the tunnel addresses a started engine may report
    MaxStarts,      \* bound: starts of each slot (a function)
    MaxEdits,       \* bound: live rule edits
    MaxSlotFaults       \* bound: engine requests that fail after the start

ASSUME SlotsAssumption ==
    GameRequests \cup VpnRequests \subseteq
        [mode : {"all", "split"}, app : BOOLEAN, native : BOOLEAN]

Slots == {"game", "vpn"}
other(s) == IF s = "game" THEN "vpn" ELSE "game"
Requests(s) == IF s = "game" THEN GameRequests ELSE VpnRequests

VARIABLES
    pc,        \* where the holder of the slot's lock stands, or "free"
    status,    \* session_status: "idle" or "connected"
    conf,      \* the traffic mode, rules and kind of the session, or NoConf
    told,      \* what the slot's capture was last told of the other slot
    lease,     \* the lease deadline: "none", "ahead" or "past"
    summary,   \* the published summaries
    snap,      \* the other slot's summary as the lock's holder read it, else Idle
    pending,   \* background reconciliations waiting for the slot's lock
    watchdog,  \* "watching", or "expiring" once it saw the lease run out
    edit,      \* the other slot's summary as a waiting rule edit read it
    behind,    \* history: the capture was last written by an edit or missed one
    starts, edits, slotFaults   \* how much of each bound is used

slotsVars == <<pc, status, conf, told, lease, summary, snap, pending, watchdog, edit,
          behind, starts, edits, slotFaults>>

NoConf == [mode |-> "", app |-> FALSE, native |-> FALSE]
Idle == [status |-> "idle", mode |-> "", bypass |-> {}, app |-> FALSE]
Nothing == [active |-> FALSE, bypass |-> {}, app |-> FALSE, up |-> FALSE]
NoEdit == [Idle EXCEPT !.status = "none"]

is_active(x) == x.status \in {"starting", "connected"}
owns_all_traffic(x) == is_active(x) /\ x.mode = "all"

(* How much of a summary a capture is given: capture_request. *)
Told(x) == [active |-> is_active(x), bypass |-> x.bypass, app |-> x.app, up |-> TRUE]

(* The summary of a slot with configuration c; rules \in BOOLEAN says whether
   session_rules was already set when it was taken. *)
summary_of(c, st, addresses, rules) ==
    [status |-> st, mode |-> c.mode, bypass |-> addresses,
     app |-> c.mode = "all" \/ (rules /\ c.app)]

(* Mutant: the game moving its tunnel is not a change the VPN must follow. *)
needs_update_bypass_ignored(s, old, new) ==
    \/ is_active(old) # is_active(new)
    \/ s = "game" /\ owns_all_traffic(old) # owns_all_traffic(new)
needs_update(s, old, new) ==
    \/ is_active(old) # is_active(new)
    \/ /\ s = "game"
       /\ \/ old.bypass # new.bypass
          \/ owns_all_traffic(old) # owns_all_traffic(new)

publish(s, new) ==
    /\ summary' = [summary EXCEPT ![s] = new]
    /\ pending' = [pending EXCEPT ![other(s)] =
                      @ + IF needs_update(s, summary[s], new) THEN 1 ELSE 0]

(* The slot is idle again and its engine, routes and dials are gone. *)
teardown(s) ==
    /\ status' = [status EXCEPT ![s] = "idle"]
    /\ conf' = [conf EXCEPT ![s] = NoConf]
    /\ told' = [told EXCEPT ![s] = Nothing]
    /\ lease' = [lease EXCEPT ![s] = "none"]
    /\ behind' = [behind EXCEPT ![s] = FALSE]

SlotsInit ==
    /\ pc = [s \in Slots |-> "free"]
    /\ status = [s \in Slots |-> "idle"]
    /\ conf = [s \in Slots |-> NoConf]
    /\ told = [s \in Slots |-> Nothing]
    /\ lease = [s \in Slots |-> "none"]
    /\ summary = [s \in Slots |-> Idle]
    /\ snap = [s \in Slots |-> Idle]
    /\ pending = [s \in Slots |-> 0]
    /\ watchdog = [s \in Slots |-> "watching"]
    /\ edit = [s \in Slots |-> NoEdit]
    /\ behind = [s \in Slots |-> FALSE]
    /\ starts = [s \in Slots |-> 0]
    /\ edits = 0
    /\ slotFaults = 0

Goto(s, to) == pc' = [pc EXCEPT ![s] = to]

-----------------------------------------------------------------------------
(* start-session: takes the lock and tears down what is still running.  The
   summary still says what it said. *)
StartLocks(s) ==
    /\ pc[s] = "free"
    /\ starts[s] < MaxStarts[s]
    /\ starts' = [starts EXCEPT ![s] = @ + 1]
    /\ teardown(s)
    /\ Goto(s, "begun")
    /\ UNCHANGED <<summary, snap, pending, watchdog, edit, edits, slotFaults>>

(* The request is checked; the VPN is refused beside a game that carries all
   traffic.  Any other invalid request fails the same way. *)
StartChecks(s) ==
    /\ pc[s] = "begun"
    /\ \/ /\ s = "vpn" => ~owns_all_traffic(summary["game"])
          /\ Goto(s, "checked")
       \/ Goto(s, "failed")
    /\ UNCHANGED <<status, conf, told, lease, summary, snap, pending, watchdog, edit,
                   behind, starts, edits, slotFaults>>

(* `starting' is published before anything is opened, and before the rules
   are stored in the slot. *)
StartPublishes(s) ==
    /\ pc[s] = "checked"
    /\ \E r \in Requests(s) :
          /\ conf' = [conf EXCEPT ![s] = r]
          /\ publish(s, summary_of(r, "starting", {}, FALSE))
    /\ Goto(s, "published")
    /\ UNCHANGED <<status, told, lease, snap, watchdog, edit, behind, starts, edits, slotFaults>>

StartReadsOther(s) ==
    /\ pc[s] = "published"
    /\ snap' = [snap EXCEPT ![s] = summary[other(s)]]
    /\ Goto(s, "dialling")
    /\ UNCHANGED <<status, conf, told, lease, summary, pending, watchdog, edit, behind,
                   starts, edits, slotFaults>>

(* The engine's paths are up and its capture is opened with the summary read
   before the dial.  A native L2TP session reads whether the other slot is
   active, and its rules, again when it starts its DNS guard. *)
StartCaptures(s) ==
    /\ pc[s] = "dialling"
    /\ told' = [told EXCEPT ![s] =
                  IF conf[s].native
                  THEN [Told(summary[other(s)]) EXCEPT !.bypass = snap[s].bypass]
                  ELSE Told(snap[s])]
    /\ snap' = [snap EXCEPT ![s] = Idle]
    /\ Goto(s, "captured")
    /\ UNCHANGED <<status, conf, lease, summary, pending, watchdog, edit, behind,
                   starts, edits, slotFaults>>

(* A dial, the engine or its capture failed. *)
StartBreaks(s) ==
    /\ pc[s] \in {"published", "dialling"}
    /\ snap' = [snap EXCEPT ![s] = Idle]
    /\ Goto(s, "failed")
    /\ UNCHANGED <<status, conf, told, lease, summary, pending, watchdog, edit,
                   behind, starts, edits, slotFaults>>

StartConnected(s) ==
    /\ pc[s] = "captured"
    /\ status' = [status EXCEPT ![s] = "connected"]
    /\ lease' = [lease EXCEPT ![s] = "ahead"]
    /\ \E addresses \in Bypasses : publish(s, summary_of(conf[s], "connected", addresses, TRUE))
    /\ Goto(s, "free")
    /\ UNCHANGED <<conf, told, snap, watchdog, edit, behind, starts, edits, slotFaults>>

StartFailed(s) ==
    /\ pc[s] = "failed"
    /\ teardown(s)
    /\ publish(s, Idle)
    /\ Goto(s, "free")
    /\ UNCHANGED <<snap, watchdog, edit, starts, edits, slotFaults>>

-----------------------------------------------------------------------------
(* stop-session.  Torn down under the lock; the publication is its last step. *)
StopLocks(s) ==
    /\ pc[s] = "free"
    /\ teardown(s)
    /\ Goto(s, "torn")
    /\ UNCHANGED <<summary, snap, pending, watchdog, edit, starts, edits, slotFaults>>

StopPublishes(s) ==
    /\ pc[s] = "torn"
    /\ publish(s, Idle)
    /\ Goto(s, "free")
    /\ UNCHANGED <<status, conf, told, lease, snap, watchdog, edit, behind, starts, edits, slotFaults>>

(* session-status: the request itself renews the lease. *)
Status(s) ==
    /\ pc[s] = "free"
    /\ status[s] = "connected"
    /\ lease' = [lease EXCEPT ![s] = "ahead"]
    /\ UNCHANGED <<pc, status, conf, told, summary, snap, pending, watchdog, edit, behind,
                   starts, edits, slotFaults>>

(* SESSION_LEASE passes without a request from the client. *)
LeaseRunsOut(s) ==
    /\ lease[s] = "ahead"
    /\ lease' = [lease EXCEPT ![s] = "past"]
    /\ UNCHANGED <<pc, status, conf, told, summary, snap, pending, watchdog, edit, behind,
                   starts, edits, slotFaults>>

(* The watchdog looks with try_lock and lets go again before it acts. *)
WatchdogLooks(s) ==
    /\ watchdog[s] = "watching"
    /\ pc[s] = "free"
    /\ lease[s] = "past"
    /\ watchdog' = [watchdog EXCEPT ![s] = "expiring"]
    /\ UNCHANGED <<pc, status, conf, told, lease, summary, snap, pending, edit, behind,
                   starts, edits, slotFaults>>

(* Mutant: the lease is not looked at again under the lock. *)
expire_lease_unchecked(s) ==
    /\ watchdog[s] = "expiring"
    /\ pc[s] = "free"
    /\ watchdog' = [watchdog EXCEPT ![s] = "watching"]
    /\ teardown(s)
    /\ Goto(s, "torn")
    /\ UNCHANGED <<summary, snap, pending, edit, starts, edits, slotFaults>>
expire_lease(s) ==
    /\ watchdog[s] = "expiring"
    /\ pc[s] = "free"
    /\ watchdog' = [watchdog EXCEPT ![s] = "watching"]
    /\ \/ /\ lease[s] = "past"
          /\ teardown(s)
          /\ Goto(s, "torn")
       \/ /\ lease[s] # "past"
          /\ UNCHANGED <<pc, status, conf, told, lease, behind>>
    /\ UNCHANGED <<summary, snap, pending, edit, starts, edits, slotFaults>>

-----------------------------------------------------------------------------
(* reconcile_other_session, on a background thread: takes the lock, reads the
   other slot's latest summary and stops the VPN or goes on to tell it. *)
(* Mutant: a VPN beside a game that takes all traffic is only told so. *)
ReconcileReads_spares(s) ==
    /\ pc[s] = "free"
    /\ pending[s] > 0
    /\ pending' = [pending EXCEPT ![s] = @ - 1]
    /\ snap' = [snap EXCEPT ![s] = IF status[s] = "connected" THEN summary[other(s)] ELSE @]
    /\ Goto(s, IF status[s] = "connected" THEN "telling" ELSE "free")
    /\ UNCHANGED <<status, conf, told, lease, behind, summary, watchdog, edit, starts, edits, slotFaults>>
ReconcileReads(s) ==
    /\ pc[s] = "free"
    /\ pending[s] > 0
    /\ pending' = [pending EXCEPT ![s] = @ - 1]
    /\ \/ /\ s = "vpn" /\ owns_all_traffic(summary["game"])
          /\ teardown(s)
          /\ Goto(s, "torn")
          /\ UNCHANGED snap
       \/ /\ ~(s = "vpn" /\ owns_all_traffic(summary["game"]))
          /\ snap' = [snap EXCEPT ![s] = IF status[s] = "connected" THEN summary[other(s)] ELSE @]
          /\ Goto(s, IF status[s] = "connected" THEN "telling" ELSE "free")
          /\ UNCHANGED <<status, conf, told, lease, behind>>
    /\ UNCHANGED <<summary, watchdog, edit, starts, edits, slotFaults>>

(* The game's engine is told of the VPN's activity and rules; the VPN's engine
   of the game's addresses and activity.  A native VPN gets both, the addresses
   as routes when it carries all traffic and not at all in split mode. *)
Retold(s) ==
    [told[s] EXCEPT
        !.active = is_active(snap[s]),
        !.app = IF s = "game" \/ conf[s].native THEN snap[s].app ELSE @,
        !.bypass = IF s = "vpn" /\ ~(conf[s].native /\ conf[s].mode = "split")
                   THEN snap[s].bypass ELSE @]

ReconcileTells(s) ==
    /\ pc[s] = "telling"
    /\ \/ /\ told' = [told EXCEPT ![s] = IF @.up THEN Retold(s) ELSE @]
          /\ behind' = [behind EXCEPT ![s] = FALSE]
          /\ UNCHANGED slotFaults
       \/ /\ slotFaults < MaxSlotFaults          \* the engine refused: logged, not retried
          /\ slotFaults' = slotFaults + 1
          /\ behind' = [behind EXCEPT ![s] = TRUE]
          /\ UNCHANGED told
    /\ snap' = [snap EXCEPT ![s] = Idle]
    /\ Goto(s, "free")
    /\ UNCHANGED <<status, conf, lease, summary, pending, watchdog, edit, starts, edits>>

-----------------------------------------------------------------------------
(* update-session-rules reads the other slot's summary before it has the lock. *)
EditReads(s) ==
    /\ edit[s] = NoEdit
    /\ edits < MaxEdits
    /\ edits' = edits + 1
    /\ edit' = [edit EXCEPT ![s] = summary[other(s)]]
    /\ UNCHANGED <<pc, status, conf, told, lease, summary, snap, pending, watchdog,
                   behind, starts, slotFaults>>

(* The capture after an edit: opened for the new rules, paused because no
   target is left, opened again for the old rules when the engine refused the
   new ones, or lost when that was refused too.  A native session's routes are
   all that changes. *)
EditOutcomes(s) ==
    IF conf[s].native
    THEN {told[s]}
    ELSE {Told(edit[s]), Nothing}

EditLocks(s) ==
    /\ pc[s] = "free"
    /\ edit[s] # NoEdit
    /\ edit' = [edit EXCEPT ![s] = NoEdit]
    /\ \/ /\ status[s] = "connected" /\ conf[s].mode = "split"
          /\ \E t \in EditOutcomes(s), accepted \in BOOLEAN, rules \in BOOLEAN :
                /\ accepted /\ t = Nothing => ~rules     \* paused: no target is left
                /\ told' = [told EXCEPT ![s] = t]
                /\ conf' = [conf EXCEPT ![s].app = IF accepted THEN rules ELSE @]
                /\ lease' = [lease EXCEPT ![s] = IF accepted THEN "ahead" ELSE @]
          /\ behind' = [behind EXCEPT ![s] = @ \/ ~conf[s].native]
       \/ /\ ~(status[s] = "connected" /\ conf[s].mode = "split")
          /\ UNCHANGED <<told, conf, lease, behind>>
    /\ UNCHANGED <<pc, status, summary, snap, pending, watchdog, starts, edits, slotFaults>>

SlotsNext ==
    \E s \in Slots :
        \/ StartLocks(s) \/ StartChecks(s) \/ StartPublishes(s) \/ StartReadsOther(s)
        \/ StartCaptures(s) \/ StartBreaks(s) \/ StartConnected(s) \/ StartFailed(s)
        \/ StopLocks(s) \/ StopPublishes(s) \/ Status(s) \/ LeaseRunsOut(s)
        \/ WatchdogLooks(s) \/ expire_lease(s)
        \/ ReconcileReads(s) \/ ReconcileTells(s) \/ EditReads(s) \/ EditLocks(s)

SlotsSpec == SlotsInit /\ [][SlotsNext]_slotsVars

(* The holder of a lock finishes: every engine request and dial has a deadline.
   A background thread gets the lock in the end, whatever else asks for it. *)
Holder(s) ==
    \/ StartChecks(s) \/ StartPublishes(s) \/ StartReadsOther(s) \/ StartCaptures(s)
    \/ StartConnected(s) \/ StartFailed(s) \/ StopPublishes(s) \/ ReconcileTells(s)

SlotsFairness ==
    \A s \in Slots :
        /\ WF_slotsVars(Holder(s))
        /\ SF_slotsVars(ReconcileReads(s))
        /\ SF_slotsVars(WatchdogLooks(s))
        /\ SF_slotsVars(expire_lease(s))

SlotsFairSpec == SlotsSpec /\ SlotsFairness

-----------------------------------------------------------------------------
Summaries ==
    [status : {"idle", "starting", "connected"}, mode : {"", "all", "split"},
     bypass : Bypasses \cup {{}}, app : BOOLEAN]

SlotsTypeOK ==
    /\ pc \in [Slots -> {"free", "begun", "checked", "published", "dialling", "captured",
                         "failed", "torn", "telling"}]
    /\ status \in [Slots -> {"idle", "connected"}]
    /\ conf \in [Slots -> [mode : {"", "all", "split"}, app : BOOLEAN, native : BOOLEAN]]
    /\ told \in [Slots -> [active : BOOLEAN, bypass : Bypasses \cup {{}}, app : BOOLEAN,
                           up : BOOLEAN]]
    /\ lease \in [Slots -> {"none", "ahead", "past"}]
    /\ summary \in [Slots -> Summaries]
    /\ snap \in [Slots -> Summaries]
    /\ pending \in [Slots -> Nat]
    /\ watchdog \in [Slots -> {"watching", "expiring"}]
    /\ edit \in [Slots -> Summaries \cup {NoEdit}]
    /\ behind \in [Slots -> BOOLEAN]
    /\ starts \in [Slots -> Nat] /\ edits \in Nat /\ slotFaults \in Nat

(* A slot nobody is working on has published what it is: its summary, its
   status and its traffic mode agree, and exactly a connected slot has a lease. *)
SummaryIsTrue ==
    /\ SlotsTypeOK
    /\ \A s \in Slots : pc[s] = "free" =>
          /\ summary[s].status = status[s]
          /\ summary[s].mode = conf[s].mode
          /\ (lease[s] # "none") <=> (status[s] = "connected")

(* Nobody works on slot s, and no reconciliation is waiting for it. *)
Settled(s) == pc[s] = "free" /\ pending[s] = 0

(* Once the reconciliations have run, the two sessions know each other, however
   the starts, stops and dials of both overlapped: a connected VPN keeps the
   game's current tunnel addresses out of its capture and leaves name resolution
   to a game that is active, and a connected game knows whether the VPN is. *)
SessionsKnowEachOther ==
    /\ Settled("vpn") /\ told["vpn"].up /\ ~behind["vpn"] =>
          /\ told["vpn"].active = is_active(summary["game"])
          /\ ~(conf["vpn"].native /\ conf["vpn"].mode = "split") =>
                told["vpn"].bypass = summary["game"].bypass
    /\ Settled("game") /\ told["game"].up /\ ~behind["game"] =>
          told["game"].active = is_active(summary["vpn"])

(* Once the reconciliations have run, no VPN is connected beside a game that
   carries all traffic: not one that was being started when the game was, and
   not one started after the game asked. *)
NoVpnBesideAllTraffic ==
    Settled("vpn") /\ owns_all_traffic(summary["game"]) => status["vpn"] = "idle"

(* The two slots agree, with each other and with what they published. *)
SlotsAgree == SummaryIsTrue /\ SessionsKnowEachOther /\ NoVpnBesideAllTraffic

(* The watchdog never ends a session whose lease was renewed after it looked. *)
LiveSessionIsKept ==
    [][\A s \in Slots : watchdog[s] = "expiring" /\ watchdog'[s] = "watching"
            /\ status[s] = "connected" /\ status'[s] = "idle" => lease[s] = "past"]_slotsVars

(* A game that takes all traffic ends the VPN, or stops doing so first. *)
AllTrafficEndsVpn ==
    []<>(~owns_all_traffic(summary["game"]) \/ status["vpn"] = "idle")

(* A session whose client has stopped asking is torn down: a lease that has
   run out is renewed or the slot stops having one.  Neither slot's lock is
   held for ever, by anyone. *)
NothingIsHeldForEver ==
    \A s \in Slots :
        []<>(lease[s] # "past") /\ []<>(pc[s] = "free")
=============================================================================
