----------------------------- MODULE NativeL2tp -----------------------------
(***************************************************************************)
(* An L2TP/IPsec connection that Windows RAS carries for the service: the  *)
(* dial with its profile, notifications, cancellation and deadline         *)
(* (service/src/ras_dial.rs, l2tp.rs), and the native session on top of it *)
(* with its routes, live edits, status polls and end (session.rs,          *)
(* bypass_routes.rs).  The same dial serves a relay route, which may be    *)
(* cancelled, and a node test, which hangs up at once.                     *)
(*                                                                         *)
(* A dial's number is its callback id, its profile's number and, once      *)
(* Windows has taken the call, its handle.                                 *)
(***************************************************************************)
EXTENDS Integers, FiniteSets, Sequences

CONSTANTS
  RuleSets,      \* sets of targets: networks, and names that Windows resolves
  Networks,      \* the targets that are networks
  HostAddresses, \* what a name may resolve to
  Resolvers,     \* FALLBACK_RESOLVERS
  Foreign,       \* the other slot's tunnel addresses
  COUNTER,       \* how far RAS counts bytes before it wraps
  MaxDials,      \* bound: dials
  MaxEdits2,     \* bound: live edits
  MaxPolls,      \* bound: status polls
  MaxFails       \* bound: calls that fail

VARIABLES
  nKind,     \* "native", "relay" or "test": who asked for the connection
  nSetup,    \* split or all traffic, remote DNS
  nStage,    \* where the caller stands
  nDial,     \* the current dial, 0 for none
  nHandle,   \* the HRASCONN the caller holds, 0 for none
  nDials,    \* DIALS: the progress of the dials in flight
  nRas,      \* per dial, what Windows makes of it
  nNotes,    \* notifications Windows has yet to deliver
  nProfiles, \* the profiles in the phonebook
  nRoutes,   \* L2tpSession.routes
  nRows,     \* the routes Windows holds on the adapter
  nBypass,   \* BypassRoutes.installed
  nHostRows, \* the host routes Windows holds on the uplink
  nEngine,   \* an engine child runs for remote DNS
  nRules,    \* session_rules
  nUnset,    \* the last edit failed, and so did putting the old routes back
  nCancelled,
  nBytes,    \* bytes carried since the dial, as Windows alone knows
  nUsage,    \* NativeL2tpUsage, with the byte count of the first sample
  nCount     \* dials, edits, polls and failures so far

nVars == <<nKind, nSetup, nStage, nDial, nHandle, nDials, nRas, nNotes, nProfiles,
           nRoutes, nRows, nBypass, nHostRows, nEngine, nRules, nUnset, nCancelled,
           nBytes, nUsage, nCount>>

Ids == 1 .. MaxDials
NoUsage == [sampled |-> FALSE, last |-> 0, sent |-> 0, base |-> 0]

NInit ==
  /\ nKind = "none" /\ nSetup = [split |-> FALSE, remote |-> FALSE]
  /\ nStage = "idle" /\ nDial = 0 /\ nHandle = 0
  /\ nDials = << >> /\ nRas = [i \in Ids |-> "none"] /\ nNotes = << >>
  /\ nProfiles = {} /\ nRoutes = {} /\ nRows = {} /\ nBypass = {} /\ nHostRows = {}
  /\ nEngine = FALSE /\ nRules = {} /\ nUnset = FALSE /\ nCancelled = FALSE
  /\ nBytes = 0 /\ nUsage = NoUsage
  /\ nCount = [dials |-> 0, edits |-> 0, polls |-> 0, fails |-> 0]

Fail == nCount.fails < MaxFails /\ nCount' = [nCount EXCEPT !.fails = @ + 1]

(* The stages of one caller, in order.                                     *)
After(stage) ==
  CASE stage = "resolve" -> "profile"
    [] stage = "projection" -> "interface"
    [] stage = "interface" -> "mtu"
    [] stage = "mtu" -> IF nKind = "native" THEN "dns" ELSE nKind
    [] stage = "dns" -> "engine"
    [] stage = "engine" -> "routes"
    [] stage = "routes" -> "bypass"
    [] stage = "bypass" -> "probe"

-----------------------------------------------------------------------------
(* L2tpSession::dial *)

NStart(kind, setup, rules) ==
  /\ nStage = "idle" /\ nCount.dials < MaxDials
  /\ kind # "native" => setup = [split |-> TRUE, remote |-> FALSE] /\ rules = {}
  /\ ~setup.split => rules = {}
  /\ nKind' = kind /\ nSetup' = setup /\ nRules' = rules /\ nStage' = "resolve"
  /\ nDial' = nCount.dials + 1 /\ nCount' = [nCount EXCEPT !.dials = @ + 1]
  /\ nCancelled' = FALSE /\ nBytes' = 0 /\ nUsage' = NoUsage /\ nUnset' = FALSE
  /\ UNCHANGED <<nHandle, nDials, nRas, nNotes, nProfiles, nRoutes, nRows, nBypass,
                 nHostRows, nEngine>>

(* The server's address, or no IPv4 one: nothing to undo yet.              *)
l2tp_server_ipv4 ==
  /\ nStage = "resolve"
  /\ \/ nStage' = "profile" /\ UNCHANGED nCount
     \/ Fail /\ nStage' = "idle"
  /\ UNCHANGED <<nKind, nSetup, nDial, nHandle, nDials, nRas, nNotes, nProfiles, nRoutes,
                 nRows, nBypass, nHostRows, nEngine, nRules, nUnset, nCancelled, nBytes, nUsage>>

(* create_l2tp_profile removes a namesake and adds the entry.              *)
create_l2tp_profile ==
  /\ nStage = "profile"
  /\ \/ nProfiles' = nProfiles \cup {nDial} /\ nStage' = "dial" /\ UNCHANGED nCount
     \/ Fail /\ nStage' = "idle" /\ UNCHANGED nProfiles
  /\ UNCHANGED <<nKind, nSetup, nDial, nHandle, nDials, nRas, nNotes, nRoutes, nRows, nBypass,
                 nHostRows, nEngine, nRules, nUnset, nCancelled, nBytes, nUsage>>

Progress(id, p) == [i \in DOMAIN nDials \cup {id} |-> IF i = id THEN p ELSE nDials[i]]
Without2(id) == [i \in DOMAIN nDials \ {id} |-> nDials[i]]

(* RasDialW takes the call, or refuses it with or without a handle; a dial *)
(* cancelled before it is never made.                                      *)
RasDialW ==
  /\ nStage = "dial"
  /\ \/ /\ ~nCancelled
        /\ nDials' = Progress(nDial, "dialing") /\ nStage' = "waiting"
        /\ nHandle' = nDial /\ nRas' = [nRas EXCEPT ![nDial] = "dialing"]
        /\ UNCHANGED nCount
     \/ /\ Fail /\ nStage' = "hangup"
        /\ \E h \in {0, nDial} : /\ nHandle' = h
                                 /\ nRas' = [nRas EXCEPT ![nDial] = IF h = 0 THEN @ ELSE "failed"]
        /\ UNCHANGED nDials
     \/ nCancelled /\ nStage' = "hangup" /\ UNCHANGED <<nDials, nHandle, nRas, nCount>>
  /\ UNCHANGED <<nKind, nSetup, nDial, nNotes, nProfiles, nRoutes, nRows, nBypass, nHostRows,
                 nEngine, nRules, nUnset, nCancelled, nBytes, nUsage>>

(* Windows: the negotiation ends, and says so, unless the notice is lost.  *)
RasAdvances(id, state) ==
  /\ nRas[id] = "dialing"
  /\ nRas' = [nRas EXCEPT ![id] = state]
  /\ \E told \in BOOLEAN : nNotes' = IF told THEN Append(nNotes, [id |-> id, state |-> state]) ELSE nNotes
  /\ UNCHANGED <<nKind, nSetup, nStage, nDial, nHandle, nDials, nProfiles, nRoutes, nRows,
                 nBypass, nHostRows, nEngine, nRules, nUnset, nCancelled, nBytes, nUsage, nCount>>

(* The link goes down by itself and its adapter's routes with it, or is    *)
(* gone at last after a hang-up.                                           *)
RasDrops(id) ==
  /\ nRas[id] \in {"connected", "hanging"}
  /\ nRas' = [nRas EXCEPT ![id] = IF @ = "hanging" THEN "gone" ELSE "failed"]
  /\ nRows' = IF id = nHandle THEN {} ELSE nRows
  /\ UNCHANGED <<nKind, nSetup, nStage, nDial, nHandle, nDials, nNotes, nProfiles, nRoutes,
                 nBypass, nHostRows, nEngine, nRules, nUnset, nCancelled, nBytes, nUsage, nCount>>

(* notified: the first final state of a dial still in flight is kept.      *)
notified ==
  /\ nNotes # << >>
  /\ nDials' = [i \in DOMAIN nDials |->
                  IF i = Head(nNotes).id /\ nDials[i] = "dialing" THEN Head(nNotes).state ELSE nDials[i]]
  /\ nNotes' = Tail(nNotes)
  /\ UNCHANGED <<nKind, nSetup, nStage, nDial, nHandle, nRas, nProfiles, nRoutes, nRows, nBypass,
                 nHostRows, nEngine, nRules, nUnset, nCancelled, nBytes, nUsage, nCount>>

(* wait: cancelled, then the notified progress or, without one, what the   *)
(* handle's status says, then the deadline.                                *)
wait ==
  /\ nStage = "waiting"
  /\ \/ nCancelled /\ nStage' = "hangup" /\ UNCHANGED nCount
     \/ /\ ~nCancelled
        /\ \/ nDials[nDial] = "connected"
           \/ nDials[nDial] = "dialing" /\ nRas[nHandle] = "connected"
        /\ nStage' = "projection" /\ UNCHANGED nCount
     \/ ~nCancelled /\ nDials[nDial] = "failed" /\ nStage' = "hangup" /\ UNCHANGED nCount
     \/ ~nCancelled /\ nDials[nDial] = "dialing" /\ Fail /\ nStage' = "hangup"
  /\ nDials' = Without2(nDial)
  /\ UNCHANGED <<nKind, nSetup, nDial, nHandle, nRas, nNotes, nProfiles, nRoutes, nRows, nBypass,
                 nHostRows, nEngine, nRules, nUnset, nCancelled, nBytes, nUsage>>

(* The stop of the session a relay route is dialled for.                   *)
Cancel ==
  /\ nKind = "relay" /\ nStage # "idle" /\ ~nCancelled
  /\ nCancelled' = TRUE
  /\ UNCHANGED <<nKind, nSetup, nStage, nDial, nHandle, nDials, nRas, nNotes, nProfiles, nRoutes,
                 nRows, nBypass, nHostRows, nEngine, nRules, nUnset, nBytes, nUsage, nCount>>

(* After the link is up: the IPv4 projection, the interface and its MTU,   *)
(* each of which may fail and then hangs up.                               *)
Inspect ==
  /\ nStage \in {"projection", "interface", "mtu"}
  /\ \/ nStage' = After(nStage) /\ UNCHANGED nCount
     \/ Fail /\ nStage' = "hangup"
  /\ UNCHANGED <<nKind, nSetup, nDial, nHandle, nDials, nRas, nNotes, nProfiles, nRoutes, nRows,
                 nBypass, nHostRows, nEngine, nRules, nUnset, nCancelled, nBytes, nUsage>>

(* close_l2tp: hang up and poll until Windows lets go of the handle, five  *)
(* seconds at most, then delete the profile.                               *)
RasHangUpW ==
  /\ nStage = "hangup"
  /\ nRas' = IF nHandle # 0 THEN [nRas EXCEPT ![nHandle] = "hanging"] ELSE nRas
  /\ nStage' = "delete"
  /\ UNCHANGED <<nKind, nSetup, nDial, nHandle, nDials, nNotes, nProfiles, nRoutes, nRows, nBypass,
                 nHostRows, nEngine, nRules, nUnset, nCancelled, nBytes, nUsage, nCount>>

RasDeleteEntryW ==
  /\ nStage = "delete"
  /\ \/ (nHandle # 0 => nRas[nHandle] = "gone") /\ UNCHANGED nCount
     \/ nHandle # 0 /\ nRas[nHandle] # "gone" /\ Fail
  /\ nProfiles' = nProfiles \ {nDial} /\ nHandle' = 0
  /\ nStage' = "idle" /\ nKind' = "none"
  /\ UNCHANGED <<nSetup, nDial, nDials, nRas, nNotes, nRoutes, nRows, nBypass, nHostRows, nEngine,
                 nRules, nUnset, nCancelled, nBytes, nUsage>>

-----------------------------------------------------------------------------
(* What each caller does with the connection *)

Up == nRas[nHandle] = "connected"
Dns == IF nSetup.remote THEN Resolvers ELSE {}

(* The end of the session, or of an unfinished start: the engine is shut   *)
(* down, the session's routes removed, the connection closed, and the      *)
(* uplink routes after it (Teardown::run, Drop for L2tpSession).           *)
Dropped ==
  /\ nEngine' = FALSE
  /\ nRoutes' = {} /\ nRows' = nRows \ nRoutes
  /\ nBypass' = {} /\ nHostRows' = nHostRows \ nBypass
  /\ nStage' = "hangup"

(* add_relay_route, and a route test's single probe.                       *)
RelayOrTest ==
  /\ nStage \in {"relay", "test"}
  /\ \/ /\ nStage = "relay" /\ Up /\ nRoutes' = {"relay"} /\ nRows' = nRows \cup {"relay"}
        /\ nStage' = "joined" /\ UNCHANGED <<nEngine, nBypass, nHostRows, nCount>>
     \/ nStage = "relay" /\ Fail /\ Dropped
     \/ nStage = "test" /\ Dropped /\ UNCHANGED nCount
  /\ UNCHANGED <<nKind, nSetup, nDial, nHandle, nDials, nRas, nNotes, nProfiles, nRules, nUnset,
                 nCancelled, nBytes, nUsage>>

(* enable_remote_dns, and the engine that guards the adapter's resolvers.  *)
RemoteDns ==
  /\ nStage \in {"dns", "engine"}
  /\ \/ /\ nStage = "dns" /\ nSetup.remote => Up
        /\ nStage' = After(nStage) /\ UNCHANGED <<nBypass, nHostRows, nCount>>
        /\ nRoutes' = IF nStage = "dns" /\ nSetup.remote THEN nRoutes \cup Resolvers ELSE nRoutes
        /\ nRows' = IF nStage = "dns" /\ nSetup.remote THEN nRows \cup Resolvers ELSE nRows
        /\ nEngine' = (nStage = "engine" /\ nSetup.remote)
     \/ nSetup.remote /\ Fail /\ Dropped
  /\ UNCHANGED <<nKind, nSetup, nDial, nHandle, nDials, nRas, nNotes, nProfiles, nRules, nUnset,
                 nCancelled, nBytes, nUsage>>

(* direct_l2tp_prefixes: a network is itself, a name any addresses it      *)
(* resolves to now.                                                        *)
Resolutions(rules) ==
  {(rules \cap Networks) \cup a : a \in
     IF rules \subseteq Networks THEN {{}} ELSE (SUBSET HostAddresses) \ {{}}}

(* apply_direct_l2tp_prefixes: every route goes, the resolvers' come back, *)
(* then the targets'.  `done` is how far it got; a lost adapter takes none. *)
Applied(prefixes, done) ==
  LET wanted == (Dns \cup prefixes) \cap done
  IN /\ wanted # {} => Up
     /\ nRoutes' = wanted
     /\ nRows' = (nRows \ nRoutes) \cup wanted

Everything == Networks \cup HostAddresses \cup Resolvers

SessionRoutes ==
  /\ nStage \in {"routes", "bypass"}
  /\ \/ /\ nStage = "routes" /\ nStage' = After(nStage) /\ UNCHANGED <<nBypass, nHostRows, nEngine, nCount>>
        /\ IF nSetup.split THEN \E p \in Resolutions(nRules) : Applied(p, Everything)
                           ELSE UNCHANGED <<nRoutes, nRows>>
     \/ /\ nStage = "bypass" /\ nStage' = After(nStage) /\ UNCHANGED <<nRoutes, nRows, nEngine, nCount>>
        /\ \E f \in Foreign : IF nSetup.split THEN UNCHANGED <<nBypass, nHostRows>>
                              ELSE nBypass' = f /\ nHostRows' = nHostRows \cup f
     \/ Fail /\ Dropped
  /\ UNCHANGED <<nKind, nSetup, nDial, nHandle, nDials, nRas, nNotes, nProfiles, nRules, nUnset,
                 nCancelled, nBytes, nUsage>>

(* NativeL2tpUsage::sample: RAS counts bytes to COUNTER and starts again.  *)
sample(u, bytes) ==
  LET now == bytes % COUNTER
  IN [sampled |-> TRUE, last |-> now, base |-> IF u.sampled THEN u.base ELSE bytes,
      sent |-> u.sent + IF u.sampled THEN (now - u.last) % COUNTER ELSE 0]

FirstProbe ==
  /\ nStage = "probe"
  /\ \/ /\ nStage' = "connected" /\ nUsage' = sample(nUsage, nBytes)
        /\ UNCHANGED <<nRoutes, nRows, nBypass, nHostRows, nEngine, nCount>>
     \/ Fail /\ Dropped /\ UNCHANGED nUsage
  /\ UNCHANGED <<nKind, nSetup, nDial, nHandle, nDials, nRas, nNotes, nProfiles, nRules, nUnset,
                 nCancelled, nBytes>>

(* native_l2tp_status: sampled while Windows has the connection; fewer     *)
(* than COUNTER bytes pass between two polls of a live client.             *)
Poll(carried) ==
  /\ nStage = "connected" /\ nCount.polls < MaxPolls
  /\ nCount' = [nCount EXCEPT !.polls = @ + 1]
  /\ IF Up
     THEN nBytes' = nBytes + carried /\ nUsage' = sample(nUsage, nBytes + carried)
     ELSE UNCHANGED <<nBytes, nUsage>>
  /\ UNCHANGED <<nKind, nSetup, nStage, nDial, nHandle, nDials, nRas, nNotes, nProfiles, nRoutes,
                 nRows, nBypass, nHostRows, nEngine, nRules, nUnset, nCancelled>>

(* update_session_rules: the new routes, or the old rules' routes again;   *)
(* a name that does not resolve leaves what was there.                     *)
NEdit(rules) ==
  /\ nStage = "connected" /\ nSetup.split /\ nCount.edits < MaxEdits2
  /\ \/ /\ \E p \in Resolutions(rules) : Applied(p, Everything)
        /\ nRules' = rules /\ nUnset' = FALSE
        /\ nCount' = [nCount EXCEPT !.edits = @ + 1]
     \/ /\ nCount.fails < MaxFails /\ UNCHANGED nRules
        /\ nCount' = [nCount EXCEPT !.edits = @ + 1, !.fails = @ + 1]
        /\ \/ nUnset' = FALSE /\ \E p \in Resolutions(nRules) : Applied(p, Everything)
           \/ nUnset' = TRUE /\ \E p \in Resolutions(nRules), done \in {Resolvers, {}} : Applied(p, done)
           \/ nUnset' = TRUE /\ UNCHANGED <<nRoutes, nRows>>
  /\ UNCHANGED <<nKind, nSetup, nStage, nDial, nHandle, nDials, nRas, nNotes, nProfiles, nBypass,
                 nHostRows, nEngine, nCancelled, nBytes, nUsage>>

(* BypassRoutes::apply: stale routes go, missing ones come.                *)
apply_native(wanted) ==
  /\ nStage = "connected" /\ ~nSetup.split /\ wanted # nBypass
  /\ \/ /\ nBypass' = wanted /\ UNCHANGED nCount
        /\ nHostRows' = (nHostRows \ (nBypass \ wanted)) \cup wanted
     \/ /\ Fail /\ nBypass' = nBypass \cap wanted
        /\ nHostRows' = nHostRows \ (nBypass \ wanted)
  /\ UNCHANGED <<nKind, nSetup, nStage, nDial, nHandle, nDials, nRas, nNotes, nProfiles, nRoutes,
                 nRows, nEngine, nRules, nUnset, nCancelled, nBytes, nUsage>>

NStop ==
  /\ nStage \in {"connected", "joined"}
  /\ Dropped
  /\ UNCHANGED <<nKind, nSetup, nDial, nHandle, nDials, nRas, nNotes, nProfiles, nRules, nUnset,
                 nCancelled, nBytes, nUsage, nCount>>

NNext ==
  \/ \E kind \in {"native", "relay", "test"}, split, remote \in BOOLEAN, rules \in RuleSets :
       NStart(kind, [split |-> split, remote |-> remote], rules)
  \/ l2tp_server_ipv4 \/ create_l2tp_profile \/ RasDialW \/ notified \/ wait \/ Cancel
  \/ \E id \in Ids, state \in {"connected", "failed"} : RasAdvances(id, state)
  \/ \E id \in Ids : RasDrops(id)
  \/ Inspect \/ RasHangUpW \/ RasDeleteEntryW
  \/ RelayOrTest \/ RemoteDns \/ SessionRoutes \/ FirstProbe
  \/ \E carried \in 0 .. COUNTER - 1 : Poll(carried)
  \/ \E rules \in RuleSets : NEdit(rules)
  \/ \E f \in Foreign : apply_native(f)
  \/ NStop

NSpec == NInit /\ [][NNext]_nVars

-----------------------------------------------------------------------------
NTypeOK ==
  /\ nDial \in 0 .. MaxDials /\ nHandle \in {0, nDial}
  /\ nProfiles \subseteq Ids /\ DOMAIN nDials \subseteq Ids
  /\ nRoutes \subseteq Everything \cup {"relay"}
  /\ nUsage.last \in 0 .. COUNTER - 1 /\ nUsage.sent \in Nat

(* Whatever step of a dial, a start or an edit fails, whoever asked for    *)
(* it and however late Windows speaks, an ended connection leaves no       *)
(* profile, no call, no route and no child behind, a profile or a call is  *)
(* never held by two at once, and a caller goes on only with a call        *)
(* Windows really put through (L2tpSession::dial, notified, close_l2tp).   *)
ConnectionLeavesNothing ==
  /\ NTypeOK
  /\ nStage = "idle" =>
       /\ nProfiles = {} /\ nHandle = 0 /\ nDials = << >>
       /\ nRows = {} /\ nHostRows = {} /\ ~nEngine
       /\ \A i \in Ids : nRas[i] \in {"none", "hanging", "gone"}
  /\ nProfiles \subseteq {nDial} /\ DOMAIN nDials \subseteq {nDial}
  /\ \A i \in Ids : nRas[i] \in {"dialing", "connected"} => i = nHandle
  /\ nStage = "projection" => nRas[nHandle] \in {"connected", "failed"}

(* A connected native session routes exactly the targets of the rules it   *)
(* confirmed, and its resolvers, unless a failed edit could not be undone  *)
(* either; and the bytes it reports are the bytes carried since it         *)
(* connected, however often the 32-bit counter wrapped                     *)
(* (update_session_rules, NativeL2tpUsage::sample).                        *)
NativeStatusIsTrue ==
  /\ nStage = "connected" /\ ~nUnset /\ Up =>
       /\ nRows = nRoutes
       /\ \E p \in IF nSetup.split THEN Resolutions(nRules) ELSE {{}} :
            nRows = p \cup (IF nSetup.remote THEN Resolvers ELSE {})
  /\ nStage = "connected" => nUsage.sent = nBytes - nUsage.base /\ nHostRows = nBypass
=============================================================================
