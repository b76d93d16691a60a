--------------------------- MODULE CaptureControl ---------------------------
(***************************************************************************)
(* One session's capture as the service drives it: the edits of a          *)
(* connected session (service/src/session.rs), the request pipe to the     *)
(* engine child with its timeouts and late replies                         *)
(* (service/src/engine_process.rs), the engine's request loop (main.rs)    *)
(* and the capture it starts, replaces and stops, with the routes, the     *)
(* resolvers and the DNS guard Windows holds for it (capture.rs).          *)
(*                                                                         *)
(* A rule set is a number, 0 the empty one.  A route of the capture is the *)
(* address it leads to, or one of the two halves of the default route.     *)
(***************************************************************************)
EXTENDS Integers, FiniteSets, Sequences

CONSTANTS
  Rules,        \* rule sets, 0 among them
  Own,          \* the addresses this session's nodes are dialled at
  ForeignSets,  \* the other session's addresses, as it comes and goes
  MaxRuleEdits,     \* bound: edits and notices of the other session
  MaxTimeouts,  \* bound: requests that go unanswered in time
  MaxFailures   \* bound: Windows calls that fail

Halves == {"low", "high"}

(* The halves of the default route are no host's route.                    *)
ASSUME CaptureConstants ==
  /\ 0 \in Rules /\ Rules \subseteq Nat
  /\ Halves \cap UNION ForeignSets = {}
  /\ {MaxRuleEdits, MaxTimeouts, MaxFailures} \subseteq Nat

VARIABLES
  setup,    \* the session's traffic mode, remote DNS, and whether it is the VPN's
  phase,    \* "starting", "connected", "ended" or "killed"
  rules,    \* session_rules: the last rule set the engine confirmed
  foreign,  \* the other session's addresses, as the registry has them
  op,       \* the request the slot's holder waits on
  inbox,    \* the engine's stdin
  outbox,   \* the engine's stdout
  nextId,   \* next_id
  cap,      \* PacketCaptureManager, and what Windows holds for it
  ruleEdits, timeouts, failures,
  unrestored, \* an operation failed without a confirmed return to the rules
  reopenLost  \* a capture reopened for the other session or the list is gone

kVars == <<setup, phase, rules, foreign, op, inbox, outbox, nextId, cap, ruleEdits,
           timeouts, failures, unrestored, reopenLost>>

NoRules == 0
Absent == [up |-> FALSE, rules |-> NoRules, routes |-> {}, foreign |-> {}, dns |-> FALSE]
NoRequest == [mode |-> "none", rules |-> NoRules, foreign |-> {}]
Waiting == [kind |-> "none", id |-> 0, want |-> NoRules]

(* PacketCaptureManager::default, and a machine without GamePath's routes. *)
Cleared == [active |-> Absent, split |-> Absent, guard |-> "none",
            last |-> NoRequest, rows |-> {}]

(* capture_request: built from the slot and from the other slot's summary.  *)
capture_request(r) == [mode |-> setup.mode, rules |-> r, foreign |-> foreign]

(* EngineProcess::request writes one line under a fresh id, and waits.     *)
request(kind, cmd, req, want) ==
  /\ inbox' = Append(inbox, [id |-> nextId, cmd |-> cmd, req |-> req])
  /\ op' = [kind |-> kind, id |-> nextId, want |-> want]
  /\ nextId' = nextId + 1

KInit ==
  /\ setup \in [mode : {"split", "all"}, remote : BOOLEAN, vpn : BOOLEAN]
  /\ phase = "starting"
  /\ rules \in Rules /\ (setup.mode = "all" => rules = NoRules)
  /\ foreign \in ForeignSets
  /\ inbox = << [id |-> 1, cmd |-> "start", req |-> capture_request(rules)] >>
  /\ op = [kind |-> "first", id |-> 1, want |-> rules]
  /\ outbox = << >> /\ nextId = 2
  /\ cap = Cleared
  /\ ruleEdits = 0 /\ timeouts = 0 /\ failures = 0
  /\ unrestored = FALSE /\ reopenLost = FALSE

-----------------------------------------------------------------------------
(* The capture manager.  Each handler maps the manager to the manager and  *)
(* an answer, and fails at the point `at` names, or nowhere.               *)

Done(c) == [cap |-> c, ok |-> TRUE]
Broken(c) == [cap |-> c, ok |-> FALSE]

(* Drop for WindowsPacketCapture: the resolvers, then every route it added. *)
Teardown(c) ==
  [c EXCEPT !.active = Absent, !.rows = c.rows \ (c.active.routes \cup c.active.foreign)]

(* start, before either backend: the policy is checked while the running   *)
(* capture still stands, then both are dropped and the request remembered. *)
Replaced(c, req) == [Teardown(c) EXCEPT !.split = Absent, !.last = req]

GuardFor(kind) == IF setup.remote THEN kind ELSE "none"

StartSplit(c, req, at) ==
  LET guarded == [Replaced(c, req) EXCEPT !.guard = GuardFor("v6")]
  IN IF req.rules = NoRules \/ at = "policy" \/ (at = "transition guard" /\ setup.remote)
     THEN Broken(c)
     ELSE IF at = "guard" /\ setup.remote THEN Broken(Replaced(c, req))
     ELSE IF at = "open" THEN Broken(guarded)
     ELSE Done([guarded EXCEPT
            !.split = [Absent EXCEPT !.up = TRUE, !.rules = req.rules, !.foreign = req.foreign]])

(* WindowsPacketCapture::set_foreign_bypass: stale host routes go, missing *)
(* ones come, and a failure leaves the ones added before it.               *)
set_foreign_routes(c, addresses, added) ==
  LET kept == c.active.foreign \cap addresses
      stale == c.active.foreign \ addresses
  IN [c EXCEPT !.active.foreign = kept \cup added, !.rows = (c.rows \ stale) \cup added]

(* The all-traffic arm: each step up to the last is undone by the drop of  *)
(* the half-built capture.                                                 *)
StartAll(c, req, at) ==
  LET bare == Replaced(c, req)
      routed == [bare EXCEPT
        !.active = [up |-> TRUE, rules |-> NoRules, routes |-> Own \cup Halves,
                    foreign |-> req.foreign, dns |-> FALSE],
        !.rows = bare.rows \cup req.foreign \cup Own \cup Halves]
      guarded == [routed EXCEPT !.guard = GuardFor("adapter")]
  IN CASE at = "transition guard" /\ setup.remote -> Broken(c)
       [] at \in {"adapter", "route"} -> Broken(bare)
       [] at = "guard" /\ setup.remote -> Broken(Teardown(routed))
       [] at = "open" /\ setup.remote -> Broken(Teardown(guarded))
       [] OTHER -> Done([guarded EXCEPT !.active.dns = setup.remote])

start(c, req, at) ==
  IF req.mode = "split" THEN StartSplit(c, req, at) ELSE StartAll(c, req, at)

update(c, req, at) ==
  IF ~c.split.up \/ req.mode # "split" THEN Broken(c) ELSE start(c, req, at)

set_foreign_bypass(c, addresses, at) ==
  LET req == [c.last EXCEPT !.foreign = addresses]
      missing == addresses \ c.active.foreign
  IN IF c.last = NoRequest THEN Done(c)
     ELSE CASE c.active.up /\ at = "route" /\ missing # {} ->
                 Broken(set_foreign_routes(c, addresses, {}))
            [] c.active.up /\ at = "later route" /\ Cardinality(missing) > 1 ->
                 Broken(set_foreign_routes(c, addresses, {CHOOSE a \in missing : TRUE}))
            [] c.active.up /\ at \notin {"route", "later route"} ->
                 Done([set_foreign_routes(c, addresses, missing) EXCEPT !.last = req])
            [] ~c.active.up /\ c.split.up -> start(c, req, at)
            [] OTHER -> Done([c EXCEPT !.last = req])

(* set_direct: routes are replaced in place under all traffic, the split   *)
(* capture is reopened, and without a capture the list is only remembered. *)
set_direct(c, at) ==
  IF c.last # NoRequest /\ ~c.active.up /\ c.split.up THEN start(c, c.last, at) ELSE Done(c)

stop(c) == Done([Teardown(c) EXCEPT !.split = Absent, !.last = NoRequest, !.guard = "none"])

handle_request(c, m, at) ==
  CASE m.cmd = "start" -> start(c, m.req, at)
    [] m.cmd = "update" -> update(c, m.req, at)
    [] m.cmd = "foreign" -> set_foreign_bypass(c, m.req.foreign, at)
    [] m.cmd = "direct" -> set_direct(c, at)
    [] m.cmd \in {"stop", "end"} -> stop(c)

Points == {"none", "policy", "transition guard", "guard", "adapter", "route", "later route", "open"}

(* main: one request at a time, in order.                                  *)
EngineHandles ==
  /\ inbox # << >> /\ phase \notin {"ended", "killed"}
  /\ \E at \in Points :
       LET answer == handle_request(cap, Head(inbox), at)
       IN /\ at # "none" => failures < MaxFailures /\ ~answer.ok
          /\ failures' = IF at = "none" THEN failures ELSE failures + 1
          /\ cap' = answer.cap
          /\ reopenLost' = (/\ ~answer.cap.split.up
                            /\ \/ reopenLost
                               \/ cap.split.up /\ Head(inbox).cmd \in {"foreign", "direct"})
          /\ outbox' = Append(outbox, [id |-> Head(inbox).id, ok |-> answer.ok])
  /\ inbox' = Tail(inbox)
  /\ UNCHANGED <<setup, phase, rules, foreign, op, nextId, ruleEdits, timeouts, unrestored>>

-----------------------------------------------------------------------------
(* The service's side.  The slot's lock is held for the whole operation.   *)

Idle0 == phase = "connected" /\ op = Waiting

Editing == ruleEdits < MaxRuleEdits /\ ruleEdits' = ruleEdits + 1

(* update_session_rules: no targets and no remote DNS pause the capture.   *)
EditRules(r) ==
  /\ Idle0 /\ Editing /\ setup.mode = "split"
  /\ CASE r = NoRules /\ ~setup.remote -> request("pause", "stop", NoRequest, r)
       [] rules = NoRules /\ ~(r = NoRules /\ ~setup.remote) ->
            request("edit", "start", capture_request(r), r)
       [] OTHER -> request("edit", "update", capture_request(r), r)
  /\ UNCHANGED <<setup, phase, rules, foreign, outbox, cap, timeouts, failures, unrestored, reopenLost>>

(* update_session_direct: only the VPN's.                                  *)
EditDirect ==
  /\ Idle0 /\ Editing /\ setup.vpn
  /\ request("direct", "direct", NoRequest, rules)
  /\ UNCHANGED <<setup, phase, rules, foreign, outbox, cap, timeouts, failures, unrestored, reopenLost>>

(* reconcile_other_session: the game is only told of the other's lookups,  *)
(* which changes nothing here.                                             *)
OtherSessionChanges(f) ==
  /\ Idle0 /\ Editing /\ setup.vpn /\ f # foreign
  /\ foreign' = f
  /\ request("foreign", "foreign", [NoRequest EXCEPT !.foreign = f], rules)
  /\ UNCHANGED <<setup, phase, rules, outbox, cap, timeouts, failures, unrestored, reopenLost>>

(* shut_down.                                                              *)
StopSession ==
  /\ Idle0
  /\ request("end", "end", NoRequest, rules)
  /\ UNCHANGED <<setup, phase, rules, foreign, outbox, cap, ruleEdits, timeouts, failures, unrestored, reopenLost>>

Release == op' = Waiting

Confirmed(r) ==
  /\ rules' = r /\ phase' = IF phase = "starting" THEN "connected" ELSE phase
  /\ unrestored' = FALSE
  /\ Release /\ UNCHANGED <<inbox, nextId>>

(* What each operation does with its answer.                               *)
Succeeded ==
  CASE op.kind \in {"first", "edit", "pause"} -> Confirmed(op.want)
    [] op.kind \in {"direct", "foreign", "restore"} ->
         Release /\ UNCHANGED <<phase, rules, inbox, nextId, unrestored>>
    [] op.kind = "end" -> phase' = "ended" /\ Release
                          /\ UNCHANGED <<rules, inbox, nextId, unrestored>>

(* A rejected edit restores the last confirmed policy; a session that      *)
(* never started, or whose stop fails, loses its engine.                   *)
Rejected ==
  CASE op.kind = "edit" ->
         /\ IF rules = NoRules THEN request("restore", "stop", NoRequest, rules)
                               ELSE request("restore", "start", capture_request(rules), rules)
         /\ UNCHANGED <<phase, rules, unrestored>>
    [] op.kind = "direct" ->
         request("restore", "direct", NoRequest, rules) /\ UNCHANGED <<phase, rules, unrestored>>
    [] op.kind \in {"restore", "pause"} ->
         unrestored' = TRUE /\ Release /\ UNCHANGED <<phase, rules, inbox, nextId>>
    [] op.kind = "foreign" ->
         Release /\ UNCHANGED <<phase, rules, inbox, nextId, unrestored>>
    [] op.kind = "first" ->
         request("end", "end", NoRequest, rules) /\ UNCHANGED <<phase, rules, unrestored>>
    [] op.kind = "end" -> phase' = "killed" /\ Release
                          /\ UNCHANGED <<rules, inbox, nextId, unrestored>>

(* await_response: replies to requests given up on are skipped.            *)
(* Mutant: whatever arrives is the answer. *)
Answered_any(m) == IF m.ok THEN Succeeded ELSE Rejected

Answered(m) ==
  IF m.id < op.id
  THEN UNCHANGED <<phase, rules, op, inbox, nextId, unrestored>>
  ELSE IF m.ok THEN Succeeded ELSE Rejected

await_response ==
  /\ op # Waiting /\ outbox # << >>
  /\ Answered(Head(outbox))
  /\ outbox' = Tail(outbox)
  /\ UNCHANGED <<setup, foreign, cap, ruleEdits, timeouts, failures, reopenLost>>

request_timeout ==
  /\ op # Waiting /\ timeouts < MaxTimeouts
  /\ timeouts' = timeouts + 1
  /\ Rejected
  /\ UNCHANGED <<setup, foreign, outbox, cap, ruleEdits, failures, reopenLost>>

KNext ==
  \/ EngineHandles
  \/ \E r \in Rules : EditRules(r)
  \/ EditDirect
  \/ \E f \in ForeignSets : OtherSessionChanges(f)
  \/ StopSession
  \/ await_response
  \/ request_timeout

KSpec == KInit /\ [][KNext]_kVars

-----------------------------------------------------------------------------
KTypeOK ==
  /\ phase \in {"starting", "connected", "ended", "killed"}
  /\ rules \in Rules /\ foreign \in ForeignSets
  /\ op.kind \in {"none", "first", "edit", "pause", "direct", "foreign", "restore", "end"}
  /\ \A i \in DOMAIN inbox : inbox[i].id < nextId
  /\ \A i \in DOMAIN outbox : outbox[i].id < nextId
  /\ cap.guard \in {"none", "v6", "adapter"}
  /\ \A n \in {ruleEdits, timeouts, failures} : n \in Nat

(* Nothing of the session is under way, late requests included.            *)
Quiet == Idle0 /\ inbox = << >>

Serving ==
  CASE setup.mode = "all" -> cap.active.up
    [] setup.mode = "split" /\ rules = NoRules -> ~cap.split.up
    [] OTHER -> cap.split.up /\ cap.split.rules = rules

Owned == cap.active.routes \cup cap.active.foreign
Shared == Own \cap UNION ForeignSets

(* Windows holds the routes, resolvers and guard of the capture that runs  *)
(* and no others, through every replacement, failed start and stop: no row *)
(* outlives its capture, none goes missing under it (except a host route   *)
(* both sessions' lists name), and a session that answered its stop leaves *)
(* nothing behind (WindowsPacketCapture's Drop, PacketCaptureManager::stop).*)
RoutesAreOwned ==
  /\ cap.rows \subseteq Owned /\ Owned \ Shared \subseteq cap.rows
  /\ cap.split.up \/ cap.active.up => (cap.guard # "none") = setup.remote
  /\ cap.active.up => cap.active.dns = setup.remote /\ ~cap.split.up
  /\ phase = "ended" => [cap EXCEPT !.last = NoRequest] = Cleared

(* The engine captures the rule set the service last confirmed: whatever   *)
(* requests time out and are carried out late, whatever edit fails midway  *)
(* after the old handles are closed, the restored policy is the one that   *)
(* stands, unless the failure to restore it was itself reported            *)
(* (update_session_rules, await_response).  A capture lost while it was    *)
(* reopened for the other session or the direct list is the one exception: *)
(* nothing restores it.  All the while Windows holds what the capture that *)
(* runs needs and no more.                                                 *)
CaptureFollowsTheRules ==
  KTypeOK /\ RoutesAreOwned /\ (Quiet /\ ~unrestored /\ ~reopenLost => Serving)
=============================================================================
