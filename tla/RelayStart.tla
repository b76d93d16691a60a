------------------------------ MODULE RelayStart -----------------------------
(***************************************************************************)
(* A relay session's start in the engine, and the routes that join it      *)
(* later (engine/src/session/start.rs, join.rs, session.rs): every node is *)
(* dialled on a thread of its own, the session starts as soon as one route *)
(* is open and every address is known, capture starts once a route has     *)
(* answered, and the other routes pass a gate when their dial ends.        *)
(***************************************************************************)
EXTENDS Integers, Sequences, FiniteSets

CONSTANTS
  LastRoute,      \* routes are numbered from one
  ServedSets,     \* sets of L2TP routes the service may still be dialling
  StartAddresses,      \* what names resolve to; a path's identity too
  JOIN_ATTEMPTS

VARIABLES
  served,         \* the routes it is dialling
  startPhase,          \* dialling, waiting, running, over
  halt,           \* the session's stop flag
  dials,          \* route -> [at, attempt, refused]: its dial thread
  reports,        \* route -> updates of its dial not yet read
  resolved,       \* route -> addresses reported and not yet heard
  heardAddresses,      \* route -> addresses heard
  outcomes,       \* route -> the outcome the start has read
  retries,        \* routes whose failed attempt the start has read
  routed,         \* addresses routed around the capture
  routes,         \* route -> [is, address]
  waiting,        \* service_dials
  reachable       \* routes whose probe was answered

jVars == <<served, startPhase, halt, dials, reports, resolved, heardAddresses, outcomes, retries, routed, routes,
           waiting, reachable>>

All == 1..LastRoute
Unresolved == {"?"}
Unfinished == "none"
Failed == "failed"
Retrying == "retrying"

(* Routes have an address of their own, or one of these in its place.      *)
ASSUME StartConstants ==
  /\ LastRoute \in Nat /\ ServedSets \subseteq SUBSET All
  /\ StartAddresses \cap {"?", Unfinished, Failed, Retrying} = {}

attempts(r) == IF r \in served THEN 1 ELSE JOIN_ATTEMPTS

JInit ==
  /\ served \in ServedSets
  /\ startPhase = "dialling" /\ halt = FALSE
  /\ dials = [r \in All |-> [at |-> "resolve", attempt |-> 1, refused |-> FALSE]]
  /\ reports = [r \in All |-> <<>>]
  /\ resolved = [r \in All |-> Unresolved] /\ heardAddresses = [r \in All |-> Unresolved]
  /\ outcomes = [r \in All |-> Unfinished] /\ retries = {}
  /\ routed = {} /\ routes = [r \in All |-> [is |-> "none", address |-> Unfinished]]
  /\ waiting = served /\ reachable = {}

Started == UNCHANGED <<served, startPhase, halt, heardAddresses, outcomes, retries, routed, routes, waiting, reachable>>

(* endpoint_ipv4s, on the dial's thread.                                   *)
Resolve(r, A) ==
  /\ dials[r].at = "resolve"
  /\ resolved' = [resolved EXCEPT ![r] = A]
  /\ dials' = [dials EXCEPT ![r].at = IF r \in served THEN "service" ELSE "check"]
  /\ UNCHANGED reports /\ Started

(* attach_l2tp_route gives the dial thread the service's final result.     *)
attach_l2tp_route(r, ok) ==
  /\ startPhase \in {"waiting", "running"}
  /\ r \in waiting /\ dials[r].at = "service"
  /\ waiting' = waiting \ {r}
  /\ dials' = [dials EXCEPT ![r].at = "check", ![r].refused = ~ok]
  /\ UNCHANGED <<served, startPhase, halt, reports, resolved, heardAddresses, outcomes, retries, routed, routes,
                 reachable>>

(* begin_dial's loop: stop is read before each attempt, and an attempt may *)
(* end on any address the name has by then.                                *)
Check(r) ==
  /\ dials[r].at = "check"
  /\ dials' = [dials EXCEPT ![r].at = IF halt THEN "gone" ELSE "open"]
  /\ UNCHANGED <<reports, resolved>> /\ Started

Opened(r, a) ==
  /\ dials[r].at = "open" /\ ~dials[r].refused
  /\ reports' = [reports EXCEPT ![r] = Append(@, a)]
  /\ dials' = [dials EXCEPT ![r].at = "gone"]
  /\ UNCHANGED resolved /\ Started

Heard(r) == startPhase = "dialling" \/ routes[r].is = "joining"

OpenFails(r) ==
  LET last == dials[r].attempt = attempts(r)
  IN /\ dials[r].at = "open"
     /\ reports' = [reports EXCEPT ![r] = Append(@, IF last THEN Failed ELSE Retrying)]
     /\ dials' = [dials EXCEPT ![r].at = IF last \/ ~Heard(r) THEN "gone" ELSE "wait"]
     /\ UNCHANGED resolved /\ Started

wait_unless_stopped(r) ==
  /\ dials[r].at = "wait"
  /\ dials' = [dials EXCEPT ![r].at = IF halt THEN "gone" ELSE "check",
                            ![r].attempt = IF halt THEN @ ELSE @ + 1]
  /\ UNCHANGED <<reports, resolved>> /\ Started

ServiceGone(r) ==
  /\ dials[r].at = "service" /\ startPhase = "over"
  /\ dials' = [dials EXCEPT ![r].at = "gone"]
  /\ UNCHANGED <<reports, resolved>> /\ Started

-----------------------------------------------------------------------------
(* The start reads every report waiting.                                   *)
Outcome(r) ==
  IF outcomes[r] # Unfinished \/ r \in served \/ reports[r] = <<>> THEN outcomes[r]
  ELSE LET end == reports[r][Len(reports[r])] IN IF end = Retrying THEN Unfinished ELSE end

Ended(outcome, r) == outcome[r] # Unfinished
IsOpen(outcome, r) == outcome[r] \in StartAddresses

(* When dial_routes returns: one route open and every address known, or    *)
(* nothing left to wait for but retries past their window.                 *)
ready(outcome, known, again, late) ==
  LET open == \E r \in All : IsOpen(outcome, r)
      undecided == {r \in All \ served : ~Ended(outcome, r)}
  IN /\ \A r \in All : known[r] # Unresolved \/ Ended(outcome, r)
     /\ open \/ (undecided \subseteq again /\ (undecided = {} \/ late))

(* The first of several routes that share an identity is kept.             *)
KeptOpen(outcome, r) ==
  IsOpen(outcome, r) /\ \A q \in 1..(r - 1) : outcome[q] # outcome[r]

RouteAtStart(outcome, r) ==
  IF KeptOpen(outcome, r) THEN [is |-> "open", address |-> outcome[r]]
  ELSE IF Ended(outcome, r) THEN [is |-> "skipped", address |-> outcome[r]]
  ELSE [is |-> "joining", address |-> Unfinished]

Resolved(e) == IF e = Unresolved THEN {} ELSE e

(* The addresses of the session's routes, and those the open ones use.     *)
bypass(known, now) ==
  (UNION {Resolved(known[r]) : r \in {q \in All : now[q].is # "skipped"}})
  \cup {now[r].address : r \in {q \in All : now[q].is = "open"}}

(* start_relay, after the dials.                                           *)
start_relay(outcome, known) ==
  LET fails == \A r \in All : ~IsOpen(outcome, r)
      now == [r \in All |-> RouteAtStart(outcome, r)]
  IN /\ startPhase' = IF fails THEN "over" ELSE "waiting"
     /\ halt' = fails
     /\ routes' = now
     /\ routed' = bypass(known, now)

(* One turn of dial_routes: what an event says, the sweep, the decision.   *)
dial_routes(heard, late) ==
  LET known == [r \in All |-> IF r \in heard THEN resolved[r] ELSE heardAddresses[r]]
      outcome == [r \in All |-> Outcome(r)]
      again == retries \cup {r \in All \ served : reports[r] # <<>>}
  IN /\ startPhase = "dialling"
     /\ heardAddresses' = known
     /\ resolved' = [r \in All |-> IF r \in heard THEN Unresolved ELSE resolved[r]]
     /\ outcomes' = outcome /\ retries' = again
     /\ reports' = [r \in All |-> IF r \in served THEN reports[r] ELSE <<>>]
     /\ IF ready(outcome, known, again, late) THEN start_relay(outcome, known)
        ELSE UNCHANGED <<startPhase, halt, routes, routed>>
     /\ UNCHANGED <<served, dials, waiting, reachable>>

-----------------------------------------------------------------------------
Running == UNCHANGED <<served, halt, dials, resolved, heardAddresses, outcomes, retries, routed>>

(* wait_until_ready: every route that has joined answers, or one does      *)
(* after a while; capture starts.                                          *)
wait_until_ready(settled) ==
  LET joined == {r \in All : routes[r].is = "open"}
  IN /\ startPhase = "waiting"
     /\ (joined # {} /\ joined \subseteq reachable) \/ (settled /\ reachable # {})
     /\ startPhase' = "running"
     /\ Running /\ UNCHANGED <<reports, routes, waiting, reachable>>

stop_session ==
  /\ startPhase \in {"waiting", "running"}
  /\ startPhase' = "over" /\ halt' = TRUE
  /\ waiting' = {}
  /\ UNCHANGED <<served, dials, reports, resolved, heardAddresses, outcomes, retries, routed, routes, reachable>>


(* JoinGate::admit.                                                        *)
admit(a) == a \in routed /\ ~(\E r \in All : routes[r] = [is |-> "open", address |-> a])

await_join(r) ==
  LET head == Head(reports[r])
  IN /\ startPhase \in {"waiting", "running"}
     /\ routes[r].is = "joining" /\ reports[r] # <<>>
     /\ reports' = [reports EXCEPT ![r] = Tail(@)]
     /\ routes' = CASE head = Retrying -> routes
                    [] head \in StartAddresses /\ admit(head) ->
                         [routes EXCEPT ![r] = [is |-> "open", address |-> head]]
                    [] OTHER -> [routes EXCEPT ![r] = [is |-> "skipped", address |-> head]]
     /\ Running /\ UNCHANGED <<startPhase, waiting, reachable>>

(* The worker of an open route, whose probe is answered.                   *)
Probe(r) ==
  /\ startPhase = "waiting"
  /\ routes[r].is = "open"
  /\ reachable' = reachable \cup {r}
  /\ Running /\ UNCHANGED <<startPhase, reports, routes, waiting>>

JNext ==
  \/ \E r \in All :
       \/ \E A \in SUBSET StartAddresses : Resolve(r, A)
       \/ \E a \in StartAddresses : Opened(r, a)
       \/ \E ok \in BOOLEAN : attach_l2tp_route(r, ok)
       \/ Check(r) \/ OpenFails(r) \/ wait_unless_stopped(r) \/ ServiceGone(r) \/ await_join(r) \/ Probe(r)
  \/ \E late \in BOOLEAN : \/ dial_routes({}, late)
                           \/ \E r \in All : resolved[r] # Unresolved /\ dial_routes({r}, late)
  \/ (\E settled \in BOOLEAN : wait_until_ready(settled)) \/ stop_session

JSpec == JInit /\ [][JNext]_jVars

-----------------------------------------------------------------------------
JTypeOK ==
  /\ startPhase \in {"dialling", "waiting", "running", "over"}
  /\ \A r \in All : dials[r].at \in {"resolve", "service", "check", "open", "wait", "gone"}

Live == startPhase \in {"waiting", "running"}
Silent(r) == dials[r].at = "gone" /\ reports[r] = <<>>

(* Once a session has started, each of its routes is open, joining or      *)
(* skipped, and what its gate promises holds however its dials ended:      *)
(*  - open routes have different identities and leave by addresses routed  *)
(*    around the capture;                                                  *)
(*  - a route is turned away for its address only when its name did not    *)
(*    have that address before the session started;                        *)
(*  - a joining route still has a dial that will end, and one waiting for  *)
(*    the service can still be given its result;                           *)
(*  - only open routes answer, and the start is never held by dials that   *)
(*    are over.                                                            *)
RoutesAreAccountedFor ==
  /\ JTypeOK
  /\ Live => \A r \in All :
       /\ routes[r].is = "open" =>
            /\ routes[r].address \in routed
            /\ \A q \in All \ {r} : routes[q] # routes[r]
       /\ routes[r].is = "skipped" /\ routes[r].address \in StartAddresses =>
            \/ routes[r].address \notin Resolved(heardAddresses[r])
            \/ \E q \in All : routes[q] = [is |-> "open", address |-> routes[r].address]
       /\ routes[r].is = "joining" => ~Silent(r)
       /\ dials[r].at = "service" => r \in waiting
  /\ \A r \in reachable : routes[r].is = "open"
  /\ startPhase = "dialling" /\ (\A r \in All : resolved[r] = Unresolved /\ heardAddresses[r] # Unresolved)
       /\ (\A r \in All \ served : Silent(r)) =>
       ready(outcomes, heardAddresses, retries, FALSE)
=============================================================================
