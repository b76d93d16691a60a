---------------------------- MODULE PathRecovery ----------------------------
(***************************************************************************)
(* How the workers of one relay session decide that a path is dead and     *)
(* bring it back: engine/src/session/relay_worker.rs (the probe and redial *)
(* parts of run_path), session/dialer.rs, publish_path_health of           *)
(* session/health.rs and the uplink monitor of engine/src/uplink.rs.       *)
(*                                                                         *)
(* Every path has a worker; a redial runs on a thread of its own; the      *)
(* workers share the health mask and the monitor's verdict.  Instants are  *)
(* abstracted: a redial deadline is armed or not and may be found due at   *)
(* any time, and the time since a collapse is none, recent or confirmed    *)
(* (past the confirmation window).                                         *)
(***************************************************************************)
EXTENDS Integers, FiniteSets

CONSTANTS Paths,                 \* the routes of the session
          THRESHOLD,             \* HEALTH_FAILURE_THRESHOLD, RECONNECT_AFTER_FAILURES
          FAILURES_BEFORE_DOWN,  \* unanswered ICMP probes before Down
          IcmpFiltered,          \* the network drops the monitor's probes
          MaxFaults              \* bound: how often the environment misbehaves

ASSUME RecoveryAssumption ==
  /\ Paths # {}
  /\ THRESHOLD \in Nat /\ THRESHOLD >= 2
  /\ FAILURES_BEFORE_DOWN \in Nat \ {0}
  /\ IcmpFiltered \in BOOLEAN
  /\ MaxFaults \in Nat

VARIABLES
  healthy_mask,   \* shared: the paths the dispatcher may choose
  failures,       \* per worker: consecutive failed health checks, saturated at THRESHOLD
  pending_probe,  \* a probe is outstanding
  next_redial,    \* a redial deadline is armed
  dialing,        \* the reconnect attempt the worker owns
  cheap_reopen,   \* the cheap attempt is on offer (shared with the dial thread)
  common_mode_since, carried_traffic, reported_transport_failure,
  threads,        \* how many dial threads of the path are in each phase
  uplink,         \* the monitor: its counters and the published state
  link,           \* environment: the machine's uplink carries packets
  broken,         \* environment: paths whose transport needs a new dial
  faults,         \* environment: faults so far
  answered,       \* history: the current transport has answered a probe
  cheap_taken     \* history: cheap dials since the path last answered

worker == <<pending_probe, failures, next_redial>>
redial == <<dialing, threads, cheap_reopen, cheap_taken>>
shared == <<common_mode_since, carried_traffic>>
env    == <<link, broken, faults>>
vars   == <<healthy_mask, worker, redial, shared, reported_transport_failure,
            uplink, env, answered>>

Phases == {"starting", "Cheap", "Full"}

NoDial  == [state |-> "none", superseded |-> FALSE, intact |-> FALSE]
NewDial == [NoDial EXCEPT !.state = "waiting"]

Init ==
  /\ healthy_mask = {}
  /\ failures = [p \in Paths |-> 0]
  /\ pending_probe = [p \in Paths |-> FALSE]
  /\ next_redial = [p \in Paths |-> FALSE]
  /\ dialing = [p \in Paths |-> NoDial]
  /\ cheap_reopen = [p \in Paths |-> TRUE]
  /\ common_mode_since = [p \in Paths |-> "none"]
  /\ carried_traffic = [p \in Paths |-> FALSE]
  /\ reported_transport_failure = [p \in Paths |-> FALSE]
  /\ threads = [p \in Paths |-> [phase \in Phases |-> 0]]
  /\ uplink = [failures |-> 0, ever_answered |-> FALSE, state |-> "Unknown"]
  /\ link = TRUE
  /\ broken = {}
  /\ faults = 0
  /\ answered = [p \in Paths |-> FALSE]
  /\ cheap_taken = [p \in Paths |-> 0]

(* Something goes wrong that the state of the network does not excuse.     *)
Fault == faults < MaxFaults /\ faults' = faults + 1
Excused(reason) == IF reason THEN UNCHANGED faults ELSE Fault

-----------------------------------------------------------------------------
(* Helpers of dialer.rs and health.rs.                                     *)

publish_path_health(p, healthy) ==
  healthy_mask' = IF healthy THEN healthy_mask \cup {p} ELSE healthy_mask \ {p}

(* An armed deadline is left alone.                                        *)
schedule_redial(p, f) == IF f >= THRESHOLD THEN TRUE ELSE next_redial[p]

another_path_is_up(p) == healthy_mask \ {p} # {}

(* Mutant: simultaneous failure holds redials for as long as it lasts.     *)
hold_redial_without_deadline(state, since) ==
  state = "Down" \/ since # "none"

hold_redial_for_common_mode(state, since) ==
  CASE state = "Down"    -> TRUE
    [] state = "Up"      -> since = "recent"
    [] state = "Unknown" -> since # "none"

-----------------------------------------------------------------------------
(* The worker: collecting a dial, then deciding about the next one.        *)

(* ReconnectPoll::Finished(Ok): the replacement has to prove itself.       *)
DialInstalled(p) ==
  /\ dialing[p].state = "ok" /\ ~dialing[p].superseded
  /\ dialing' = [dialing EXCEPT ![p] = NoDial]
  /\ reported_transport_failure' = [reported_transport_failure EXCEPT ![p] = FALSE]
  /\ publish_path_health(p, FALSE)
  /\ failures' = [failures EXCEPT ![p] = 0]
  /\ next_redial' = [next_redial EXCEPT ![p] = FALSE]
  /\ pending_probe' = [pending_probe EXCEPT ![p] = FALSE]
  /\ answered' = [answered EXCEPT ![p] = FALSE]
  /\ broken' = IF dialing[p].intact THEN broken \ {p} ELSE broken \cup {p}
  /\ UNCHANGED <<cheap_reopen, cheap_taken, threads, shared, uplink, link, faults>>

(* ReconnectPoll::Finished(Err): armed again after a longer backoff.       *)
DialFailed(p) ==
  /\ dialing[p].state = "err" /\ ~dialing[p].superseded
  /\ dialing' = [dialing EXCEPT ![p] = NoDial]
  /\ next_redial' = [next_redial EXCEPT ![p] = TRUE]
  /\ UNCHANGED <<healthy_mask, pending_probe, failures, cheap_reopen, cheap_taken,
                 threads, shared, reported_transport_failure, uplink, env, answered>>

(* ReconnectPoll::Discarded: the path answered while the dial ran.         *)
DialDiscarded(p) ==
  /\ dialing[p].state \in {"ok", "err"} /\ dialing[p].superseded
  /\ dialing' = [dialing EXCEPT ![p] = NoDial]
  /\ UNCHANGED <<healthy_mask, worker, cheap_reopen, cheap_taken, threads, shared,
                 reported_transport_failure, uplink, env, answered>>

(* When the worker p first saw every other path down, if the session has   *)
(* carried traffic; kept until another path is up again.                   *)
common_mode_for(p, carried) ==
  IF Cardinality(Paths) > 1 /\ carried /\ ~another_path_is_up(p)
  THEN IF common_mode_since[p] = "none" THEN "recent" ELSE common_mode_since[p]
  ELSE "none"

(* The redial decision, made on every pass of the worker after the poll:   *)
(* nothing due or held for a shared cause (the deadline stays armed),      *)
(* spawned, or put off when no thread starts.                              *)
ConsiderRedial(p) ==
  LET carried == carried_traffic[p] \/ healthy_mask # {}
      since   == common_mode_for(p, carried)
      due     == dialing[p].state = "none" /\ next_redial[p]
      hold    == hold_redial_for_common_mode(uplink.state, since)
  IN /\ dialing[p].state \notin {"ok", "err"}
     /\ carried_traffic' = [carried_traffic EXCEPT ![p] = carried]
     /\ common_mode_since' = [common_mode_since EXCEPT ![p] = since]
     /\ \/ UNCHANGED <<next_redial, dialing, threads, faults>>
        \/ /\ due /\ ~hold
           /\ next_redial' = [next_redial EXCEPT ![p] = FALSE]
           /\ dialing' = [dialing EXCEPT ![p] = NewDial]
           /\ threads' = [threads EXCEPT ![p]["starting"] = @ + 1]
           /\ UNCHANGED faults
        \/ /\ due /\ ~hold /\ Fault
           /\ UNCHANGED <<next_redial, dialing, threads>>
     /\ UNCHANGED <<healthy_mask, pending_probe, failures, cheap_reopen, cheap_taken,
                    reported_transport_failure, uplink, link, broken, answered>>

-----------------------------------------------------------------------------
(* The worker: health checks, each in a pass whose redial decision has     *)
(* already been made on the mask as it is.                                 *)

Decided(p) ==
  /\ healthy_mask # {} => carried_traffic[p]
  /\ common_mode_since[p] = common_mode_for(p, carried_traffic[p])
  /\ dialing[p].state \notin {"ok", "err"}

(* One more failed check; a run of THRESHOLD takes the path out.           *)
Miss(p, f) ==
  /\ failures' = [failures EXCEPT ![p] = f]
  /\ IF f >= THRESHOLD THEN publish_path_health(p, FALSE) ELSE UNCHANGED healthy_mask
  /\ next_redial' = [next_redial EXCEPT ![p] = schedule_redial(p, f)]

OneMore(p) == IF failures[p] < THRESHOLD THEN failures[p] + 1 ELSE THRESHOLD

(* transport_failed(): acted on once per transport.                        *)
TransportFailed(p) ==
  /\ Decided(p) /\ p \in broken /\ ~reported_transport_failure[p]
  /\ reported_transport_failure' = [reported_transport_failure EXCEPT ![p] = TRUE]
  /\ Miss(p, THRESHOLD)
  /\ UNCHANGED <<pending_probe, redial, shared, uplink, env, answered>>

SendProbe(p) ==
  /\ Decided(p) /\ ~pending_probe[p]
  /\ pending_probe' = [pending_probe EXCEPT ![p] = TRUE]
  /\ UNCHANGED <<healthy_mask, failures, next_redial, redial, shared,
                 reported_transport_failure, uplink, env, answered>>

SendProbeFails(p) ==
  /\ Decided(p) /\ ~pending_probe[p]
  /\ Excused(~link \/ p \in broken)
  /\ Miss(p, OneMore(p))
  /\ UNCHANGED <<pending_probe, redial, shared, reported_transport_failure,
                 uplink, link, broken, answered>>

(* The deadline passes unanswered: the probe was lost, or its reply late   *)
(* (a late reply only corrects the deadline, never the verdict).           *)
ProbeExpires(p) ==
  /\ Decided(p) /\ pending_probe[p]
  /\ Excused(~link \/ p \in broken)
  /\ pending_probe' = [pending_probe EXCEPT ![p] = FALSE]
  /\ Miss(p, OneMore(p))
  /\ UNCHANGED <<redial, shared, reported_transport_failure, uplink,
                 link, broken, answered>>

(* Mutant: recovery forgets the running dial instead of superseding it.    *)
recovered_forgets(d) == NoDial

(* ReconnectAttempt::recovered, when a dial is in flight.                  *)
recovered(d) == IF d.state = "none" THEN d ELSE [d EXCEPT !.superseded = TRUE]

(* The authenticated reply to the outstanding probe.                       *)
Pong(p) ==
  /\ Decided(p) /\ pending_probe[p] /\ link /\ p \notin broken
  /\ pending_probe' = [pending_probe EXCEPT ![p] = FALSE]
  /\ publish_path_health(p, TRUE)
  /\ failures' = [failures EXCEPT ![p] = 0]
  /\ next_redial' = [next_redial EXCEPT ![p] = FALSE]
  /\ cheap_reopen' = [cheap_reopen EXCEPT ![p] = TRUE]
  /\ dialing' = [dialing EXCEPT ![p] = recovered(@)]
  /\ answered' = [answered EXCEPT ![p] = TRUE]
  /\ cheap_taken' = [cheap_taken EXCEPT ![p] = 0]
  /\ UNCHANGED <<threads, shared, reported_transport_failure, uplink, env>>

-----------------------------------------------------------------------------
(* The dial thread: it chooses its effort when it starts running, not when *)
(* the worker spawned it, and its result goes to the attempt in the slot.  *)

choose_reopen_effort(p) ==
  cheap_reopen' = [cheap_reopen EXCEPT ![p] = FALSE]

DialThreadStarts(p) ==
  LET effort == IF cheap_reopen[p] THEN "Cheap" ELSE "Full"
  IN /\ threads[p]["starting"] > 0
     /\ choose_reopen_effort(p)
     /\ threads' = [threads EXCEPT ![p]["starting"] = @ - 1, ![p][effort] = @ + 1]
     /\ cheap_taken' = [cheap_taken EXCEPT ![p] = @ + (IF effort = "Cheap" THEN 1 ELSE 0)]
     /\ UNCHANGED <<healthy_mask, worker, dialing, shared, reported_transport_failure,
                    uplink, env, answered>>

(* It opens when the uplink carries it; a cheap reopen of a transport that *)
(* is broken may hand back one that still does not carry.                  *)
DialThreadEnds(p, effort, result, intact) ==
  /\ threads[p][effort] > 0
  /\ intact => result = "ok"
  /\ result = "ok" => link /\ (intact \/ (effort = "Cheap" /\ p \in broken))
  /\ Excused(result = "ok" \/ ~link)
  /\ threads' = [threads EXCEPT ![p][effort] = @ - 1]
  /\ dialing' = [dialing EXCEPT ![p] =
                   IF @.state = "waiting" THEN [@ EXCEPT !.state = result, !.intact = intact]
                                          ELSE @]
  /\ UNCHANGED <<healthy_mask, worker, cheap_reopen, cheap_taken, shared,
                 reported_transport_failure, uplink, link, broken, answered>>

-----------------------------------------------------------------------------
(* The uplink monitor.                                                     *)

(* UplinkVerdict::record, then publish: silence is only evidence once some *)
(* probe has been answered.                                                *)
record(u, reply) ==
  LET f == IF u.failures < FAILURES_BEFORE_DOWN THEN u.failures + 1 ELSE u.failures
  IN IF reply THEN [failures |-> 0, ever_answered |-> TRUE, state |-> "Up"]
     ELSE [failures |-> f, ever_answered |-> u.ever_answered,
           state |-> IF u.ever_answered /\ f >= FAILURES_BEFORE_DOWN THEN "Down" ELSE "Unknown"]

UplinkProbe(reply) ==
  /\ reply => link /\ ~IcmpFiltered
  /\ Excused(reply \/ ~link \/ IcmpFiltered)
  /\ uplink' = record(uplink, reply)
  /\ UNCHANGED <<healthy_mask, worker, redial, shared, reported_transport_failure,
                 link, broken, answered>>

-----------------------------------------------------------------------------
(* Time and the network.                                                   *)

(* COMMON_MODE_CONFIRM_WINDOW has passed since every collapse noted so far.*)
WindowPasses ==
  /\ common_mode_since' = [p \in Paths |-> IF common_mode_since[p] = "none"
                                           THEN "none" ELSE "confirmed"]
  /\ UNCHANGED <<healthy_mask, worker, redial, carried_traffic,
                 reported_transport_failure, uplink, env, answered>>

UplinkFails ==
  /\ link /\ Fault
  /\ link' = FALSE
  /\ UNCHANGED <<healthy_mask, worker, redial, shared, reported_transport_failure,
                 uplink, broken, answered>>

UplinkReturns ==
  /\ ~link
  /\ link' = TRUE
  /\ UNCHANGED <<healthy_mask, worker, redial, shared, reported_transport_failure,
                 uplink, broken, faults, answered>>

(* A provider drops the tunnels of its nodes; nothing short of a dial      *)
(* restores one.                                                           *)
TransportBreaks(nodes) ==
  /\ nodes # {} /\ Fault
  /\ broken' = broken \cup nodes
  /\ UNCHANGED <<healthy_mask, worker, redial, shared, reported_transport_failure,
                 uplink, link, answered>>

WorkerStep(p) ==
  \/ DialInstalled(p) \/ DialFailed(p) \/ DialDiscarded(p)
  \/ ConsiderRedial(p)
  \/ TransportFailed(p)
  \/ SendProbe(p) \/ SendProbeFails(p) \/ ProbeExpires(p) \/ Pong(p)

DialStep(p) ==
  \/ DialThreadStarts(p)
  \/ \E effort \in {"Cheap", "Full"}, result \in {"ok", "err"}, intact \in BOOLEAN :
        DialThreadEnds(p, effort, result, intact)

Steps ==
  \/ \E p \in Paths : WorkerStep(p) \/ DialStep(p)
  \/ \E nodes \in SUBSET Paths : TransportBreaks(nodes)
  \/ \E reply \in BOOLEAN : UplinkProbe(reply)
  \/ UplinkFails \/ UplinkReturns

Next == Steps \/ WindowPasses

Spec == Init /\ [][Next]_vars

(* The worker loops, dial threads end, the monitor probes every two        *)
(* seconds, and time passes; the environment misbehaves finitely often.    *)
Fairness ==
  /\ \A p \in Paths :
       /\ WF_vars(DialInstalled(p)) /\ WF_vars(DialFailed(p)) /\ WF_vars(DialDiscarded(p))
       /\ WF_vars(ConsiderRedial(p))
       /\ WF_vars(SendProbe(p)) /\ WF_vars(ProbeExpires(p)) /\ WF_vars(Pong(p))
       /\ WF_vars(DialStep(p))
  /\ WF_vars(\E reply \in BOOLEAN : UplinkProbe(reply))
  /\ WF_vars(UplinkReturns)
  /\ WF_vars(WindowPasses)

FairSpec == Spec /\ Fairness

-----------------------------------------------------------------------------

DialStates == [state : {"none", "waiting", "ok", "err"}, superseded : BOOLEAN,
               intact : BOOLEAN]

ProbeTypes ==
  /\ healthy_mask \subseteq Paths
  /\ failures \in [Paths -> 0..THRESHOLD]
  /\ pending_probe \in [Paths -> BOOLEAN]
  /\ next_redial \in [Paths -> BOOLEAN]
  /\ reported_transport_failure \in [Paths -> BOOLEAN]
  /\ answered \in [Paths -> BOOLEAN]

DialTypes ==
  /\ dialing \in [Paths -> DialStates]
  /\ cheap_reopen \in [Paths -> BOOLEAN]
  /\ threads \in [Paths -> [Phases -> Nat]]
  /\ cheap_taken \in [Paths -> Nat]

SharedTypes ==
  /\ common_mode_since \in [Paths -> {"none", "recent", "confirmed"}]
  /\ carried_traffic \in [Paths -> BOOLEAN]
  /\ uplink \in [failures : 0..FAILURES_BEFORE_DOWN, ever_answered : BOOLEAN,
                 state : {"Unknown", "Up", "Down"}]

EnvTypes ==
  /\ link \in BOOLEAN
  /\ broken \subseteq Paths
  /\ faults \in 0..MaxFaults

(* Every variable keeps its type.                                          *)
TypeOK == ProbeTypes /\ DialTypes /\ SharedTypes /\ EnvTypes

(* The mask the dispatcher reads is exact, although it is published from   *)
(* four places of the worker: a path is in it iff its current transport    *)
(* has answered a probe ("only an answered probe puts this path back",     *)
(* relay_worker.rs:179) and fewer than THRESHOLD checks in a row have      *)
(* failed since.                                                           *)
MaskExact ==
  \A p \in Paths : p \in healthy_mask <=> answered[p] /\ failures[p] < THRESHOLD

(* A path out of service is never forgotten: a redial is scheduled, or one *)
(* is running whose result will be used.                                   *)
DeadPathHasAPlan ==
  \A p \in Paths : failures[p] >= THRESHOLD =>
     next_redial[p] \/ (dialing[p].state # "none" /\ ~dialing[p].superseded)

Running(p) == threads[p]["starting"] + threads[p]["Cheap"] + threads[p]["Full"]

(* "recovery followed by another outage cannot spawn overlapping           *)
(* connections to the same node" (dialer.rs:67-68).                        *)
OneDialPerNode ==
  \A p \in Paths : Running(p) <= 1

(* The slot outlives the thread, so the next poll learns its result.       *)
SlotOwnsThread ==
  \A p \in Paths :
     dialing[p].state = "waiting" <=> Running(p) = 1

(* "a path can never sit in a loop of cheap reopens that do not fix it"    *)
(* (dialer.rs:33-36): between two answered probes at most one dial takes   *)
(* the cheap route, also when the answer overtakes a dial just spawned.    *)
CheapOncePerOutage ==
  \A p \in Paths : cheap_taken[p] + (IF cheap_reopen[p] THEN 1 ELSE 0) <= 1

(* The inductive invariant.                                                *)
Inv == /\ TypeOK /\ MaskExact /\ DeadPathHasAPlan
       /\ OneDialPerNode /\ SlotOwnsThread /\ CheapOncePerOutage

(* Once the network behaves, every path ends up back in service for good,  *)
(* whatever state the faults left its worker, its transport, its dial and  *)
(* the monitor in.                                                         *)
EveryPathRecovers == <>[](healthy_mask = Paths)
=============================================================================
