----------------------------- MODULE LossRepair -----------------------------
(***************************************************************************)
(* The control of loss repair: how client and relay agree on it, and how   *)
(* the client learns from its probes how much of it is needed.             *)
(***************************************************************************)
EXTENDS Integers, Sequences, FiniteSets, SequencesExt

(* How client and relay agree on loss repair for the relay's replies         *)
(* (engine/src/session/repair.rs offer_due and accepted, the offer and       *)
(* accept frames of engine/src/fec.rs, relay/src/main.rs                     *)
(* apply_repair_offer).                                                      *)
(*                                                                           *)
(* Every path worker asks in each pass whether an offer is due.  The offer   *)
(* names the group size and MTU the client wants; the relay applies it       *)
(* unless it has applied a newer one, and confirms the size in use.  Frames  *)
(* are lost and overtake each other, the relay restarts and forgets, and     *)
(* what the client wants changes meanwhile.                                  *)
(*                                                                           *)
(* Sequence numbers only order offers, so the offers in flight are kept in   *)
(* sending order and marked once the relay has applied a newer one.          *)

CONSTANTS OfferWorkers,     \* the path workers
          Wanted,           \* what probes, scheduler, policy and MTU probe may come to
          OFFER_LIMIT,
          MaxInFlight,      \* bound: frames in flight in one direction
          MaxWants,         \* bound: changes of what the client wants
          MaxDrops,         \* bound: frames the network loses
          MaxRestarts       \* bound: restarts of the relay

VARIABLES wants,            \* healthy mask, decision mask, multipath_group, MTU
          offering,         \* support, downlink_group, offered_mtu, unanswered, waited
          turn,             \* worker -> the offer it is about to send
          offers,           \* offers on their way to the relay, in sending order
          accepts,          \* accepts on their way to the client
          replies,          \* the relay's RepairState and reply_mtu
          mishaps            \* how often each bounded event has happened

negVars == <<wants, offering, turn, offers, accepts, replies, mishaps>>

NotAsked == [stage |-> "none"]
NoRepair == [group |-> 0, mtu |-> 0]

\* waited: how much of the retry intervals has passed since the last offer.
OFFER_RETRY == 1
OFFER_REFRESH == 2
LEGACY_OFFER_RETRY == 3

NegInit ==
    /\ wants \in {w \in Wanted : w.healthy = {}}
    /\ offering = [support |-> "unknown", downlink |-> 0, mtu |-> 0,
                   unanswered |-> 0, waited |-> LEGACY_OFFER_RETRY]
    /\ turn = [w \in OfferWorkers |-> NotAsked]
    /\ offers = << >>
    /\ accepts = << >>
    /\ replies = NoRepair
    /\ mishaps = [wants |-> 0, drops |-> 0, restarts |-> 0]

Happens(kind, bound) ==
    /\ mishaps[kind] < bound
    /\ mishaps' = [mishaps EXCEPT ![kind] = @ + 1]

-----------------------------------------------------------------------------
(* The client.                                                               *)

\* group_size_for: one data copy is protected packet by packet.
desired_group ==
    LET chosen == wants.decision \cap wants.healthy
        carrying == IF chosen # {} THEN chosen ELSE wants.healthy
    IN IF Cardinality(carrying) >= 2 THEN wants.multi ELSE 1

\* The probes, the scheduler, the policy and the MTU probe move on.
Wants ==
    /\ Happens("wants", MaxWants)
    /\ wants' \in Wanted \ {wants}
    /\ UNCHANGED <<offering, turn, offers, accepts, replies>>

in_step ==
    /\ offering.support = "supported"
    /\ offering.downlink = desired_group
    /\ offering.mtu = wants.mtu

retry == IF in_step THEN OFFER_REFRESH
         ELSE IF offering.support = "legacy" THEN LEGACY_OFFER_RETRY ELSE OFFER_RETRY

(* Mutant: a client that is in step never offers again. *)
offer_due_once(w) ==
    /\ w \in wants.healthy
    /\ turn[w] = NotAsked
    /\ ~in_step
    /\ offering.waited >= retry
    /\ turn' = [turn EXCEPT ![w] = [stage |-> "due", support |-> offering.support,
                                    group |-> desired_group, mtu |-> wants.mtu]]
    /\ UNCHANGED <<wants, offering, offers, accepts, replies, mishaps>>

\* offer_due up to the compare_exchange: several workers may see it due.
offer_due(w) ==
    /\ w \in wants.healthy
    /\ turn[w] = NotAsked
    /\ offering.waited >= retry
    /\ turn' = [turn EXCEPT ![w] = [stage |-> "due", support |-> offering.support,
                                    group |-> desired_group, mtu |-> wants.mtu]]
    /\ UNCHANGED <<wants, offering, offers, accepts, replies, mishaps>>

\* One of them gets the turn; the exchange of the others fails.
TakeTurn(w) ==
    LET counted == IF turn[w].support = "unknown" /\ offering.unanswered < OFFER_LIMIT
                   THEN offering.unanswered + 1 ELSE offering.unanswered
        gives_up == /\ turn[w].support = "unknown"
                    /\ counted >= OFFER_LIMIT
                    /\ offering.support = "unknown"
    IN /\ turn[w].stage = "due"
       /\ offering' = [offering EXCEPT
              !.waited = 0, !.unanswered = counted, !.mtu = turn[w].mtu,
              !.support = IF gives_up THEN "legacy" ELSE @]
       /\ turn' = [v \in OfferWorkers |->
                      IF v = w THEN [turn[w] EXCEPT !.stage = "sends"]
                      ELSE IF turn[v].stage = "due" THEN NotAsked ELSE turn[v]]
       /\ UNCHANGED <<wants, offers, accepts, replies, mishaps>>

\* The worker draws the sequence and sends on its own path.
SendOffer(w) ==
    /\ turn[w].stage = "sends"
    /\ Len(offers) < MaxInFlight
    /\ offers' = Append(offers, [group |-> turn[w].group, mtu |-> turn[w].mtu,
                                 overtaken |-> FALSE])
    /\ turn' = [turn EXCEPT ![w] = NotAsked]
    /\ UNCHANGED <<wants, offering, accepts, replies, mishaps>>

offer_accepted(n) ==
    /\ n \in 1..Len(accepts)
    /\ offering' = [offering EXCEPT !.unanswered = 0, !.downlink = accepts[n],
                                    !.support = "supported"]
    /\ accepts' = RemoveAt(accepts, n)
    /\ UNCHANGED <<wants, turn, offers, replies, mishaps>>

OfferClock ==
    /\ offering.waited < LEGACY_OFFER_RETRY
    /\ offering' = [offering EXCEPT !.waited = @ + 1]
    /\ UNCHANGED <<wants, turn, offers, accepts, replies, mishaps>>

-----------------------------------------------------------------------------
(* The relay.                                                                *)

\* The offers in flight, without the n-th, once it has been applied.
AfterOffer(n) ==
    [m \in 1..(Len(offers) - 1) |->
        IF m < n THEN [offers[m] EXCEPT !.overtaken = TRUE] ELSE offers[m + 1]]


\* An offer older than the one applied changes nothing and is still answered.
apply_repair_offer(n) ==
    LET offer == offers[n]
    IN /\ n \in 1..Len(offers)
       /\ Len(accepts) < MaxInFlight
       /\ offers' = IF offer.overtaken THEN RemoveAt(offers, n) ELSE AfterOffer(n)
       /\ replies' = IF offer.overtaken THEN replies
                                        ELSE [group |-> offer.group, mtu |-> offer.mtu]
       /\ accepts' = Append(accepts, replies'.group)
       /\ UNCHANGED <<wants, offering, turn, mishaps>>

\* A restarted relay has no RepairState: any offer in flight is new to it.
RelayForgets ==
    /\ Happens("restarts", MaxRestarts)
    /\ replies' = NoRepair
    /\ offers' = [n \in 1..Len(offers) |-> [offers[n] EXCEPT !.overtaken = FALSE]]
    /\ UNCHANGED <<wants, offering, turn, accepts>>

NetworkDrops ==
    /\ Happens("drops", MaxDrops)
    /\ \/ \E n \in 1..Len(offers) : offers' = RemoveAt(offers, n) /\ UNCHANGED accepts
       \/ \E n \in 1..Len(accepts) : accepts' = RemoveAt(accepts, n) /\ UNCHANGED offers
    /\ UNCHANGED <<wants, offering, turn, replies>>

NegNext ==
    \/ Wants
    \/ \E w \in OfferWorkers : offer_due(w) \/ TakeTurn(w) \/ SendOffer(w)
    \/ OfferClock
    \/ \E n \in 1..MaxInFlight : offer_accepted(n) \/ apply_repair_offer(n)
    \/ RelayForgets
    \/ NetworkDrops

NegSpec == NegInit /\ [][NegNext]_negVars

\* Workers keep passing, time keeps passing, and a frame that is not lost
\* arrives.
NegFairness ==
    /\ \A w \in OfferWorkers :
           WF_negVars(offer_due(w)) /\ WF_negVars(TakeTurn(w)) /\ WF_negVars(SendOffer(w))
    /\ WF_negVars(OfferClock)
    /\ WF_negVars(offer_accepted(1)) /\ WF_negVars(apply_repair_offer(1))

-----------------------------------------------------------------------------
NegTypeOK ==
    /\ wants \in Wanted
    /\ offering \in [support : {"unknown", "supported", "legacy"}, downlink : {0, 1, 2, 4},
                     mtu : Nat, unanswered : 0..OFFER_LIMIT,
                     waited : 0..LEGACY_OFFER_RETRY]
    /\ Len(offers) <= MaxInFlight /\ Len(accepts) <= MaxInFlight
    /\ replies.group \in {0, 1, 2, 4}

Agreed ==
    /\ replies = [group |-> desired_group, mtu |-> wants.mtu]
    /\ offering.support = "supported"
    /\ offering.downlink = desired_group

(* Whatever was lost, overtaken or forgotten, and however often the client   *)
(* changed its mind: while some path is up, the relay ends up protecting its *)
(* replies with the group and MTU the client wants now, the client knows it, *)
(* and it stays so.  A run of unanswered offers that had the relay reported  *)
(* as too old does not end the negotiation.                                  *)
OffersConverge == <>[](wants.healthy # {}) => <>[]Agreed

Overtaken == {n \in 1..Len(offers) : offers[n].overtaken}


-----------------------------------------------------------------------------
(* What a relay session learns from its probes about how its paths lose      *)
(* packets, and the repair group it chooses from that                        *)
(* (engine/src/fec.rs ProbeHistory and MultipathPolicy,                      *)
(* engine/src/session/repair.rs record_probe, called by the path workers of  *)
(* engine/src/session/relay_worker.rs).                                      *)
(*                                                                           *)
(* A path keeps the outcomes of its last LOSS_WINDOW probes.  The run of     *)
(* losses that ends with the path being declared down is an outage, not loss *)
(* of a path that carries, and is to be forgotten.  The lowest loss among    *)
(* the carrying paths, held long enough, shrinks the group or grows it back. *)
(*                                                                           *)
(* An outcome is the number of its probe, so the ghost log can say what the  *)
(* outcome was and whether it belongs to an outage.  Time only matters to    *)
(* the policy, which counts how long a crossing has lasted.                  *)

CONSTANTS ProbePaths,       \* the paths of the session
          LOSS_WINDOW, MIN_LOSS_SAMPLES, FAILURE_THRESHOLD,
          LOSSY_AFTER, RECOVERED_AFTER,
          MaxOutcomes       \* bound: probes of one path

VARIABLES history,          \* path -> the outcomes kept, oldest first
          misses,           \* path -> failures: consecutive unanswered probes
          upPaths,          \* the healthy mask
          transportGone,    \* path -> reported_transport_failure
          policy,           \* MultipathPolicy: lossy, crossing_since
          plog              \* ghost: path -> its probes, lost or not, outage or not

plVars == <<history, misses, upPaths, transportGone, policy, plog>>

NoCrossing == -1

PlInit ==
    /\ history = [p \in ProbePaths |-> << >>]
    /\ misses = [p \in ProbePaths |-> 0]
    /\ upPaths = {}
    /\ transportGone = [p \in ProbePaths |-> FALSE]
    /\ policy = [lossy |-> FALSE, crossing |-> NoCrossing]
    /\ plog = [p \in ProbePaths |-> << >>]

-----------------------------------------------------------------------------
(* ProbeHistory.                                                             *)

record(h, probe) == IF Len(h) = LOSS_WINDOW THEN Append(Tail(h), probe)
                                            ELSE Append(h, probe)

\* The length of h without its newest unbroken run of losses.
BeforeTheRun(h, log) ==
    LET kept == {n \in 1..Len(h) : ~log[h[n]].lost}
    IN IF kept = {} THEN 0 ELSE CHOOSE n \in kept : \A m \in kept : m <= n

forget_outage(h, log) == SubSeq(h, 1, BeforeTheRun(h, log))

LostOf(h, log) == Cardinality({n \in 1..Len(h) : log[h[n]].lost})

\* A path with too few outcomes counts as clean.
Judged(h) == Len(h) >= MIN_LOSS_SAMPLES

\* LOSSY_PATH_LOSS (10 %) and RECOVERED_PATH_LOSS (4 %).
IsLossy(h, log) == Judged(h) /\ 100 * LostOf(h, log) >= 10 * Len(h)
IsRecovered(h, log) == ~Judged(h) \/ 100 * LostOf(h, log) < 4 * Len(h)

-----------------------------------------------------------------------------
(* MultipathPolicy.  The lowest loss crosses upwards when every carrying     *)
(* path is lossy, downwards when some carrying path has recovered.           *)

\* crossing counts the time since the crossing began.
observe_losses(crosses) ==
    LET hold == IF policy.lossy THEN RECOVERED_AFTER ELSE LOSSY_AFTER
        since == IF policy.crossing = NoCrossing THEN 0 ELSE policy.crossing
    IN IF ~crosses THEN [policy EXCEPT !.crossing = NoCrossing]
       ELSE IF since >= hold
            THEN [lossy |-> ~policy.lossy, crossing |-> NoCrossing]
            ELSE [policy EXCEPT !.crossing = since]

interrupt == [policy EXCEPT !.crossing = NoCrossing]

\* LossRepair::record_probe once the history has been written: decision is
\* what the scheduler has chosen, up the healthy mask it loaded.
Judge(decision, up, h, log) ==
    LET carrying == IF decision \cap up # {} THEN decision \cap up ELSE up
        crosses == IF policy.lossy
                   THEN \E q \in carrying : IsRecovered(h[q], log[q])
                   ELSE \A q \in carrying : IsLossy(h[q], log[q])
    IN IF carrying = {} THEN interrupt ELSE observe_losses(crosses)

-----------------------------------------------------------------------------
(* The worker of a path.                                                     *)

\* Ghost: the newest run of losses turns out to be an outage.
InOutage(log) ==
    LET answered == {n \in 1..Len(log) : ~log[n].lost}
    IN [n \in 1..Len(log) |->
            IF \A m \in answered : n > m THEN [log[n] EXCEPT !.outage = TRUE]
                                         ELSE log[n]]

\* A probe goes unanswered or cannot be sent.  The history is told before the
\* path is declared down, so the loss that takes it down is still recorded.
ProbeLost(p, decision) ==
    LET probe == Len(plog[p]) + 1
        log == Append(plog[p], [lost |-> TRUE, outage |-> FALSE])
        down == p \notin upPaths \/ misses[p] + 1 >= FAILURE_THRESHOLD
        logs == [plog EXCEPT ![p] = log]
    IN /\ probe <= MaxOutcomes
       /\ history' = [history EXCEPT ![p] =
                         IF p \in upPaths THEN record(@, probe)
                                          ELSE forget_outage(@, plog[p])]
       /\ policy' = Judge(decision, upPaths, history', logs)
       /\ misses' = [misses EXCEPT ![p] = IF @ < FAILURE_THRESHOLD THEN @ + 1 ELSE @]
       /\ upPaths' = IF misses'[p] >= FAILURE_THRESHOLD THEN upPaths \ {p} ELSE upPaths
       /\ plog' = [logs EXCEPT ![p] = IF down THEN InOutage(log) ELSE log]
       /\ UNCHANGED transportGone

(* Mutant: a single answer forgets the losses before it. *)
probe_answered_forgets(p, decision) ==
    LET probe == Len(plog[p]) + 1
        log == Append(plog[p], [lost |-> FALSE, outage |-> FALSE])
    IN /\ probe <= MaxOutcomes
       /\ history' = [history EXCEPT ![p] = record(forget_outage(@, plog[p]), probe)]
       /\ policy' = Judge(decision, upPaths \cup {p}, history', [plog EXCEPT ![p] = log])
       /\ misses' = [misses EXCEPT ![p] = 0]
       /\ upPaths' = upPaths \cup {p}
       /\ plog' = [plog EXCEPT ![p] = log]
       /\ UNCHANGED transportGone

\* The relay answers: the path is published healthy first, and after_outage
\* says whether the failures counted so far had taken it down.
ProbeAnswered(p, decision) ==
    LET probe == Len(plog[p]) + 1
        log == Append(plog[p], [lost |-> FALSE, outage |-> FALSE])
        after_outage == misses[p] >= FAILURE_THRESHOLD
    IN /\ probe <= MaxOutcomes
       /\ history' = [history EXCEPT ![p] =
                         record(IF after_outage THEN forget_outage(@, plog[p]) ELSE @,
                                probe)]
       /\ policy' = Judge(decision, upPaths \cup {p}, history', [plog EXCEPT ![p] = log])
       /\ misses' = [misses EXCEPT ![p] = 0]
       /\ upPaths' = upPaths \cup {p}
       /\ plog' = [plog EXCEPT ![p] = log]
       /\ UNCHANGED transportGone

\* The transport says it is gone: the path is taken out of service at once.
TransportGone(p) ==
    /\ ~transportGone[p]
    /\ transportGone' = [transportGone EXCEPT ![p] = TRUE]
    /\ misses' = [misses EXCEPT ![p] = FAILURE_THRESHOLD]
    /\ upPaths' = upPaths \ {p}
    /\ plog' = [plog EXCEPT ![p] = InOutage(@)]
    /\ UNCHANGED <<history, policy>>

\* A redial, scheduled by FAILURE_THRESHOLD failures, hands its replacement
\* over: it has to prove itself, and its failures are counted anew.
TransportReplaced(p) ==
    /\ misses[p] >= FAILURE_THRESHOLD
    /\ misses' = [misses EXCEPT ![p] = 0]
    /\ upPaths' = upPaths \ {p}
    /\ transportGone' = [transportGone EXCEPT ![p] = FALSE]
    /\ UNCHANGED <<history, policy, plog>>

\* Time passes while a crossing lasts.
CrossingLasts ==
    /\ policy.crossing \in 0..(RECOVERED_AFTER - 1)
    /\ policy' = [policy EXCEPT !.crossing = @ + 1]
    /\ UNCHANGED <<history, misses, upPaths, transportGone, plog>>

PlNext ==
    \/ \E p \in ProbePaths :
           \/ \E decision \in (SUBSET ProbePaths) \ {{}} :
                  ProbeLost(p, decision) \/ ProbeAnswered(p, decision)
           \/ TransportGone(p)
           \/ TransportReplaced(p)
    \/ CrossingLasts

PlSpec == PlInit /\ [][PlNext]_plVars

-----------------------------------------------------------------------------
PlTypeOK ==
    /\ history \in [ProbePaths -> BoundedSeq(1..MaxOutcomes, LOSS_WINDOW)]
    /\ misses \in [ProbePaths -> 0..FAILURE_THRESHOLD]
    /\ upPaths \subseteq ProbePaths
    /\ transportGone \in [ProbePaths -> BOOLEAN]
    /\ policy \in [lossy : BOOLEAN, crossing : NoCrossing..RECOVERED_AFTER]

Scattered(p) == {n \in 1..Len(plog[p]) : ~plog[p][n].outage}

(* Forgetting outages never loses the loss of a path that stays up: of the   *)
(* outcomes outside any outage, a path's history keeps the newest ones, in   *)
(* order and without a gap, whatever outages, redials and vanished           *)
(* transports came between them.                                             *)
ScatteredLossIsKept ==
    /\ PlTypeOK
    /\ \A p \in ProbePaths :
           LET kept == ToSet(history[p]) \cap Scattered(p)
           IN /\ \A n \in 2..Len(history[p]) : history[p][n - 1] < history[p][n]
              /\ \A n \in kept, m \in Scattered(p) : m > n => m \in kept
              /\ Scattered(p) # {} /\ Len(plog[p]) <= LOSS_WINDOW
                     => kept = Scattered(p)

(* "the run of losses that ended in a path being declared down is forgotten  *)
(* here" (engine/src/fec.rs, ProbeHistory): the history of a path in service *)
(* holds no outcome of an outage.                                            *)
OutagesAreForgotten ==
    \A p \in upPaths : ToSet(history[p]) \subseteq Scattered(p)
=============================================================================
