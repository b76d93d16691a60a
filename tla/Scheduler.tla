----------------------------- MODULE Scheduler ------------------------------
(***************************************************************************)
(* The path scheduler of a relay session: the figures each probe leaves    *)
(* (engine/src/scheduler.rs PathMetrics), the routes chosen from them      *)
(* (choose_paths_with_incumbent) and the mask the data plane reads         *)
(* (engine/src/session/health.rs update_scheduler_probe, which runs under  *)
(* the metrics' lock).                                                     *)
(*                                                                         *)
(* Times are whole milliseconds, the loss ratio is a percentage.  The      *)
(* smoothed figures keep only their direction: a sample takes a figure to  *)
(* any value of its grid that lies between the old value and the sample.   *)
(* Every threshold is then compared as the code compares it.               *)
(***************************************************************************)
EXTENDS Integers, Sequences, FiniteSets, FiniteSetsExt, SequencesExt

CONSTANTS
  N,                       \* routes of the session; a route is its index
  Strategies,              \* the strategies the session may run
  Profiles,                \* for each route, the grid its figures move on
  PROBES_TO_SETTLE,        \* 10 in the code
  LOSSES_BEFORE_INACTIVE   \* 3 in the code

ASSUME SchedulerAssumption ==
  /\ N \in 1..64
  /\ Strategies \subseteq {"FastestPath", "Duplicate", "Adaptive", "AllPaths"}
  /\ PROBES_TO_SETTLE \in Nat \ {0} /\ LOSSES_BEFORE_INACTIVE \in Nat \ {0}

Routes == 1..N
NoLatency == -1    \* last_latency_ms before the first answer
NoEndpoint == "none"

SETTLED_ROUTES_WANTED == 2
ADAPTIVE_DUPLICATE_DELAY_BUDGET_MS == 100

VARIABLES
  strategy,   \* set when the session starts
  profile,    \* the grid of this behaviour
  fallback,   \* fallback_mask: the routes picked at the start
  metrics,    \* scheduler_metrics
  decision    \* decision_mask

schedulerVars == <<strategy, profile, fallback, metrics, decision>>

-----------------------------------------------------------------------------
(* PathMetrics *)

NewMetrics(endpoint) ==
  [endpoint |-> endpoint, active |-> TRUE, latency |-> 0, jitter |-> 0, loss |-> 0,
   last |-> NoLatency, consecutive_losses |-> 0, unsettled |-> 0]

(* What smoothing may make of a figure that was `old`, given `sample`.     *)
ewma(grid, old, sample) ==
  {old} \cup {x \in grid : (old <= x /\ x <= sample) \/ (sample <= x /\ x <= old)}

(* A probe this far above the smoothed round trip is a spike.              *)
Spikes(m, sample) == sample - m.latency >= Max({25, m.latency \div 2})

(* The metrics an answered probe may leave.                                *)
record_probe(m, grid, sample) ==
  LET answered == [m EXCEPT !.active = TRUE, !.last = sample, !.consecutive_losses = 0]
      deviation == IF sample > m.latency THEN sample - m.latency ELSE m.latency - sample
  IN IF m.last = NoLatency
     THEN {[answered EXCEPT !.latency = sample, !.loss = l] : l \in ewma(grid.loss, m.loss, 0)}
     ELSE {[answered EXCEPT !.latency = t, !.jitter = j, !.loss = l,
                            !.unsettled = IF Spikes(m, sample) THEN PROBES_TO_SETTLE
                                          ELSE IF @ = 0 THEN 0 ELSE @ - 1] :
             t \in ewma(grid.latency, m.latency, sample),
             j \in ewma(grid.jitter, m.jitter, deviation),
             l \in ewma(grid.loss, m.loss, 0)}


(* The metrics a lost probe may leave.                                     *)
record_loss(m, grid) ==
  LET losses == m.consecutive_losses + 1
  IN {[m EXCEPT !.loss = l, !.consecutive_losses = losses, !.unsettled = PROBES_TO_SETTLE,
                !.active = @ /\ losses < LOSSES_BEFORE_INACTIVE] :
        l \in ewma(grid.loss, m.loss, 100)}

is_settled(m) == m.unsettled = 0
Measured(m) == m.last # NoLatency
Delivery(m) == m.latency + 2 * m.jitter
score(m) == Delivery(m) + 2 * m.loss
degraded(m) == m.loss >= 50 \/ m.jitter >= 50
delivery_delay(m) == Max({Delivery(m), m.last})

shares_endpoint(m, o) == m.endpoint # NoEndpoint /\ m.endpoint = o.endpoint

(* Settled routes, those of one server counted once.                       *)
settled_path_count(ms, routes) ==
  LET settled == {p \in routes : is_settled(ms[p])}
      alone == {p \in settled : ms[p].endpoint = NoEndpoint}
  IN Cardinality(alone) + Cardinality({ms[p].endpoint : p \in settled \ alone})

-----------------------------------------------------------------------------
(* choose_paths_with_incumbent *)

Healthy(ms) == {p \in Routes : ms[p].active /\ Measured(ms[p])}

(* A carrying route keeps its slot unless a challenger is this much ahead. *)
discount(ms, incumbent, p) == IF p \in incumbent THEN 8 + ms[p].jitter ELSE 0

(* The routes in ascending order of cost, the lower index first in a tie.  *)
Ranking(routes, cost(_)) ==
  SetToSortSeq(routes, LAMBDA p, q : cost(p) < cost(q) \/ (cost(p) = cost(q) /\ p < q))

within_budget(ms, p) ==
  delivery_delay(ms[p]) <=
    Min({delivery_delay(ms[q]) : q \in Healthy(ms)}) + ADAPTIVE_DUPLICATE_DELAY_BUDGET_MS

(* The ranking with a comparable route of another server in second place   *)
(* when the best two share a server.                                       *)
PreferOtherServer(ms, ranked) ==
  LET suitable == {i \in DOMAIN ranked :
                     /\ i > 1
                     /\ ~shares_endpoint(ms[ranked[1]], ms[ranked[i]])
                     /\ within_budget(ms, ranked[i]) /\ ~degraded(ms[ranked[i]])}
      backup == ranked[Min(suitable)]
  IN IF shares_endpoint(ms[ranked[1]], ms[ranked[2]]) /\ suitable # {}
     THEN <<ranked[1], backup>> \o
            SelectSeq(Tail(ranked), LAMBDA p : p # backup)
     ELSE ranked

(* Several routes: two to begin with, then settled ones until two settled  *)
(* servers carry, as long as two settled servers exist.                    *)
Expand(ms, ranked, independent) ==
  FoldLeft(LAMBDA chosen, p :
             IF Cardinality(chosen) < 2 THEN chosen \cup {p}
             ELSE IF ~independent \/ settled_path_count(ms, chosen) >= SETTLED_ROUTES_WANTED
             THEN chosen
             ELSE IF within_budget(ms, p) /\ is_settled(ms[p]) THEN chosen \cup {p}
             ELSE chosen,
           {}, ranked)

(* Mutant: a carrier that misbehaves is swapped out.                       *)
KeepCarriers_none(ms, incumbent, independent) == {}

(* Carriers that are not settled stay while two settled servers exist.     *)
KeepCarriers(ms, incumbent, independent) ==
  {p \in Healthy(ms) \cap incumbent : independent /\ ~is_settled(ms[p])}

ShouldDuplicate(ms, s, incumbent, ranked) ==
  \/ s = "Duplicate"
  \/ /\ ~(degraded(ms[ranked[1]]) /\ degraded(ms[ranked[2]]))
     /\ Cardinality({p \in Healthy(ms) :
          within_budget(ms, p) \/ (p \in incumbent /\ ~is_settled(ms[p]))}) >= 2

(* The routes to carry traffic; none stands for Decision::Drop.            *)
choose_paths_with_incumbent(ms, s, incumbent) ==
  LET healthy == Healthy(ms)
      measured == {p \in Routes : Measured(ms[p])}
      byScore == Ranking(healthy, LAMBDA p : score(ms[p]) - discount(ms, incumbent, p))
      byDelay == Ranking(measured, LAMBDA p : Delivery(ms[p]) - discount(ms, incumbent, p))
      ranked == IF s = "Adaptive" THEN PreferOtherServer(ms, byScore) ELSE byScore
      independent == settled_path_count(ms, healthy) >= SETTLED_ROUTES_WANTED
  IN CASE measured = {} -> {}
       [] measured # {} /\ healthy = {} -> {byDelay[1]}
       [] measured # {} /\ healthy # {} /\ s = "AllPaths" -> healthy
       [] OTHER ->
            IF Cardinality(healthy) = 1 \/ s = "FastestPath" THEN {byScore[1]}
            ELSE IF ShouldDuplicate(ms, s, incumbent, ranked)
            THEN Expand(ms, ranked, independent) \cup KeepCarriers(ms, incumbent, independent)
            ELSE {ranked[1]}

-----------------------------------------------------------------------------
(* The session *)

mask_for_decision(chosen) == IF chosen = {} THEN fallback ELSE chosen

initial_selection(open, s) ==
  LET limit == CASE s = "AllPaths" -> 64 [] s = "FastestPath" -> 1 [] OTHER -> 2
  IN {p \in open : Cardinality({q \in open : q < p}) < limit}

SchedulerInit ==
  /\ strategy \in Strategies
  /\ profile \in Profiles
  /\ \E open \in (SUBSET Routes) \ {{}} : fallback = initial_selection(open, strategy)
  /\ decision = fallback
  /\ \E e \in [Routes -> UNION {profile[p].endpoint : p \in Routes}] :
       /\ \A p \in Routes : e[p] \in profile[p].endpoint
       /\ metrics = [p \in Routes |-> NewMetrics(e[p])]

(* One route's metrics change and the choice is made again from all.       *)
update_scheduler_probe(p, m) ==
  /\ metrics' = [metrics EXCEPT ![p] = m]
  /\ decision' = mask_for_decision(choose_paths_with_incumbent(metrics', strategy, decision))
  /\ UNCHANGED <<strategy, profile, fallback>>

Answered(p) ==
  \E sample \in profile[p].latency : \E m \in record_probe(metrics[p], profile[p], sample) :
    update_scheduler_probe(p, m)

(* The worker stops reporting losses once HEALTH_FAILURE_THRESHOLD of them *)
(* have taken the path down; both limits are 3.                            *)
Lost(p) ==
  /\ metrics[p].consecutive_losses < LOSSES_BEFORE_INACTIVE
  /\ \E m \in record_loss(metrics[p], profile[p]) : update_scheduler_probe(p, m)

(* A route that was dialled again may reach another address of its server. *)
Redialled(p) ==
  /\ \E e \in profile[p].endpoint \ {metrics[p].endpoint} :
       metrics' = [metrics EXCEPT ![p].endpoint = e]
  /\ UNCHANGED <<strategy, profile, fallback, decision>>

SchedulerNext == \E p \in Routes : Answered(p) \/ Lost(p) \/ Redialled(p)

SchedulerSpec == SchedulerInit /\ [][SchedulerNext]_schedulerVars

-----------------------------------------------------------------------------

SchedulerTypeOK ==
  /\ fallback \subseteq Routes /\ decision \subseteq Routes
  /\ \A p \in Routes :
       /\ metrics[p].consecutive_losses \in 0..LOSSES_BEFORE_INACTIVE
       /\ metrics[p].unsettled \in 0..PROBES_TO_SETTLE

MeasuredRoutes == {p \in Routes : Measured(metrics[p])}
Answering ==
  {p \in MeasuredRoutes : metrics[p].consecutive_losses < LOSSES_BEFORE_INACTIVE}

(* Traffic is carried by routes that answer.  Before the first answer that *)
(* is the pick of the start.  Then no route that lost its last probes      *)
(* carries while another answers, and in a total outage one measured route *)
(* stays armed ("a Drop here becomes the dispatcher's all-path startup     *)
(* fallback", scheduler.rs).  How many carry is what the strategy says.    *)
CarriersAnswer ==
  /\ SchedulerTypeOK
  /\ decision # {}
  /\ MeasuredRoutes = {} => decision = fallback
  /\ Answering # {} => decision \subseteq Answering
  /\ MeasuredRoutes # {} /\ Answering = {} =>
       decision \subseteq MeasuredRoutes /\ Cardinality(decision) = 1
  /\ strategy = "AllPaths" /\ Answering # {} => decision = Answering
  /\ strategy = "FastestPath" => Cardinality(decision) = 1
  /\ strategy = "Duplicate" /\ Cardinality(Answering) >= 2 => Cardinality(decision) >= 2

(* Choosing again from the same figures comes to rest within two choices:  *)
(* the incumbents' advantage never makes two sets of routes take turns     *)
(* ("trading places", scheduler.rs; "keep them through a tie instead of    *)
(* re-deciding the whole set on every probe", health.rs).  One choice is   *)
(* not always enough, since what the first drops no longer counts as a     *)
(* carrier in the second.                                                  *)
ChooseAgain(chosen) ==
  mask_for_decision(choose_paths_with_incumbent(metrics, strategy, chosen))
NoFlapping ==
  LET settled == ChooseAgain(ChooseAgain(decision)) IN ChooseAgain(settled) = settled

(* Trouble on one route brings in another.  While two settled servers that *)
(* are not degraded answer in time, a probe leaves two settled servers     *)
(* among the carriers and takes no carrier out for being unsettled ("an    *)
(* unsettled one brings in the next route instead of being swapped out",   *)
(* scheduler.rs).  The adaptive strategy may shed load instead when two    *)
(* routes are degraded.                                                    *)
SettledInTime(ms) ==
  settled_path_count(ms, {p \in Healthy(ms) : within_budget(ms, p) /\ ~degraded(ms[p])})
MayShed(ms) ==
  strategy = "Adaptive" /\ Cardinality({p \in Healthy(ms) : degraded(ms[p])}) >= 2
TroubleIsBackedUp ==
  [][/\ metrics' # metrics /\ strategy \in {"Duplicate", "Adaptive"}
     /\ \A p \in Routes : metrics'[p].endpoint = metrics[p].endpoint
     /\ SettledInTime(metrics') >= SETTLED_ROUTES_WANTED /\ ~MayShed(metrics')
     => /\ settled_path_count(metrics', decision') >= SETTLED_ROUTES_WANTED
        /\ \A p \in decision \cap Healthy(metrics') :
             ~is_settled(metrics'[p]) => p \in decision']_schedulerVars
=============================================================================
