----------------------------- MODULE VpnSession -----------------------------
(***************************************************************************)
(* The desktop client's VPN controller (electron/vpn-session.cjs) with the *)
(* service's vpn slot it drives and the game session it steps aside for    *)
(* (electron/vpn-ipc.cjs, electron/main.cjs).  The controller runs its     *)
(* starts and stops one at a time through a queue of promises; the status  *)
(* poll, the timers, the user and the game run beside it at every await.   *)
(* A request that timed out at the client may still be carried out by the  *)
(* service, later.                                                         *)
(***************************************************************************)
EXTENDS Naturals, Sequences, TLC

CONSTANTS
    MAX_ANSWERED_FAILURES,
    SilentPolls, \* unanswered polls in a row that add up to the service's lease
    MaxOps,      \* bound: things the user does
    MaxGames,    \* bound: all-traffic games
    MaxLostGames,\* bound: games the client gives up while the service holds them
    MaxFaults,   \* bound: requests that time out, node outages
    MaxQueue     \* bound: jobs waiting

ASSUME VpnAssumption == MAX_ANSWERED_FAILURES \in Nat \ {0} /\ SilentPolls \in Nat \ {0}

LIVE == {"connected", "degraded"}
ACTIVE == {"connecting", "reconnecting"} \cup LIVE

VARIABLES
    wanted, status,
    timer,      \* a reconnect is scheduled
    polling,    \* the poll's interval runs
    fails,      \* the lease's counts: answered failures, and unanswered polls in a row
    silent,
    jobs,      \* jobs waiting for the exclusive queue
    job,        \* the job running and the await it is at
    poll,       \* the status request that is out, and whether its session is the current one
    slot,       \* the service's vpn slot: "running", "idle" or "paused" by the game
    late,       \* requests the client gave up on and the service has not carried out
    game,       \* the game session as the client knows it
    gameInService,
    nodeUp,
    ops, games, lost, faults

client == <<wanted, status, timer, polling, fails, silent, jobs, job, poll>>
service == <<slot, late>>
world == <<game, gameInService, nodeUp>>
bounds == <<ops, games, lost, faults>>
vpnVars == <<client, service, world, bounds>>

NoJob == [kind |-> "none", at |-> "none"]
NoPoll == [at |-> "none", current |-> FALSE]

VpnInit ==
    /\ wanted = FALSE /\ status = "idle" /\ timer = FALSE /\ polling = FALSE
    /\ fails = 0 /\ silent = 0 /\ jobs = <<>> /\ job = NoJob /\ poll = NoPoll
    /\ slot = "idle" /\ late = {}
    /\ game = "none" /\ gameInService = FALSE /\ nodeUp = TRUE
    /\ ops = 0 /\ games = 0 /\ lost = 0 /\ faults = 0

(* vpnPauseReason, and the game about to take all traffic. *)
pauseReason == game # "none"

(* this.session becomes another object: an answer still out is about a session
   that is gone. *)
StatusBecomes(s) ==
    /\ status' = s
    /\ poll' = [poll EXCEPT !.current = FALSE]

(* scheduleReconnect, after the session became s. *)
scheduleReconnect(s, wish) ==
    /\ StatusBecomes(IF wish /\ ~timer THEN "reconnecting" ELSE s)
    /\ timer' = (timer \/ wish)

Enqueue(kind) == jobs' = Append(jobs, kind)
Done == job' = NoJob
At(where) == job' = [job EXCEPT !.at = where]

-----------------------------------------------------------------------------
(* The user. *)
connect ==
    /\ ops < MaxOps /\ ops' = ops + 1
    /\ wanted' = TRUE
    /\ Enqueue("start")
    /\ UNCHANGED <<status, timer, polling, fails, silent, job, poll, service, world, games, lost, faults>>

disconnect ==
    /\ ops < MaxOps /\ ops' = ops + 1
    /\ wanted' = FALSE
    /\ timer' = FALSE
    /\ Enqueue("stop")
    /\ UNCHANGED <<status, polling, fails, silent, job, poll, service, world, games, lost, faults>>

restart ==
    /\ ops < MaxOps /\ ops' = ops + 1
    /\ wanted
    /\ Enqueue("restart")
    /\ UNCHANGED <<wanted, status, timer, polling, fails, silent, job, poll, service, world, games, lost, faults>>

(* The PC woke up with the VPN down. *)
onResume ==
    /\ ops < MaxOps /\ ops' = ops + 1
    /\ wanted /\ status \notin LIVE
    /\ timer' = FALSE
    /\ Enqueue("start")
    /\ UNCHANGED <<wanted, status, polling, fails, silent, job, poll, service, world, games, lost, faults>>

ReconnectTimer ==
    /\ timer /\ timer' = FALSE
    /\ Enqueue("start")
    /\ UNCHANGED <<wanted, status, polling, fails, silent, job, poll, service, world, bounds>>

-----------------------------------------------------------------------------
(* The exclusive queue. *)
JobTaken ==
    /\ job = NoJob /\ jobs # <<>>
    /\ jobs' = Tail(jobs)
    /\ job' = [kind |-> Head(jobs),
               at |-> CASE Head(jobs) \in {"start", "reconsider"} -> Head(jobs)
                        [] Head(jobs) = "restart" /\ status \notin ACTIVE -> "start"
                        [] OTHER -> "stop"]
    /\ UNCHANGED <<wanted, status, timer, polling, fails, silent, poll, service, world, bounds>>

reconsider ==
    /\ job.at = "reconsider"
    /\ \/ /\ pauseReason /\ status \in ACTIVE
          /\ timer' = FALSE
          /\ At("stop")
       \/ /\ ~pauseReason /\ wanted /\ status = "paused"
          /\ At("start")
          /\ UNCHANGED timer
       \/ /\ ~(pauseReason /\ status \in ACTIVE)
          /\ ~(~pauseReason /\ wanted /\ status = "paused")
          /\ Done
          /\ UNCHANGED timer
    /\ UNCHANGED <<wanted, status, polling, fails, silent, jobs, poll, service, world, bounds>>

(* startNow, up to its first await. *)
StartBegins ==
    /\ job.at = "start"
    /\ \/ /\ ~wanted
          /\ timer' = FALSE /\ Done
          /\ UNCHANGED <<status, poll, wanted>>
       \/ /\ wanted /\ pauseReason
          /\ timer' = FALSE
          /\ StatusBecomes("paused") /\ Done
          /\ UNCHANGED wanted
       \/ /\ wanted /\ ~pauseReason
          /\ timer' = FALSE
          /\ StatusBecomes("connecting") /\ At("validate")
          /\ UNCHANGED wanted
       \/ /\ wanted /\ ~pauseReason      \* the configuration cannot start
          /\ timer' = FALSE /\ wanted' = FALSE
          /\ StatusBecomes("error") /\ Done
    /\ UNCHANGED <<polling, fails, silent, jobs, service, world, bounds>>

(* validate-runtime: passes, is refused for good, or is not answered. *)
Validated ==
    /\ job.at = "validate"
    /\ \/ At("starting") /\ UNCHANGED <<wanted, status, timer, poll, faults>>
       \/ /\ wanted' = FALSE /\ StatusBecomes("error") /\ Done
          /\ UNCHANGED <<timer, faults>>
       \/ /\ faults < MaxFaults /\ faults' = faults + 1
          /\ scheduleReconnect("error", wanted) /\ Done
          /\ UNCHANGED wanted
    /\ UNCHANGED <<polling, fails, silent, jobs, service, world, ops, games, lost>>

(* start-session was answered.  A failed one is followed by a stop. *)
StartConnects ==
    /\ job.at = "started"
    /\ StatusBecomes("connected") /\ Done
    /\ polling' = TRUE /\ fails' = 0 /\ silent' = 0
    /\ UNCHANGED <<wanted, timer, jobs, service, world, bounds>>

StartCleansUp ==
    /\ job.at \in {"failed", "refused"}
    /\ At(IF job.at = "failed" THEN "cleaning" ELSE "stepping aside")
    /\ UNCHANGED <<wanted, status, timer, polling, fails, silent, jobs, poll, service, world, bounds>>

(* Mutant: a start that failed is not tried again. *)
StartGivesUp_no_retry ==
    /\ job.at \in {"cleaned", "stepped aside"}
    /\ IF job.at = "stepped aside" THEN StatusBecomes("paused") ELSE StatusBecomes("error")
    /\ Done
    /\ UNCHANGED <<wanted, timer, polling, fails, silent, jobs, service, world, bounds>>
StartGivesUp ==
    /\ job.at \in {"cleaned", "stepped aside"}
    /\ IF job.at = "stepped aside" THEN StatusBecomes("paused") /\ UNCHANGED timer
       ELSE scheduleReconnect("error", wanted)
    /\ Done
    /\ UNCHANGED <<wanted, polling, fails, silent, jobs, service, world, bounds>>

(* stopNow, up to its await and after it. *)
Stopped(kind) ==
    CASE kind \in {"stop", "restart"} -> StatusBecomes("idle") /\ UNCHANGED timer
      [] kind = "reconsider" -> StatusBecomes("paused") /\ UNCHANGED timer
      [] kind = "lost" -> scheduleReconnect("error", wanted)

StopBegins ==
    /\ job.at = "stop"
    /\ polling' = FALSE
    /\ \/ /\ status \in ACTIVE /\ At("stopping")
          /\ UNCHANGED <<status, poll, timer>>
       \/ /\ status \notin ACTIVE
          /\ Stopped(job.kind)
          /\ IF job.kind = "restart" THEN At("start") ELSE Done
    /\ UNCHANGED <<wanted, fails, silent, jobs, service, world, bounds>>

StopEnds ==
    /\ job.at = "stopped"
    /\ Stopped(job.kind)
    /\ IF job.kind = "restart" THEN At("start") ELSE Done
    /\ UNCHANGED <<wanted, polling, fails, silent, jobs, service, world, bounds>>

-----------------------------------------------------------------------------
(* The service carries out the request the job waits for. *)
AfterStop ==
    [at \in {"stopping", "cleaning", "stepping aside"} |->
        CASE at = "stopping" -> "stopped"
          [] at = "cleaning" -> "cleaned"
          [] OTHER -> "stepped aside"]

ServiceStops ==
    /\ job.at \in DOMAIN AfterStop
    /\ slot' = "idle"
    /\ At(AfterStop[job.at])
    /\ UNCHANGED <<wanted, status, timer, polling, fails, silent, jobs, poll, late, world, bounds>>

ServiceStarts ==
    /\ job.at = "starting"
    /\ \/ /\ gameInService /\ At("refused") /\ UNCHANGED slot
       \/ /\ ~gameInService /\ nodeUp /\ At("started") /\ slot' = "running"
       \/ /\ ~gameInService /\ ~nodeUp /\ At("failed") /\ slot' = "idle"
    /\ UNCHANGED <<wanted, status, timer, polling, fails, silent, jobs, poll, late, world, bounds>>

(* The client stops waiting; the service may get to the request yet, or has
   carried it out and the answer is lost. *)
RequestTimesOut ==
    /\ faults < MaxFaults /\ faults' = faults + 1
    /\ \/ /\ job.at = "starting" /\ At("failed") /\ late' = late \cup {"start"}
       \/ /\ job.at = "started" /\ At("failed") /\ UNCHANGED late
       \/ /\ job.at \in DOMAIN AfterStop /\ At(AfterStop[job.at]) /\ late' = late \cup {"stop"}
    /\ UNCHANGED <<wanted, status, timer, polling, fails, silent, jobs, poll, slot, world, ops, games, lost>>

LateRequest ==
    /\ \/ /\ "start" \in late /\ late' = late \ {"start"}
          /\ slot' = IF ~gameInService /\ nodeUp THEN "running" ELSE slot
       \/ /\ "stop" \in late /\ late' = late \ {"stop"}
          /\ slot' = "idle"
    /\ UNCHANGED <<client, world, bounds>>

(* The slot's lease runs out when no status request renews it. *)
LeaseExpires ==
    /\ slot = "running"
    /\ \/ ~(polling /\ status \in LIVE) /\ poll.at # "out"
       \/ silent + 1 >= SilentPolls
    /\ job.at # "started"
    /\ slot' = "idle"
    /\ UNCHANGED <<client, late, world, bounds>>

-----------------------------------------------------------------------------
(* The status poll. *)
PollSends ==
    /\ polling /\ status \in LIVE /\ poll.at = "none"
    /\ Len(jobs) < MaxQueue
    /\ poll' = [at |-> "out", current |-> TRUE]
    /\ UNCHANGED <<wanted, status, timer, polling, fails, silent, jobs, job, service, world, bounds>>

PollAnswered ==
    /\ poll.at = "out"
    /\ poll' = [poll EXCEPT !.at = CASE slot = "paused" -> "pause"
                                      [] slot = "idle" -> "error"
                                      [] slot = "running" /\ nodeUp -> "up"
                                      [] OTHER -> "down"]
    /\ UNCHANGED <<wanted, status, timer, polling, fails, silent, jobs, job, service, world, bounds>>

PollUnanswered ==
    /\ poll.at = "out"
    /\ faults < MaxFaults /\ faults' = faults + 1
    /\ poll' = [poll EXCEPT !.at = "silent"]
    /\ UNCHANGED <<wanted, status, timer, polling, fails, silent, jobs, job, service, world, ops, games, lost>>

Dropped == poll' = NoPoll

(* The answer is applied if the session it is about is still the running one.
   A node that stays down, a lease that ran out and repeated errors queue a
   restart. *)
(* Mutant: an answer is applied to whatever session there is, also one that is
   still connecting. *)
PollApplied_unchecked ==
    /\ poll.at \in {"up", "down", "error", "pause", "silent"}
    /\ Dropped
    /\ status' = IF poll.at = "up" /\ status \in ACTIVE THEN "connected" ELSE status
    /\ UNCHANGED <<wanted, timer, polling, fails, silent, jobs, job, service, world, bounds>>
PollApplied ==
    /\ poll.at \in {"up", "down", "error", "pause", "silent"}
    /\ Dropped
    /\ LET current == poll.current /\ status \in LIVE IN
       \/ /\ ~current
          /\ UNCHANGED <<status, fails, silent, jobs, polling>>
       \/ /\ current /\ poll.at = "up"
          /\ status' = "connected" /\ fails' = 0 /\ silent' = 0
          /\ UNCHANGED <<jobs, polling>>
       \/ /\ current /\ poll.at = "down"
          /\ status' = "degraded" /\ fails' = 0 /\ silent' = 0
          /\ \/ status = "degraded" /\ Enqueue("lost")   \* for DEGRADED_RESTART_MS
             \/ UNCHANGED jobs
          /\ UNCHANGED polling
       \/ /\ current /\ poll.at = "pause"
          /\ status' = "paused" /\ polling' = FALSE
          /\ UNCHANGED <<fails, silent, jobs>>
       \/ /\ current /\ poll.at = "error"
          /\ fails' = IF fails < MAX_ANSWERED_FAILURES THEN fails + 1 ELSE fails
          /\ IF fails + 1 >= MAX_ANSWERED_FAILURES THEN Enqueue("lost") ELSE UNCHANGED jobs
          /\ UNCHANGED <<status, silent, polling>>
       \/ /\ current /\ poll.at = "silent"
          /\ silent' = IF silent < SilentPolls THEN silent + 1 ELSE silent
          /\ IF silent + 1 >= SilentPolls THEN Enqueue("lost") ELSE UNCHANGED jobs
          /\ UNCHANGED <<status, fails, polling>>
    /\ UNCHANGED <<wanted, timer, job, service, world, bounds>>

-----------------------------------------------------------------------------
(* The game.  It waits for the VPN to step aside before it takes all traffic;
   the controller is told after every change. *)
beforeGameStart ==
    /\ game = "none" /\ ~gameInService /\ games < MaxGames /\ games' = games + 1
    /\ game' = "preparing"
    /\ Enqueue("reconsider")
    /\ UNCHANGED <<wanted, status, timer, polling, fails, silent, job, poll, service, gameInService, nodeUp, ops, lost, faults>>

SteppedAside ==
    job.kind # "reconsider" /\ \A i \in 1 .. Len(jobs) : jobs[i] # "reconsider"

GameTakesAll ==
    /\ game = "preparing" /\ SteppedAside
    /\ game' = "active" /\ gameInService' = TRUE
    /\ slot' = IF slot = "running" THEN "paused" ELSE slot
    /\ Enqueue("reconsider")
    /\ UNCHANGED <<wanted, status, timer, polling, fails, silent, job, poll, late, nodeUp, bounds>>

GameStops ==
    /\ game = "active" /\ gameInService
    /\ gameInService' = FALSE
    /\ UNCHANGED <<client, service, game, nodeUp, bounds>>

(* Mutant: the VPN is told when the game starts and not when it ends. *)
gameChanged_never ==
    /\ game = "active" /\ ~gameInService
    /\ game' = "none"
    /\ UNCHANGED <<client, service, gameInService, nodeUp, bounds>>
gameChanged ==
    /\ game = "active" /\ ~gameInService
    /\ game' = "none"
    /\ Enqueue("reconsider")
    /\ UNCHANGED <<wanted, status, timer, polling, fails, silent, job, poll, service, gameInService, nodeUp, bounds>>

(* The client gives a game up, or cannot stop it; the service's lease ends it. *)
GameGivenUp ==
    /\ game = "active" /\ gameInService /\ lost < MaxLostGames
    /\ lost' = lost + 1
    /\ game' = "none"
    /\ Enqueue("reconsider")
    /\ UNCHANGED <<wanted, status, timer, polling, fails, silent, job, poll, service, gameInService, nodeUp, ops, games, faults>>

GameLeaseExpires ==
    /\ game = "none" /\ gameInService
    /\ gameInService' = FALSE
    /\ UNCHANGED <<client, service, game, nodeUp, bounds>>

NodeFails ==
    /\ nodeUp /\ nodeUp' = FALSE
    /\ faults < MaxFaults /\ faults' = faults + 1
    /\ UNCHANGED <<client, service, game, gameInService, ops, games, lost>>

NodeReturns ==
    /\ ~nodeUp /\ nodeUp' = TRUE
    /\ UNCHANGED <<client, service, game, gameInService, bounds>>

-----------------------------------------------------------------------------
Controller ==
    \/ JobTaken \/ reconsider \/ StartBegins \/ Validated \/ StartConnects \/ StartCleansUp
    \/ StartGivesUp \/ StopBegins \/ StopEnds
Service == ServiceStops \/ ServiceStarts
Polling == PollSends \/ PollAnswered \/ PollApplied
Game == GameTakesAll \/ GameStops \/ gameChanged

VpnNext ==
    \/ connect \/ disconnect \/ restart \/ onResume \/ ReconnectTimer
    \/ Controller \/ Service \/ RequestTimesOut \/ LateRequest \/ LeaseExpires
    \/ Polling \/ PollUnanswered
    \/ beforeGameStart \/ Game \/ GameGivenUp \/ GameLeaseExpires \/ NodeFails \/ NodeReturns

VpnSpec == VpnInit /\ [][VpnNext]_vpnVars

(* Promises and timers run; requests are answered or time out; a node that
   failed returns and a game ends. *)
FairSpec ==
    /\ VpnSpec
    /\ WF_vpnVars(Controller) /\ WF_vpnVars(Service) /\ WF_vpnVars(ReconnectTimer)
    /\ WF_vpnVars(LateRequest)
    /\ WF_vpnVars(PollSends) /\ WF_vpnVars(PollAnswered) /\ WF_vpnVars(PollApplied)
    /\ WF_vpnVars(LeaseExpires)
    /\ WF_vpnVars(Game) /\ WF_vpnVars(GameLeaseExpires) /\ WF_vpnVars(NodeReturns)

-----------------------------------------------------------------------------
Kinds == {"start", "stop", "restart", "reconsider", "lost"}
Places == {"none", "start", "stop", "reconsider", "validate", "starting", "started", "failed", "refused",
           "stopping", "stopped", "cleaning", "cleaned", "stepping aside", "stepped aside"}

VpnTypeOK ==
    /\ wanted \in BOOLEAN /\ timer \in BOOLEAN /\ polling \in BOOLEAN
    /\ status \in ACTIVE \cup {"idle", "paused", "error"}
    /\ fails \in 0 .. MAX_ANSWERED_FAILURES /\ silent \in 0 .. SilentPolls
    /\ jobs \in Seq(Kinds)
    /\ job \in [kind : Kinds \cup {"none"}, at : Places]
    /\ poll \in [at : {"none", "out", "up", "down", "error", "pause", "silent"}, current : BOOLEAN]
    /\ slot \in {"running", "idle", "paused"} /\ late \subseteq {"start", "stop"}
    /\ game \in {"none", "preparing", "active"} /\ gameInService \in BOOLEAN /\ nodeUp \in BOOLEAN

Quiet == job = NoJob /\ jobs = <<>>

(* Whenever the controller has nothing left to do it is at rest for a reason:
   a VPN that is wanted is live and polled, has a reconnect scheduled or is
   paused for the game, and one that is off has no live session and no
   reconnect scheduled. *)
RestIsJustified ==
    /\ VpnTypeOK
    /\ wanted /\ Quiet => timer \/ status = "paused" \/ (status \in LIVE /\ polling)
    /\ ~wanted /\ Quiet => status \notin ACTIVE /\ ~timer

(* Only a start brings a session to life: no answer, timer or late failure
   turns a session that was stopped or replaced into a live one. *)
OnlyAStartConnects ==
    [][status' \in LIVE /\ status \notin LIVE => StartConnects]_vpnVars

(* A VPN that stays wanted comes up and stays up, whatever failed before, once
   the game has ended; unless the client gave up a game the service still held,
   which leaves a paused VPN paused until something else changes.  A VPN that
   stays off is off in the service too. *)
ServiceFollowsTheUser ==
    /\ <>[](wanted /\ lost = 0) => <>[](status = "connected" /\ slot = "running")
    /\ <>[]~wanted => <>[](slot # "running")
=============================================================================
