---------------------------- MODULE RelayFailover ----------------------------
(***************************************************************************)
(* The client's game session and the watch that moves it to a standby      *)
(* relay (electron/relay-failover.cjs; startSession, moveToStandby,        *)
(* sessionExclusive and pollSessionStatus in electron/main.cjs).  Time is  *)
(* counted in status polls.  The watch observes each poll, sends direct    *)
(* probes beside it, and a move waits for the standby's own probe and then *)
(* for the session queue, in which the user's starts and stops also wait.   *)
(***************************************************************************)
EXTENDS Naturals, Sequences

CONSTANTS
    OUTAGE_WITH_WITNESS, OUTAGE_WITHOUT_WITNESS,
    DIRECT_PROBE_INTERVAL, DIRECT_FAILURES_REQUIRED,
    BASELINE_INTERVAL, RELAY_ALIVE_HOLD,
    MaxStarts,     \* bound: starts and stops by the user
    MaxChanges, \* bound: changes of the network
    MaxSkips    \* bound: polls that are not answered

Never == 1000                            \* an age no interval has reached

ASSUME FailoverConstants ==
    /\ OUTAGE_WITH_WITNESS \in Nat /\ OUTAGE_WITHOUT_WITNESS \in Nat
    /\ OUTAGE_WITHOUT_WITNESS < Never
    /\ DIRECT_PROBE_INTERVAL \in Nat /\ BASELINE_INTERVAL \in Nat
    /\ DIRECT_FAILURES_REQUIRED \in Nat /\ RELAY_ALIVE_HOLD \in Nat
    /\ MaxStarts \in Nat /\ MaxChanges \in Nat /\ MaxSkips \in Nat

VARIABLES
    session,    \* status, the relay it is on, and which session it is
    watch,      \* the RelayFailoverWatch of that session
    probe,      \* the direct probe that is out
    move,       \* the move that is under way
    queued, running, \* the session queue
    relays,      \* relay, paths, uplink, direct traffic to the relay, standby, split tunnelling
    streak,     \* the outage as the world has it: silent polls in a row, probes failed in it
    moves,      \* moves since the user's last start
    starts, changes, skips

limits == <<starts, changes, skips>>
failoverVars == <<session, watch, probe, move, queued, running, relays, streak, moves, limits>>

NoProbe == [kind |-> "none", of |-> 0]
NoMove == [at |-> "none", of |-> 0, asks |-> FALSE]
(* The epoch of an outage is compared with the one a probe was sent in, and one
   probe is out at a time: epoch is TRUE when that probe is of this outage. *)
NoWatch ==
    [of |-> 0, carried |-> FALSE, done |-> TRUE, witness |-> FALSE, baseline |-> Never,
     hold |-> 0, silent |-> Never, failures |-> 0, probed |-> Never, epoch |-> FALSE]
begin(id, watching) == [NoWatch EXCEPT !.of = id, !.done = ~watching]

NewStreak == [polls |-> 0, failed |-> 0, asked |-> FALSE]

FailoverInit ==
    /\ session = [status |-> "idle", relay |-> "none", id |-> 0]
    /\ watch = NoWatch /\ probe = NoProbe /\ move = NoMove
    /\ queued = <<>> /\ running = "none"
    /\ relays \in [relay : {TRUE}, paths : {TRUE}, uplink : {TRUE}, direct : BOOLEAN, standby : {TRUE}, split : BOOLEAN]
    /\ streak = NewStreak
    /\ moves = 0 /\ starts = 0 /\ changes = 0 /\ skips = 0

Older(age, cap) == IF age = Never \/ age >= cap THEN age ELSE age + 1

resetOutage(w) ==
    [w EXCEPT !.silent = Never, !.failures = 0, !.probed = Never, !.epoch = FALSE]

(* A poll later. *)
Aged(w) ==
    [w EXCEPT !.baseline = Older(w.baseline, BASELINE_INTERVAL),
              !.hold = IF w.hold = 0 THEN 0 ELSE w.hold - 1,
              !.silent = Older(w.silent, OUTAGE_WITHOUT_WITNESS),
              !.probed = Older(w.probed, DIRECT_PROBE_INTERVAL)]

Answer(w, action) == [watch |-> w, action |-> action]

(* RelayFailoverWatch.observe *)
ObserveConnected(w) ==
    LET healthy == [IF w.silent # Never THEN resetOutage(w) ELSE w EXCEPT !.carried = TRUE] IN
    IF w.baseline = Never \/ w.baseline >= BASELINE_INTERVAL
    THEN Answer([healthy EXCEPT !.baseline = 0], "probe-baseline")
    ELSE Answer(healthy, "none")

(* Mutant: every silent poll starts the clock again. *)
ObserveSilent_restarts(w) ==
    LET silent == [w EXCEPT !.silent = 0]
    IN IF w.witness /\ (w.probed = Never \/ w.probed >= DIRECT_PROBE_INTERVAL)
       THEN Answer([silent EXCEPT !.probed = 0], "probe-outage")
       ELSE Answer(silent, "none")
ObserveSilent(w) ==
    LET silent == [w EXCEPT !.silent = IF w.silent = Never THEN 0 ELSE w.silent]
    IN IF ~w.witness
       THEN Answer(silent, IF silent.silent >= OUTAGE_WITHOUT_WITNESS THEN "failover" ELSE "none")
       ELSE IF w.failures >= DIRECT_FAILURES_REQUIRED /\ silent.silent >= OUTAGE_WITH_WITNESS
       THEN Answer(silent, "failover")
       ELSE IF w.probed = Never \/ w.probed >= DIRECT_PROBE_INTERVAL
       THEN Answer([silent EXCEPT !.probed = 0], "probe-outage")
       ELSE Answer(silent, "none")

observe(w, connected, uplink) ==
    CASE connected -> ObserveConnected(w)
      [] ~connected /\ (~w.carried \/ w.hold > 0) -> Answer(w, "none")
      [] ~connected /\ w.carried /\ w.hold = 0 /\ ~uplink ->
           Answer(IF w.silent # Never THEN resetOutage(w) ELSE w, "none")
      [] OTHER -> ObserveSilent(w)

RelayAnswers ==
    /\ relays.paths /\ relays.uplink
    /\ IF session.relay = "main" THEN relays.relay ELSE relays.standby
DirectAnswers == relays.relay /\ relays.uplink /\ relays.direct

-----------------------------------------------------------------------------
(* pollSessionStatus answered, with RelayFailoverController.observe and probe.
   One probe is out at a time; a missed turn is taken at the next poll. *)
Poll ==
    /\ session.status = "connected"
    /\ LET idle == watch.done \/ move # NoMove
           seen == IF idle THEN Answer(Aged(watch), "none")
                   ELSE observe(Aged(watch), RelayAnswers, relays.uplink)
           sends == probe = NoProbe /\ seen.action \in {"probe-baseline", "probe-outage"}
           counts == sends /\ seen.action = "probe-outage"
       IN
       /\ watch' = IF seen.action # "probe-outage" THEN seen.watch
                   ELSE IF sends THEN [seen.watch EXCEPT !.epoch = TRUE]
                   ELSE [seen.watch EXCEPT !.probed = Never]
       /\ probe' = IF sends THEN [kind |-> seen.action, of |-> watch.of] ELSE probe
       /\ move' = IF seen.action = "failover"
                  THEN [at |-> "asked", of |-> watch.of, asks |-> watch.witness /\ relays.split]
                  ELSE move
       /\ streak' = IF RelayAnswers \/ ~relays.uplink THEN NewStreak
                    ELSE [streak EXCEPT !.polls = IF @ > OUTAGE_WITHOUT_WITNESS THEN @ ELSE @ + 1,
                                        !.asked = @ \/ counts]
    /\ UNCHANGED <<session, queued, running, relays, moves, limits>>

(* A status request that got no answer: time passes and nothing is observed. *)
PollMissed ==
    /\ session.status = "connected" /\ skips < MaxSkips /\ skips' = skips + 1
    /\ watch' = Aged(watch)
    /\ UNCHANGED <<session, probe, move, queued, running, relays, streak, moves, starts, changes>>

(* noteBaseline and noteOutageProbe.  Only the outage that asked counts. *)
(* Mutant: a probe of an earlier outage counts. *)
noteOutageProbe_any_epoch(w, alive) ==
    IF w.done THEN w
    ELSE IF alive THEN [resetOutage(w) EXCEPT !.hold = RELAY_ALIVE_HOLD]
    ELSE [w EXCEPT !.failures = IF @ < DIRECT_FAILURES_REQUIRED THEN @ + 1 ELSE @]
noteOutageProbe(w, alive) ==
    IF ~w.epoch \/ w.done THEN w
    ELSE IF alive THEN [resetOutage(w) EXCEPT !.hold = RELAY_ALIVE_HOLD]
    ELSE [w EXCEPT !.failures = IF @ < DIRECT_FAILURES_REQUIRED THEN @ + 1 ELSE @]

ProbeEnds ==
    /\ probe # NoProbe
    /\ probe' = NoProbe
    /\ watch' = IF probe.of # watch.of THEN watch
                ELSE IF probe.kind = "probe-outage"
                THEN noteOutageProbe(watch, DirectAnswers)
                ELSE [watch EXCEPT !.witness = @ \/ DirectAnswers]
    /\ streak' = IF probe.kind # "probe-outage" \/ ~streak.asked THEN streak
                 ELSE IF DirectAnswers THEN NewStreak
                 ELSE [streak EXCEPT !.failed = IF @ < DIRECT_FAILURES_REQUIRED THEN @ + 1 ELSE @]
    /\ UNCHANGED <<session, move, queued, running, relays, moves, limits>>

-----------------------------------------------------------------------------
(* moveToStandby, up to the session queue: the standby is asked first where a
   direct probe can reach it: in split mode, and with the witness.  With the
   standby down a fresh outage is measured from the start. *)
MoveFindsStandbyDown ==
    /\ move.at = "asked"
    /\ move.asks /\ ~(relays.standby /\ relays.uplink)
    /\ move' = NoMove
    /\ IF move.of = watch.of
       THEN watch' = resetOutage(watch) /\ streak' = NewStreak
       ELSE UNCHANGED <<watch, streak>>
    /\ UNCHANGED <<session, probe, queued, running, relays, moves, limits>>

MoveQueues ==
    /\ move.at = "asked"
    /\ ~move.asks \/ (relays.standby /\ relays.uplink)
    /\ move' = [move EXCEPT !.at = "queued"]
    /\ queued' = Append(queued, "move")
    /\ UNCHANGED <<session, watch, probe, running, relays, streak, moves, limits>>

UserAsks(what) ==
    /\ starts < MaxStarts /\ starts' = starts + 1
    /\ queued' = Append(queued, what)
    /\ UNCHANGED <<session, watch, probe, move, running, relays, streak, moves, changes, skips>>

(* sessionExclusive: the next transition begins.  The move looks whether the
   session is still there to move. *)
TransitionBegins ==
    /\ running = "none" /\ queued # <<>>
    /\ queued' = Tail(queued)
    /\ LET what == Head(queued) IN
       \/ /\ what = "start"
          /\ running' = "starting"
          /\ session' = [session EXCEPT !.status = "starting", !.relay = "main"]
          /\ watch' = NoWatch
          /\ UNCHANGED <<move, moves>>
       \/ /\ what = "stop"
          /\ running' = "none"
          /\ session' = [session EXCEPT !.status = "idle"]
          /\ watch' = NoWatch
          /\ UNCHANGED <<move, moves>>
       \/ /\ what = "move" /\ session.status = "connected" /\ session.relay = "main"
          /\ running' = "moving"
          /\ session' = [session EXCEPT !.status = "starting", !.relay = "standby"]
          /\ watch' = NoWatch
          /\ moves' = moves + 1
          /\ UNCHANGED move
       \/ /\ what = "move" /\ ~(session.status = "connected" /\ session.relay = "main")
          /\ running' = "none"
          /\ move' = NoMove
          /\ watch' = IF move.of = watch.of THEN [watch EXCEPT !.done = TRUE] ELSE watch
          /\ UNCHANGED <<session, moves>>
    /\ UNCHANGED <<probe, relays, streak, limits>>

Connected(relay, watching) ==
    /\ session' = [status |-> "connected", relay |-> relay, id |-> session.id + 1]
    /\ watch' = begin(session.id + 1, watching)
    /\ streak' = NewStreak

(* The user's start ends. *)
StartEnds ==
    /\ running = "starting" /\ running' = "none"
    /\ \/ Connected("main", TRUE) /\ moves' = 0
       \/ /\ session' = [session EXCEPT !.status = "error"]
          /\ UNCHANGED <<watch, streak, moves>>
    /\ UNCHANGED <<probe, move, queued, relays, limits>>

(* The move's start ends.  A session that moved, or that came back to its relay
   because the standby did not start, is not watched. *)
MoveEnds ==
    /\ running = "moving" /\ running' = "none"
    /\ \/ Connected("standby", FALSE)
       \/ Connected("main", FALSE)
       \/ /\ session' = [session EXCEPT !.status = "error"]
          /\ UNCHANGED <<watch, streak>>
    /\ move' = NoMove
    /\ UNCHANGED <<probe, queued, relays, moves, limits>>

WorldChanges ==
    /\ changes < MaxChanges /\ changes' = changes + 1
    /\ \E what \in {"relay", "paths", "uplink", "standby"} : relays' = [relays EXCEPT ![what] = ~@]
    /\ UNCHANGED <<session, watch, probe, move, queued, running, streak, moves, starts, skips>>

FailoverNext ==
    \/ Poll \/ PollMissed \/ ProbeEnds \/ MoveFindsStandbyDown \/ MoveQueues
    \/ \E what \in {"start", "stop"} : UserAsks(what)
    \/ TransitionBegins \/ StartEnds \/ MoveEnds \/ WorldChanges

FailoverSpec == FailoverInit /\ [][FailoverNext]_failoverVars

(* Polls, probes and transitions go on. *)
FailoverFairSpec ==
    /\ FailoverSpec
    /\ WF_failoverVars(Poll) /\ WF_failoverVars(ProbeEnds)
    /\ WF_failoverVars(MoveFindsStandbyDown \/ MoveQueues)
    /\ WF_failoverVars(TransitionBegins) /\ WF_failoverVars(StartEnds \/ MoveEnds)

-----------------------------------------------------------------------------
Ages(cap) == (0 .. cap) \cup {Never}

FailoverTypeOK ==
    /\ session.status \in {"idle", "starting", "connected", "error"}
    /\ session.relay \in {"none", "main", "standby"}
    /\ watch.baseline \in Ages(BASELINE_INTERVAL) /\ watch.silent \in Ages(OUTAGE_WITHOUT_WITNESS)
    /\ watch.probed \in Ages(DIRECT_PROBE_INTERVAL) /\ watch.hold \in 0 .. RELAY_ALIVE_HOLD
    /\ watch.failures \in 0 .. DIRECT_FAILURES_REQUIRED
    /\ move.at \in {"none", "asked", "queued"} /\ running \in {"none", "starting", "moving"}

(* A move is asked for only after an unbroken outage: every poll of it was
   silent with the uplink up, for the time the witnesses call for, and where
   direct traffic reaches the relay enough probes of this very outage failed
   and none was answered, all since a standby that was down called a move off.
   It is the first since the user's start: a session
   never moves back and forth. *)
MovesOnlyFromAGoneRelay ==
    [][/\ FailoverTypeOK' /\ moves' <= 1
       /\ move = NoMove /\ move' # NoMove =>
          /\ watch.carried
          /\ IF watch.witness
             THEN streak'.polls + skips > OUTAGE_WITH_WITNESS /\ streak'.failed >= DIRECT_FAILURES_REQUIRED
             ELSE streak'.polls + skips > OUTAGE_WITHOUT_WITNESS]_failoverVars

(* A relay that is gone for good is left: a session that carried traffic on it
   ends up on the standby. *)
Stranded ==
    /\ session.status = "connected" /\ session.relay = "main" /\ watch.carried /\ ~watch.done
    /\ ~RelayAnswers /\ relays.uplink /\ ~DirectAnswers /\ relays.standby
GoneRelayIsLeft == []<>~Stranded
=============================================================================
