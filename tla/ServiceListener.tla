--------------------------- MODULE ServiceListener ---------------------------
(* The Windows service as a process (service/src/server.rs, the engines of   *)
(* service/src/engine_process.rs, Teardown of service/src/slot.rs): it       *)
(* sweeps what a dead predecessor left, listens, answers each request on a   *)
(* thread of its own up to a ceiling, and on a stop ends both sessions       *)
(* without waiting for the requests still running.  It may die at any time;  *)
(* its engines die with it and what they installed in Windows stays.         *)
(*                                                                           *)
(* What a session does is in ServiceSlots.  Here a session only holds what   *)
(* it has installed: its half-default routes, the VPN's direct routes, RAS   *)
(* connections, and the host routes that keep a native session's servers on  *)
(* the physical uplink.                                                      *)
EXTENDS Naturals, FiniteSets

CONSTANTS Handlers,         \* handler threads
          Installs,         \* what a session may install
          MAX_CONCURRENT_REQUESTS,
          MaxRequests,      \* bound: connections in all
          MaxProcesses      \* bound: service processes in all

VARIABLES proc,             \* where run_service and run_server are
          in_flight,
          handler,          \* thread -> what it is doing
          holds,            \* slot -> what its session has installed
          remains,          \* what Windows holds and no slot owns
          late,             \* ghost: a start outlasted the stop of its slot
          asked,            \* connections so far
          processes         \* service processes so far

srvVars == <<proc, in_flight, handler, holds, remains, late, asked, processes>>

Seats == {"game", "vpn"}
NoThread == [does |-> "nothing"]
Busy == {h \in Handlers : handler[h] # NoThread}
Starting(s) == \E h \in Busy : handler[h].does = "start" /\ handler[h].seat = s

SrvInit ==
    /\ proc = "off"
    /\ in_flight = 0
    /\ handler = [h \in Handlers |-> NoThread]
    /\ holds = [s \in Seats |-> {}]
    /\ remains = {}
    /\ late = FALSE
    /\ asked = 0
    /\ processes = 0

-----------------------------------------------------------------------------
(* The process.                                                              *)

\* cleanup_stale_routes: routes with the direct metric, the two halves on
\* GamePath adapters, and the GamePath-L2TP connections.
cleanup_stale_routes == remains \ {"direct", "half", "ras"}

\* run_service up to the thread of run_server.
run_service ==
    /\ proc \in {"off", "stopped"}
    /\ processes < MaxProcesses
    /\ processes' = processes + 1
    /\ remains' = cleanup_stale_routes
    /\ proc' = "starting"
    /\ in_flight' = 0
    /\ UNCHANGED <<handler, holds, late, asked>>

\* run_server reads its token and binds; if it cannot, the service still
\* reports that it is running.
Binds == /\ proc = "starting"
         /\ proc' \in {"listening", "deaf"}
         /\ UNCHANGED <<in_flight, handler, holds, remains, late, asked, processes>>

\* ServiceControl::Stop; the accept loop sees the flag and joins the watchdogs.
StopControl == /\ proc \in {"listening", "deaf"}
               /\ proc' = IF proc = "deaf" THEN "stopped" ELSE "stop vpn"
               /\ UNCHANGED <<in_flight, handler, holds, remains, late, asked, processes>>

\* Teardown::run.  An engine that does not answer is killed and leaves its
\* routes; the VPN's direct ones are swept by their metric.
Leavings(s, killed) ==
    IF killed THEN holds[s] \cap (IF s = "vpn" THEN {"half"} ELSE {"half", "direct"})
              ELSE {}

stop_slot(s, killed) ==
    /\ ~Starting(s)
    /\ holds' = [holds EXCEPT ![s] = {}]
    /\ remains' = remains \cup Leavings(s, killed)

\* The end of run_server: the VPN first, each once its slot's lock is free.
StopAtEnd(s) ==
    /\ proc = (IF s = "vpn" THEN "stop vpn" ELSE "stop game")
    /\ \E killed \in BOOLEAN : stop_slot(s, killed)
    /\ proc' = IF s = "vpn" THEN "stop game" ELSE "returning"
    /\ UNCHANGED <<in_flight, handler, late, asked, processes>>

\* The process ends, in order or not: threads and engines end with it.
Exits ==
    /\ remains' = remains \cup UNION {holds[s] : s \in Seats}
    /\ holds' = [s \in Seats |-> {}]
    /\ handler' = [h \in Handlers |-> NoThread]
    /\ proc' = "stopped"
    /\ late' = FALSE
    /\ UNCHANGED <<in_flight, asked, processes>>

ServiceReturns == proc = "returning" /\ Exits
ServiceDies == proc \notin {"off", "stopped"} /\ Exits

-----------------------------------------------------------------------------
(* Requests.                                                                 *)

\* One turn of the accept loop; at the ceiling the caller is refused.
Accept(h) ==
    /\ proc = "listening" /\ asked < MaxRequests /\ handler[h] = NoThread
    /\ asked' = asked + 1
    /\ IF in_flight < MAX_CONCURRENT_REQUESTS
       THEN /\ in_flight' = in_flight + 1
            /\ handler' = [handler EXCEPT ![h] = [does |-> "read"]]
       ELSE UNCHANGED <<in_flight, handler>>
    /\ UNCHANGED <<proc, holds, remains, late, processes>>

\* handle_connection and handle_request: a start takes an idle slot's lock, a
\* stop ends what is there, anything else (a refused token, an unparsable or
\* late line, a status) changes nothing here.
Handle(h) ==
    /\ handler[h].does = "read"
    /\ \/ \E s \in Seats :
              /\ ~Starting(s) /\ holds[s] = {}
              /\ handler' = [handler EXCEPT ![h] = [does |-> "start", seat |-> s]]
              /\ UNCHANGED <<holds, remains>>
       \/ \E s \in Seats, killed \in BOOLEAN :
              /\ stop_slot(s, killed)
              /\ handler' = [handler EXCEPT ![h] = [does |-> "answer"]]
       \/ /\ handler' = [handler EXCEPT ![h] = [does |-> "answer"]]
          /\ UNCHANGED <<holds, remains>>
    /\ UNCHANGED <<proc, in_flight, late, asked, processes>>

\* start_session ends: the session is up, or it failed and was torn down.
StartEnds(h) ==
    /\ handler[h].does = "start"
    /\ \E installed \in Installs \cup {{}} :
           /\ "direct" \in installed => handler[h].seat = "vpn"
           /\ holds' = [holds EXCEPT ![handler[h].seat] = installed]
    /\ late' = (late \/ proc = "returning" \/ (proc = "stop game" /\ handler[h].seat = "vpn"))
    /\ handler' = [handler EXCEPT ![h] = [does |-> "answer"]]
    /\ UNCHANGED <<proc, in_flight, remains, asked, processes>>

\* The answer is written or given up, and the thread ends.
Answer(h) ==
    /\ handler[h].does = "answer"
    /\ handler' = [handler EXCEPT ![h] = NoThread]
    /\ in_flight' = in_flight - 1
    /\ UNCHANGED <<proc, holds, remains, late, asked, processes>>

\* A watchdog ends a slot whose lease has run out; they are joined on a stop.
Expire(s) ==
    /\ proc = "listening" /\ holds[s] # {}
    /\ \E killed \in BOOLEAN : stop_slot(s, killed)
    /\ UNCHANGED <<proc, in_flight, handler, late, asked, processes>>

SrvNext ==
    \/ run_service \/ Binds \/ StopControl \/ ServiceReturns \/ ServiceDies
    \/ \E s \in Seats : StopAtEnd(s) \/ Expire(s)
    \/ \E h \in Handlers : Accept(h) \/ Handle(h) \/ StartEnds(h) \/ Answer(h)

SrvSpec == SrvInit /\ [][SrvNext]_srvVars

-----------------------------------------------------------------------------
SrvTypeOK ==
    /\ proc \in {"off", "starting", "listening", "deaf", "stop vpn", "stop game",
                 "returning", "stopped"}
    /\ in_flight \in 0..MAX_CONCURRENT_REQUESTS
    /\ holds \in [Seats -> SUBSET {"half", "direct", "ras", "bypass"}]
    /\ remains \subseteq {"half", "direct", "ras", "bypass"}

Alive == proc \notin {"off", "stopped"}

(* The service keeps count of its threads and of what it leaves in Windows:  *)
(* while it runs, in_flight is the number of threads answering a request, so *)
(* neither a refusal nor a crash loses a place for good; no connection and   *)
(* no direct route is without an owner, however an earlier process died or   *)
(* an engine had to be killed; and when the service returns neither slot     *)
(* holds a session, unless a start outlasted the stop of its slot.           *)
ServiceCleansUp ==
    /\ SrvTypeOK
    /\ Alive => /\ in_flight = Cardinality(Busy)
                /\ remains \cap {"ras", "direct"} = {}
    /\ proc = "returning" /\ ~late => \A s \in Seats : holds[s] = {}
=============================================================================
