----------------------------- MODULE PathQueues -----------------------------
(***************************************************************************)
(* Handing captured packets to a session's path workers:                   *)
(* engine/src/session/{sender,dispatch,worker}.rs.                         *)
(*                                                                         *)
(* Capture threads and the repair thread send without the session          *)
(* manager's lock. Each sends through the sender it cached, which may      *)
(* belong to a session that stops meanwhile; a worker drains its bounded   *)
(* queue in batches and sheds what waited too long. The depth counters are *)
(* read by status and by the peak; they are unsigned, so one decrement too *)
(* many would wrap.                                                        *)
(***************************************************************************)
EXTENDS Integers, Sequences, FiniteSets

CONSTANTS
  Threads,           \* threads that send
  SendPaths,         \* paths of a session
  LocalPaths,        \* paths that end in this process: nothing is too old
  PATH_QUEUE_DEPTH,
  PATH_SEND_BATCH,
  MaxSends,        \* bound: packets handed over
  MaxQueueStarts          \* bound: sessions started

VARIABLES
  running,    \* per session: not started, live, stopping (stop flag), over
  lane,       \* per session and path: queue, depth, counters, worker's step
  thread,     \* per thread: cached session and the step of send it is at
  handed,     \* packets handed over so far
  fate        \* per packet: what send returned

pqVars == <<running, lane, thread, handed, fate>>

Sessions == 1..MaxQueueStarts

Packets == 1..MaxSends

(* Nothing in a worker's hand. *)
NoneInHand == [k |-> 0, age |-> "none"]

NewLane ==
  [queue |-> <<>>, depth |-> 0, dropped |-> 0, full |-> 0, stale |-> 0,
   took |-> {}, sent |-> {}, batch |-> 0, hand |-> NoneInHand, open |-> TRUE]

AtRest(cached) == [at |-> "rest", cached |-> cached]

QInit ==
  /\ running = [s \in Sessions |-> "new"]
  /\ lane = [s \in Sessions |-> [p \in SendPaths |-> NewLane]]
  /\ thread = [t \in Threads |-> AtRest(0)]
  /\ handed = 0
  /\ fate = [k \in Packets |-> "none"]

(* One session runs at a time: stop sets the flag and joins the workers    *)
(* before another starts.                                                  *)
StartSession(s) ==
  /\ running[s] = "new"
  /\ \A r \in Sessions : r < s => running[r] = "over"
  /\ running' = [running EXCEPT ![s] = "live"]
  /\ UNCHANGED <<lane, thread, handed, fate>>

StopSessionFlag(s) ==
  /\ running[s] = "live"
  /\ running' = [running EXCEPT ![s] = "stopping"]
  /\ UNCHANGED <<lane, thread, handed, fate>>

(* A worker that sees the flag between passes drops its receiver, and the  *)
(* packets still in the queue with it.                                     *)
WorkerEnds(s, p) ==
  /\ running[s] = "stopping" /\ lane[s][p].open /\ lane[s][p].hand = NoneInHand
  /\ lane' = [lane EXCEPT ![s][p].open = FALSE, ![s][p].queue = <<>>]
  /\ UNCHANGED <<running, thread, handed, fate>>

SessionOver(s) ==
  /\ running[s] = "stopping" /\ \A p \in SendPaths : ~lane[s][p].open
  /\ running' = [running EXCEPT ![s] = "over"]
  /\ UNCHANGED <<lane, thread, handed, fate>>

LiveSessions == {s \in Sessions : running[s] \in {"live", "stopping"}}

IsLive(s) == s # 0 /\ running[s] = "live"

(* SenderCache::send renews a sender whose session has stopped from the    *)
(* manager, which knows the session until its stop has finished.           *)
Renewed(cached) ==
  IF cached # 0 /\ IsLive(cached) THEN cached
  ELSE IF LiveSessions = {} THEN 0 ELSE CHOOSE s \in LiveSessions : TRUE

Over(t, result) ==
  /\ fate' = [fate EXCEPT ![thread[t].packet] = result]
  /\ thread' = [thread EXCEPT ![t] = AtRest(thread[t].cached)]

BeginSend(t) ==
  /\ thread[t].at = "rest" /\ handed < MaxSends
  /\ handed' = handed + 1
  /\ LET s == Renewed(thread[t].cached) IN
     thread' = [thread EXCEPT ![t] =
                  [at |-> "live", cached |-> s, packet |-> handed + 1, left |-> {}, accepted |-> 0]]
  /\ UNCHANGED <<running, lane, fate>>

(* The scheduler's pick narrowed to healthy paths. *)
packet_paths(decision, healthy) ==
  IF decision \cap healthy # {} THEN decision \cap healthy
  ELSE IF healthy # {} THEN healthy ELSE decision

(* DataSender::send: a stopped session refuses; otherwise the masks are    *)
(* read once, and a packet no path is selected for goes the normal route.  *)
send_packet(t) ==
  /\ thread[t].at = "live"
  /\ \/ /\ ~IsLive(thread[t].cached)
        /\ Over(t, "bypass")
     \/ /\ IsLive(thread[t].cached)
        /\ \E decision, healthy \in SUBSET SendPaths :
             LET mask == packet_paths(decision, healthy) IN
             IF mask = {} THEN Over(t, "bypass")
             ELSE /\ thread' = [thread EXCEPT ![t].at = "reserve", ![t].left = mask]
                  /\ UNCHANGED fate
  /\ UNCHANGED <<running, lane, handed>>

(* Paths are tried in index order. *)
NextPath(t) == CHOOSE p \in thread[t].left : \A q \in thread[t].left : p <= q

(* Dispatch::send counts a packet before publishing it: "a worker can      *)
(* receive immediately and decrement the depth before try_send returns".   *)
reserve_depth(t) ==
  /\ thread[t].at = "reserve" /\ thread[t].left # {}
  /\ LET s == thread[t].cached  p == NextPath(t) IN
     lane' = [lane EXCEPT ![s][p].depth = @ + 1]
  /\ thread' = [thread EXCEPT ![t].at = "publish"]
  /\ UNCHANGED <<running, handed, fate>>

Tried(t, n) ==
  thread' = [thread EXCEPT ![t].at = "reserve", ![t].left = @ \ {NextPath(t)}, ![t].accepted = @ + n]

dispatch_send(t) ==
  /\ thread[t].at = "publish"
  /\ LET s == thread[t].cached  p == NextPath(t)  l == lane[s][p] IN
     \/ /\ l.open /\ Len(l.queue) < PATH_QUEUE_DEPTH
        /\ lane' = [lane EXCEPT ![s][p].queue = Append(@, [k |-> thread[t].packet, age |-> "fresh"]),
                            ![s][p].took = @ \cup {thread[t].packet}]
        /\ Tried(t, 1)
     \/ /\ l.open /\ Len(l.queue) = PATH_QUEUE_DEPTH
        /\ lane' = [lane EXCEPT ![s][p].depth = @ - 1, ![s][p].dropped = @ + 1, ![s][p].full = @ + 1]
        /\ Tried(t, 0)
     \/ /\ ~l.open
        /\ lane' = [lane EXCEPT ![s][p].depth = @ - 1]
        /\ Tried(t, 0)
  /\ UNCHANGED <<running, handed, fate>>

(* A packet every chosen path refused is lost, never let past the tunnel. *)
Dispatched(t) ==
  /\ thread[t].at = "reserve" /\ thread[t].left = {}
  /\ Over(t, IF thread[t].accepted > 0 THEN "carried" ELSE "lost")
  /\ UNCHANGED <<running, lane, handed>>

(* PATH_QUEUE_MAX_AGE passes for what a queue holds. *)
QueueAges(s, p) ==
  /\ p \notin LocalPaths /\ \E k \in 1..Len(lane[s][p].queue) : lane[s][p].queue[k].age = "fresh"
  /\ lane' = [lane EXCEPT ![s][p].queue = [k \in 1..Len(@) |-> [@[k] EXCEPT !.age = "old"]]]
  /\ UNCHANGED <<running, thread, handed, fate>>

(* drain_send_queue: take one, count it down, then send or shed it; after  *)
(* a batch the worker turns to inbound frames, probes and timers.          *)
TryRecv(s, p) ==
  /\ lane[s][p].open /\ lane[s][p].hand = NoneInHand /\ lane[s][p].queue # <<>> /\ lane[s][p].batch < PATH_SEND_BATCH
  /\ lane' = [lane EXCEPT ![s][p].hand = Head(lane[s][p].queue), ![s][p].queue = Tail(@), ![s][p].batch = @ + 1]
  /\ UNCHANGED <<running, thread, handed, fate>>

CountDown(s, p) ==
  /\ lane[s][p].hand.age \in {"fresh", "old"}
  /\ lane' = [lane EXCEPT ![s][p].depth = @ - 1,
                          ![s][p].hand.age = IF @ = "old" THEN "shed" ELSE "send"]
  /\ UNCHANGED <<running, thread, handed, fate>>

drain_send_queue(s, p) ==
  /\ lane[s][p].hand.age \in {"shed", "send"}
  /\ lane' = IF lane[s][p].hand.age = "send"
             THEN [lane EXCEPT ![s][p].sent = @ \cup {lane[s][p].hand.k}, ![s][p].hand = NoneInHand]
             ELSE [lane EXCEPT ![s][p].dropped = @ + 1, ![s][p].stale = @ + 1, ![s][p].hand = NoneInHand]
  /\ UNCHANGED <<running, thread, handed, fate>>

RestOfPass(s, p) ==
  /\ lane[s][p].hand = NoneInHand /\ lane[s][p].batch > 0
  /\ lane[s][p].batch = PATH_SEND_BATCH \/ lane[s][p].queue = <<>>
  /\ lane' = [lane EXCEPT ![s][p].batch = 0]
  /\ UNCHANGED <<running, thread, handed, fate>>

QNext ==
  \/ \E s \in Sessions :
       \/ StartSession(s) \/ StopSessionFlag(s) \/ SessionOver(s)
       \/ \E p \in SendPaths : \/ WorkerEnds(s, p) \/ QueueAges(s, p) \/ TryRecv(s, p) \/ CountDown(s, p)
                               \/ drain_send_queue(s, p) \/ RestOfPass(s, p)
  \/ \E t \in Threads : BeginSend(t) \/ send_packet(t) \/ reserve_depth(t) \/ dispatch_send(t) \/ Dispatched(t)

QSpec == QInit /\ [][QNext]_pqVars

QTypeOK ==
  /\ running \in [Sessions -> {"new", "live", "stopping", "over"}]
  /\ \A s \in Sessions, p \in SendPaths : Len(lane[s][p].queue) <= PATH_QUEUE_DEPTH
  /\ fate \in [Packets -> {"none", "bypass", "carried", "lost"}]

Reserving(s, p) == {t \in Threads : thread[t].at = "publish" /\ thread[t].cached = s /\ NextPath(t) = p}

InQueue(l) == {l.queue[k].k : k \in 1..Len(l.queue)} \cup (IF l.hand = NoneInHand THEN {} ELSE {l.hand.k})

(* The depth of a path's queue is exactly what the queue holds, what is    *)
(* about to enter it and what just left it, so it never wraps; what the    *)
(* queue took was sent, shed as stale or is still there; every drop is     *)
(* counted under one reason, and a path into this process sheds nothing.   *)
(* It holds for every session a thread's cached sender may still name, up  *)
(* to the moment its workers end. A packet goes one way: send reports it   *)
(* carried if some queue took a copy, and no queue of any session has one  *)
(* of a packet let past the tunnel, because "half a flow arriving from a   *)
(* different source address breaks it at the server".                      *)
QueuesAreCounted ==
  /\ QTypeOK
  /\ \A s \in Sessions, p \in SendPaths :
       LET l == lane[s][p]
           held == Len(l.queue) + Cardinality(Reserving(s, p)) + (IF l.hand.age \in {"fresh", "old"} THEN 1 ELSE 0)
       IN  /\ l.depth >= 0 /\ (l.open => l.depth = held)
           /\ l.sent \cup InQueue(l) \subseteq l.took /\ l.sent \cap InQueue(l) = {}
           /\ l.open => Cardinality(l.took) = Cardinality(l.sent) + l.stale + Cardinality(InQueue(l))
           /\ l.dropped = l.full + l.stale
           /\ p \in LocalPaths => l.stale = 0
  /\ \A k \in Packets : fate[k] # "none" =>
       (fate[k] = "carried" <=> \E s \in Sessions, p \in SendPaths : k \in lane[s][p].took)
=============================================================================
