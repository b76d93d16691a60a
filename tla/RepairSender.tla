---------------------------- MODULE RepairSender ----------------------------
(***************************************************************************)
(* The sending end of a repaired stream: the encoder that groups packets   *)
(* (engine/src/fec.rs Encoder), the capture threads that feed it           *)
(* (engine/src/session/sender.rs, repair.rs protect) and the flusher       *)
(* thread that closes a group nothing more joins (repair.rs                *)
(* spawn_flusher).  The encoder's lock and its condition variable are      *)
(* modelled step by step, because a wakeup can only be lost between them.  *)
(*                                                                         *)
(* A repair is the set of its members' sequences; RepairIngress models     *)
(* what the other end does with it.                                        *)
(***************************************************************************)
EXTENDS Integers, FiniteSets

CONSTANTS Threads,      \* the threads that send packets
          GroupSizes,   \* sizes desired_group may ask for, within 1..MAX_GROUP
          MAX_SPAN,     \* widest group, from its first sequence (255)
          MaxSequence   \* bound on the sequences handed out

ASSUME SenderAssumption ==
  /\ GroupSizes \subseteq Nat \ {0} /\ GroupSizes # {}
  /\ MAX_SPAN \in Nat /\ MaxSequence \in Nat

VARIABLES
  sequences,    \* the last sequence handed out
  thread,       \* what each sending thread does next
  carried,      \* the sequence each sending thread has sent and not protected
  encoder,      \* Encoder: group_size and the members of the open group
  due,          \* the open group's deadline has passed
  flusher,      \* where the flusher thread is
  lock,         \* who holds the encoder's lock between steps
  stop,         \* the session's stop flag
  stopper,      \* how far the stopping thread has come
  protected,    \* history: sequences pushed into the encoder
  repairs       \* history: the groups closed so far

senderVars == <<sequences, thread, carried, encoder, due, flusher, lock, stop,
          stopper, protected, repairs>>

-----------------------------------------------------------------------------
(* Encoder.  The members stand for base, offsets and count.                *)

Open(e) == e.members # {}

Highest(S) == CHOOSE m \in S : \A n \in S : n <= m
Lowest(S) == CHOOSE m \in S : \A n \in S : m <= n

(* Whether a packet may still join the open group.                         *)
can_join(e, s, expired) ==
  /\ Cardinality(e.members) < e.group_size
  /\ s > Highest(e.members)
  /\ s - Lowest(e.members) <= MAX_SPAN
  /\ ~expired

close(e) == [e EXCEPT !.members = {}]

(* The repairs a close yields: none when no group is open.                 *)
Closed(e) == IF Open(e) THEN {e.members} ELSE {}

(* Mutant: a resize takes effect on the open group and forgets it.         *)
set_group_size_forgets(e, size) ==
  IF size = e.group_size THEN [encoder |-> e, closed |-> {}]
  ELSE [encoder |-> [close(e) EXCEPT !.group_size = size], closed |-> {}]

set_group_size(e, size) ==
  IF size = e.group_size THEN [encoder |-> e, closed |-> {}]
  ELSE [encoder |-> [close(e) EXCEPT !.group_size = size], closed |-> Closed(e)]

(* The packet joins the open group, or closes it and opens its own.        *)
push(e, s, expired) ==
  IF Open(e) /\ can_join(e, s, expired)
  THEN [encoder |-> [e EXCEPT !.members = @ \cup {s}], closed |-> {}]
  ELSE [encoder |-> [e EXCEPT !.members = {s}], closed |-> Closed(e)]

-----------------------------------------------------------------------------
(* The sending threads.                                                    *)

(* A packet takes its sequence and is dispatched; protecting it is a later *)
(* step, so two threads may come to the encoder in either order.           *)
send(t) ==
  /\ thread[t] = "ready" /\ ~stop /\ sequences < MaxSequence
  /\ sequences' = sequences + 1
  /\ thread' = [thread EXCEPT ![t] = "sent"]
  /\ carried' = [carried EXCEPT ![t] = sequences + 1]
  /\ UNCHANGED <<encoder, due, flusher, lock, stop, stopper, protected, repairs>>

(* Probes, announcements, offers and repairs draw on the same sequences.   *)
OtherFrame ==
  /\ sequences < MaxSequence
  /\ sequences' = sequences + 1
  /\ UNCHANGED <<thread, carried, encoder, due, flusher, lock, stop, stopper,
                 protected, repairs>>

(* Mutant: whether the encoder is idle is read after the push.             *)
opened_read_late(before, pushed) == ~Open(pushed)

(* Whether the push opened a group in an encoder that was idle after the   *)
(* resize.                                                                 *)
opened(before, pushed) == ~Open(before) /\ Open(pushed)

(* protect with a relay that supports repairs: resize and push under the   *)
(* lock; the flusher is told afterwards when a group was opened.           *)
protect(t) ==
  /\ thread[t] = "sent" /\ lock = "free"
  /\ \E size \in GroupSizes :
       LET s == carried[t]
           resized == set_group_size(encoder, size)
           pushed == push(resized.encoder, s, due /\ Open(resized.encoder))
       IN /\ encoder' = pushed.encoder
          /\ repairs' = repairs \cup resized.closed \cup pushed.closed
          /\ due' = FALSE
          /\ protected' = protected \cup {s}
          /\ thread' = [thread EXCEPT ![t] =
                          IF opened(resized.encoder, pushed.encoder) THEN "notify" ELSE "ready"]
  /\ UNCHANGED <<sequences, carried, flusher, lock, stop, stopper>>

(* A packet above the measured MTU is not protected, and neither is one    *)
(* while the relay has not accepted repairs: only the resize happens, or   *)
(* nothing at all.                                                         *)
protect_oversized(t) ==
  /\ thread[t] = "sent" /\ lock = "free"
  /\ \E size \in GroupSizes :
       LET resized == set_group_size(encoder, size) IN
       /\ encoder' = resized.encoder
       /\ repairs' = repairs \cup resized.closed
       /\ due' = (due /\ Open(resized.encoder))
  /\ thread' = [thread EXCEPT ![t] = "ready"]
  /\ UNCHANGED <<sequences, carried, flusher, lock, stop, stopper, protected>>

Waiting == {"idle", "timed"}

Woken == IF flusher \in Waiting THEN "locking" ELSE flusher

notify_one(t) ==
  /\ thread[t] = "notify"
  /\ thread' = [thread EXCEPT ![t] = "ready"]
  /\ flusher' = Woken
  /\ UNCHANGED <<sequences, carried, encoder, due, lock, stop, stopper,
                 protected, repairs>>

-----------------------------------------------------------------------------
(* The flusher.                                                            *)

FlusherLocks ==
  /\ flusher = "locking" /\ lock = "free"
  /\ flusher' = "holding" /\ lock' = "flusher"
  /\ UNCHANGED <<sequences, thread, carried, encoder, due, stop, stopper,
                 protected, repairs>>

FlusherReadsStop ==
  /\ flusher = "holding"
  /\ flusher' = IF stop THEN "stopped" ELSE "deciding"
  /\ lock' = IF stop THEN "free" ELSE lock
  /\ UNCHANGED <<sequences, thread, carried, encoder, due, stop, stopper,
                 protected, repairs>>

(* With nothing open it sleeps until told, with a deadline ahead it sleeps *)
(* to the deadline; waiting gives the lock back in the same step.          *)
FlusherWaits ==
  /\ flusher = "deciding" /\ ~(Open(encoder) /\ due)
  /\ flusher' = IF Open(encoder) THEN "timed" ELSE "idle"
  /\ lock' = "free"
  /\ UNCHANGED <<sequences, thread, carried, encoder, due, stop, stopper,
                 protected, repairs>>

(* flush_due: a group past its deadline is closed, and sent without the    *)
(* lock before the flusher takes it again.                                 *)
FlusherCloses ==
  /\ flusher = "deciding" /\ Open(encoder) /\ due
  /\ encoder' = close(encoder)
  /\ repairs' = repairs \cup Closed(encoder)
  /\ due' = FALSE
  /\ flusher' = "locking" /\ lock' = "free"
  /\ UNCHANGED <<sequences, thread, carried, stop, stopper, protected>>

(* The wait on a deadline ends by itself; the group it was for may have    *)
(* been closed and another opened meanwhile.                               *)
FlusherTimesOut ==
  /\ flusher = "timed"
  /\ flusher' = "locking"
  /\ UNCHANGED <<sequences, thread, carried, encoder, due, lock, stop, stopper,
                 protected, repairs>>

(* IDLE_WAIT: "this only bounds a missed wakeup", so nothing relies on it. *)
IdleTimesOut ==
  /\ flusher = "idle"
  /\ flusher' = "locking"
  /\ UNCHANGED <<sequences, thread, carried, encoder, due, lock, stop, stopper,
                 protected, repairs>>

(* GROUP_MAX_AGE passes for the open group.                                *)
GroupAges ==
  /\ Open(encoder) /\ ~due
  /\ due' = TRUE
  /\ UNCHANGED <<sequences, thread, carried, encoder, flusher, lock, stop,
                 stopper, protected, repairs>>

-----------------------------------------------------------------------------
(* Stopping the session: the flag, then wake_flusher.                      *)

StopSession ==
  /\ stopper = "running"
  /\ stop' = TRUE /\ stopper' = "waking"
  /\ UNCHANGED <<sequences, thread, carried, encoder, due, flusher, lock,
                 protected, repairs>>

(* Taking the lock and dropping it again, then notify_all: once the lock   *)
(* was free the flusher waits or has yet to read the flag.                 *)
wake_flusher ==
  /\ stopper = "waking" /\ lock = "free"
  /\ stopper' = "done"
  /\ flusher' = Woken
  /\ UNCHANGED <<sequences, thread, carried, encoder, due, lock, stop,
                 protected, repairs>>

-----------------------------------------------------------------------------

SenderInit ==
  /\ sequences = 0
  /\ thread = [t \in Threads |-> "ready"] /\ carried = [t \in Threads |-> 0]
  /\ encoder \in [group_size : GroupSizes, members : {{}}]
  /\ due = FALSE /\ flusher = "locking" /\ lock = "free"
  /\ stop = FALSE /\ stopper = "running"
  /\ protected = {} /\ repairs = {}

Flusher == FlusherLocks \/ FlusherReadsStop \/ FlusherWaits \/ FlusherCloses
           \/ FlusherTimesOut

SenderNext ==
  \/ \E t \in Threads : send(t) \/ protect(t) \/ protect_oversized(t) \/ notify_one(t)
  \/ OtherFrame \/ Flusher \/ IdleTimesOut \/ GroupAges \/ StopSession \/ wake_flusher

SenderSpec == SenderInit /\ [][SenderNext]_senderVars

-----------------------------------------------------------------------------

SenderTypeOK ==
  /\ sequences \in 0..MaxSequence
  /\ thread \in [Threads -> {"ready", "sent", "notify"}]
  /\ carried \in [Threads -> 0..MaxSequence]
  /\ encoder \in [group_size : GroupSizes, members : SUBSET (1..MaxSequence)]
  /\ due \in BOOLEAN /\ stop \in BOOLEAN
  /\ flusher \in {"locking", "holding", "deciding", "idle", "timed", "stopped"}
  /\ lock \in {"free", "flusher"} /\ stopper \in {"running", "waking", "done"}
  /\ protected \subseteq 1..MaxSequence
  /\ repairs \subseteq SUBSET (1..MaxSequence)

(* Every packet given to the encoder is in exactly one group, the open one *)
(* or one already closed, whatever resizes, deadlines and overtaking       *)
(* threads did ("A group already open is closed first, so the packets in   *)
(* it are still covered", fec.rs set_group_size), and every group fits the *)
(* format a repair is written in: no more members than the largest group,  *)
(* offsets that fit MAX_SPAN (fec.rs push, close).                         *)
CoveredExactlyOnce ==
  /\ SenderTypeOK
  /\ protected = encoder.members \cup UNION repairs
  /\ \A g \in repairs : g # {} /\ g \cap encoder.members = {}
  /\ \A g, h \in repairs : g # h => g \cap h = {}
  /\ \A g \in repairs \cup {encoder.members} :
        /\ \E size \in GroupSizes : Cardinality(g) <= size
        /\ \A m, n \in g : m - n <= MAX_SPAN

(* The last packet before a pause is covered without waiting for another:  *)
(* every protected packet's group closes unless the session stops, and     *)
(* with no help from the idle timeout (repair.rs spawn_flusher).  A        *)
(* stopped session's flusher ends: the wakeup cannot fall between its      *)
(* reading the flag and its waiting (repair.rs wake_flusher).              *)
EveryPacketGetsItsRepair ==
  <>[](IF stop THEN flusher = "stopped" ELSE protected \subseteq UNION repairs)
=============================================================================
