----------------------------- MODULE AcceptOnce -----------------------------
(***************************************************************************)
(* What a receiver of numbered frames promises: a sequence is accepted at  *)
(* most once, and anything that is still within WINDOW of the newest       *)
(* accepted sequence is accepted the first time it arrives.  There is no   *)
(* bitmap here, only the set of sequences accepted so far; ReplayWindow    *)
(* (engine/src/replay.rs) is shown to implement this specification.        *)
(***************************************************************************)
EXTENDS Integers

CONSTANTS WINDOW, Sequences

VARIABLES accepted,  \* every sequence accepted so far
          answer     \* the last call: its sequence and the verdict

Newest(S) == CHOOSE h \in S : \A q \in S : q <= h

Fresh(S, s) == S = {} \/ (s \notin S /\ Newest(S) < s + WINDOW)

Init == accepted = {} /\ answer = [sequence |-> 0, verdict |-> FALSE]

Offer(s) ==
  /\ answer' = [sequence |-> s, verdict |-> Fresh(accepted, s)]
  /\ accepted' = IF Fresh(accepted, s) THEN accepted \cup {s} ELSE accepted

Next == \E s \in Sequences : Offer(s)

Spec == Init /\ [][Next]_<<accepted, answer>>
=============================================================================
