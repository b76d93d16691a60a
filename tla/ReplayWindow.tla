---------------------------- MODULE ReplayWindow ----------------------------
(***************************************************************************)
(* engine/src/replay.rs: the replay window the client's ingress and every  *)
(* relay session keep.  A window is a record with the fields of the        *)
(* struct; the bitmap is one Boolean per slot, indexed by the sequence     *)
(* modulo WINDOW.  The invariants are those of any owner of a window;      *)
(* RepairIngress is one, and WindowAndFailoverProofs has a window on its   *)
(* own.                                                                    *)
(***************************************************************************)
EXTENDS Integers

CONSTANT WINDOW,     \* sequences the window remembers (8192 in the code)
         Sequences   \* the sequences frames may carry

ASSUME WindowAssumption == WINDOW \in Nat \ {0} /\ Sequences \subseteq Nat

Slots == 0..(WINDOW - 1)

EmptyWindow ==
  [highest |-> 0, seen |-> [i \in Slots |-> FALSE], initialized |-> FALSE]

Windows ==
  [highest : Nat, seen : [Slots -> BOOLEAN], initialized : BOOLEAN]

is_set(w, s) == w.seen[s % WINDOW]

would_accept(w, s) ==
  \/ ~w.initialized
  \/ s > w.highest
  \/ w.highest - s < WINDOW /\ ~is_set(w, s)

is_too_old(w, s) ==
  w.initialized /\ w.highest >= s /\ w.highest - s >= WINDOW

(* Mutant: the loop that clears the skipped slots starts one too late.     *)
forget_off_by_one(seen, h, s) ==
  IF s - h >= WINDOW
  THEN [i \in Slots |-> FALSE]
  ELSE [i \in Slots |-> seen[i] /\ \A q \in (h + 2)..(s - 1) : q % WINDOW # i]

(* The bitmap once the newest sequence has moved from h to s: forgotten    *)
(* altogether when the move spans the window, otherwise only the slots of  *)
(* the sequences skipped over are cleared.                                 *)
forget(seen, h, s) ==
  IF s - h >= WINDOW
  THEN [i \in Slots |-> FALSE]
  ELSE [i \in Slots |-> seen[i] /\ \A q \in (h + 1)..(s - 1) : q % WINDOW # i]

(* The window after accept(sequence); would_accept is also its answer.     *)
accept(w, s) ==
  IF ~would_accept(w, s) THEN w
  ELSE IF w.initialized /\ s <= w.highest
       THEN [w EXCEPT !.seen[s % WINDOW] = TRUE]
       ELSE [highest |-> s,
             seen |-> [(IF w.initialized THEN forget(w.seen, w.highest, s)
                                         ELSE w.seen)
                       EXCEPT ![s % WINDOW] = TRUE],
             initialized |-> TRUE]

-----------------------------------------------------------------------------

VARIABLES window,    \* the ReplayWindow
          accepted   \* history: the sequences it has accepted

(* The window keeps its type; the bitmap never gains a slot.               *)
WindowType == window \in Windows /\ accepted \subseteq Sequences

(* The circular bitmap is exact: for every sequence still inside the       *)
(* window its slot says whether that very sequence was accepted, although  *)
(* slots are shared by all sequences with the same remainder and are only  *)
(* cleared when skipped over (replay.rs:120-140).                          *)
BitmapExact ==
  window.initialized =>
    \A q \in Sequences : q <= window.highest /\ window.highest < q + WINDOW =>
                            (is_set(window, q) <=> q \in accepted)

(* The newest sequence the window knows is the newest accepted one.        *)
HighestIsNewest ==
  /\ window.initialized <=> accepted # {}
  /\ window.initialized => /\ window.highest \in accepted
                           /\ \A q \in accepted : q <= window.highest

(* The window is what the sequences accepted so far make it.  This is the  *)
(* strengthening that makes the two promises below inductive.              *)
WindowExact ==
  /\ WindowType /\ BitmapExact /\ HighestIsNewest
  /\ ~window.initialized => window = EmptyWindow

(* No sequence is accepted twice, however far the window has moved in      *)
(* between and whatever shared its slot meanwhile ("accept a sequence      *)
(* once, reject it if it comes back", replay.rs:5).                        *)
NeverTwice == \A s \in accepted : ~would_accept(window, s)

(* No first copy is turned away while it is less than WINDOW behind the    *)
(* newest accepted sequence; what is turned away unseen is_too_old, the    *)
(* verdict the ingress reports (replay.rs:86, session/state.rs:234-241).   *)
NoFalseReplay ==
  \A s \in Sequences \ accepted : would_accept(window, s) <=> ~is_too_old(window, s)
=============================================================================
