---------------------- MODULE WindowAndFailoverProofs -----------------------
(***************************************************************************)
(* Two parts that rest on counting, for every value of the constants: the  *)
(* replay window, and the watch that moves a session to the standby relay. *)
(*                                                                         *)
(* ReplayWindow for every window size and every set of sequences: the      *)
(* bitmap stays exact, so a sequence is accepted once, a first copy within *)
(* the window is never refused, and the window implements AcceptOnce.      *)
(* The argument is the arithmetic of the slots: two sequences less than    *)
(* WINDOW apart never share one (SlotsApart), so moving the window on      *)
(* clears the slots it must and no others (ForgetClears).                  *)
(*                                                                         *)
(* RelayFailover for all intervals: a move is asked for only from a relay  *)
(* that is gone.  The inductive invariant, FailoverInv, says that what the *)
(* watch counted the world bears out while no move is under way (Watched), *)
(* that an outage which has not begun has nothing counted                  *)
(* (FreshlyCounted), and that the move is in the session queue at most     *)
(* once and is not asked for again (MoveWaits, MovesOnce).                 *)
(***************************************************************************)
EXTENDS ReplayWindow, RelayFailover, TLAPS

(* A window on its own, called with any sequences in any order.            *)
VARIABLE answer      \* history: the last call and its verdict

vars == <<window, accepted, answer>>

Init == /\ window = EmptyWindow
        /\ accepted = {}
        /\ answer = [sequence |-> 0, verdict |-> FALSE]

Accept(s) ==
  /\ window' = accept(window, s)
  /\ answer' = [sequence |-> s, verdict |-> would_accept(window, s)]
  /\ accepted' = IF would_accept(window, s) THEN accepted \cup {s} ELSE accepted

Next == \E s \in Sequences : Accept(s)

Spec == Init /\ [][Next]_vars

-----------------------------------------------------------------------------

(* The bitmap implements the set of accepted sequences it stands for:      *)
(* every call gets the answer the set would have given (replay.rs:100).    *)
Abstract == INSTANCE AcceptOnce
RefinesAcceptOnce == Abstract!Spec

-----------------------------------------------------------------------------

(* Every sequence has a slot in the bitmap.                                *)
LEMMA SlotInRange == \A s \in Nat : s % WINDOW \in Slots
BY WindowAssumption DEF Slots

(* Two sequences less than a window apart have different slots.            *)
LEMMA SlotsApart ==
  ASSUME NEW a \in Nat, NEW b \in Nat, a < b, b - a < WINDOW
  PROVE  a % WINDOW # b % WINDOW
<1> DEFINE qa == a \div WINDOW
           qb == b \div WINDOW
<1>1. /\ qa \in Int /\ qb \in Int
      /\ a = (WINDOW * qa) + (a % WINDOW)
      /\ b = (WINDOW * qb) + (b % WINDOW)
  BY WindowAssumption
<1>2. SUFFICES ASSUME a % WINDOW = b % WINDOW PROVE FALSE
  OBVIOUS
<1>3. b - a = WINDOW * (qb - qa)
  BY <1>1, <1>2, WindowAssumption
<1>4. CASE qb - qa <= 0
  BY <1>1, <1>3, <1>4, WindowAssumption
<1>5. CASE qb - qa >= 1
  BY <1>1, <1>3, <1>5, WindowAssumption
<1> QED BY <1>1, <1>4, <1>5

(* Moving the newest sequence from h to s clears the slots of the          *)
(* sequences in between and keeps those still inside the window.           *)
LEMMA ForgetClears ==
  ASSUME NEW seen \in [Slots -> BOOLEAN], NEW h \in Nat, NEW s \in Nat, h < s
  PROVE  /\ forget(seen, h, s) \in [Slots -> BOOLEAN]
         /\ \A q \in Nat : h < q /\ q < s /\ s < q + WINDOW =>
              forget(seen, h, s)[q % WINDOW] = FALSE
         /\ \A q \in Nat : q <= h /\ s < q + WINDOW =>
              forget(seen, h, s)[q % WINDOW] = seen[q % WINDOW]
<1>1. CASE s - h >= WINDOW
  <2>1. forget(seen, h, s) = [i \in Slots |-> FALSE]
    BY <1>1 DEF forget
  <2>2. \A q \in Nat : q <= h => ~(s < q + WINDOW)
    BY <1>1, WindowAssumption
  <2> QED BY Zenon, <2>1, <2>2, SlotInRange
<1>2. CASE ~(s - h >= WINDOW)
  <2>1. forget(seen, h, s) =
          [i \in Slots |-> seen[i] /\ \A q \in (h + 1)..(s - 1) : q % WINDOW # i]
    BY <1>2 DEF forget
  <2>2. ASSUME NEW q \in Nat, h < q, q < s
        PROVE  forget(seen, h, s)[q % WINDOW] = FALSE
    <3>1. q \in (h + 1)..(s - 1)
      BY <2>2
    <3> QED BY Zenon, <2>1, <3>1, SlotInRange
  <2>3. ASSUME NEW q \in Nat, q <= h, s < q + WINDOW
        PROVE  forget(seen, h, s)[q % WINDOW] = seen[q % WINDOW]
    <3>1. ASSUME NEW p \in (h + 1)..(s - 1) PROVE p % WINDOW # q % WINDOW
      <4>1. p \in Nat /\ q < p /\ p - q < WINDOW
        BY <2>3, <3>1, WindowAssumption
      <4> QED BY <4>1, SlotsApart
    <3> QED BY <2>1, <3>1, SlotInRange
  <2> QED BY <2>1, <2>2, <2>3
<1> QED BY Zenon, <1>1, <1>2

(* accept returns a window whatever the sequence.                          *)
LEMMA AcceptTypes ==
  ASSUME NEW w \in Windows, NEW s \in Nat PROVE accept(w, s) \in Windows
<1>1. CASE ~would_accept(w, s)
  BY <1>1 DEF accept
<1>2. CASE would_accept(w, s) /\ w.initialized /\ s <= w.highest
  BY Zenon, <1>2, SlotInRange DEF accept, Windows
<1>3. CASE would_accept(w, s) /\ w.initialized /\ ~(s <= w.highest)
  <2>1. forget(w.seen, w.highest, s) \in [Slots -> BOOLEAN]
    <3>1. /\ w.seen \in [Slots -> BOOLEAN] /\ w.highest \in Nat
          /\ w.highest < s
      BY <1>3 DEF Windows
    <3> QED BY Zenon, <3>1, ForgetClears
  <2> QED BY <1>3, <2>1, SlotInRange DEF accept, Windows
<1>4. CASE would_accept(w, s) /\ ~w.initialized
  BY <1>4, SlotInRange DEF accept, Windows
<1> QED BY <1>1, <1>2, <1>3, <1>4

(* Two sequences inside the same window share a slot only when equal.      *)
LEMMA SlotInjective ==
  ASSUME NEW h \in Nat, NEW p \in Nat, NEW q \in Nat,
         p <= h, h < p + WINDOW, q <= h, h < q + WINDOW, p # q
  PROVE  p % WINDOW # q % WINDOW
<1>1. CASE p < q
  <2>1. q - p < WINDOW
    BY <1>1, WindowAssumption
  <2> QED BY <1>1, <2>1, SlotsApart
<1>2. CASE q < p
  <2>1. p - q < WINDOW
    BY <1>2, WindowAssumption
  <2> QED BY <1>2, <2>1, SlotsApart
<1> QED BY <1>1, <1>2

(* Under the invariant a call is answered as the set of accepted           *)
(* sequences would answer it.                                              *)
LEMMA VerdictExact ==
  ASSUME WindowExact, NEW s \in Sequences
  PROVE  would_accept(window, s) <=>
           (accepted = {} \/ (s \notin accepted /\ window.highest < s + WINDOW))
<1> USE DEF WindowExact, WindowType, BitmapExact, HighestIsNewest
<1>0. s \in Nat /\ window.highest \in Nat /\ WINDOW \in Nat
  BY WindowAssumption DEF Windows
<1>1. CASE ~window.initialized
  BY <1>1 DEF would_accept
<1>2. CASE window.initialized /\ s > window.highest
  <2>1. s \notin accepted
    BY <1>0, <1>2
  <2> QED BY <1>0, <1>2, <2>1, WindowAssumption DEF would_accept
<1>3. CASE window.initialized /\ ~(s > window.highest)
  <2>1. (window.highest - s < WINDOW) <=> (window.highest < s + WINDOW)
    BY <1>0, <1>3
  <2>2. accepted # {}
    BY <1>3
  <2>3. CASE window.highest < s + WINDOW
    <3>1. is_set(window, s) <=> s \in accepted
      BY <1>0, <1>3, <2>3
    <3> QED BY <1>0, <1>3, <2>1, <2>2, <2>3, <3>1 DEF would_accept
  <2>4. CASE ~(window.highest < s + WINDOW)
    BY <1>0, <1>3, <2>1, <2>2, <2>4 DEF would_accept
  <2> QED BY <2>3, <2>4
<1> QED BY <1>1, <1>2, <1>3

(* One call preserves the invariant.                                       *)
LEMMA AcceptKeepsInv ==
  ASSUME WindowExact, NEW s \in Sequences, Accept(s)
  PROVE  WindowExact'
<1> USE DEF WindowExact, WindowType, BitmapExact, HighestIsNewest
<1>0. /\ s \in Nat /\ window.highest \in Nat /\ WINDOW \in Nat
      /\ window.seen \in [Slots -> BOOLEAN] /\ Sequences \subseteq Nat
  BY WindowAssumption DEF Windows
<1>1. WindowType'
  <2>1. window' \in Windows
    BY <1>0, AcceptTypes DEF Accept
  <2> QED BY <2>1 DEF Accept, would_accept
<1>2. CASE ~would_accept(window, s)
  <2>1. window' = window /\ accepted' = accepted
    BY <1>2 DEF Accept, accept
  <2> QED BY <1>1, <2>1 DEF is_set
<1>3. CASE would_accept(window, s)
  <2>0. accepted' = accepted \cup {s}
    BY <1>3 DEF Accept
  <2>1. CASE ~window.initialized
    <3>1. /\ window'.highest = s /\ window'.initialized
          /\ window'.seen = [[i \in Slots |-> FALSE] EXCEPT ![s % WINDOW] = TRUE]
          /\ accepted = {}
      <4>1. window = EmptyWindow /\ accepted = {}
        BY <2>1
      <4>2. window' = [highest |-> s,
                       seen |-> [window.seen EXCEPT ![s % WINDOW] = TRUE],
                       initialized |-> TRUE]
        BY <1>3, <2>1 DEF Accept, accept
      <4>3. window.seen = [i \in Slots |-> FALSE]
        BY <4>1 DEF EmptyWindow
      <4> QED BY <4>1, <4>2, <4>3
    <3>2. ASSUME NEW q \in Sequences, q <= s, s < q + WINDOW
          PROVE  is_set(window', q) <=> q \in accepted'
      <4>1. CASE q = s
        BY <1>0, <2>0, <3>1, <4>1, SlotInRange DEF is_set
      <4>2. CASE q # s
        <5>1. q % WINDOW # s % WINDOW
          <6>1. q \in Nat /\ s <= s /\ s < s + WINDOW
            BY <1>0, <3>2
          <6>2. \A h, p, r \in Nat : p <= h /\ h < p + WINDOW /\ r <= h /\ h < r + WINDOW /\ p # r
                                     => p % WINDOW # r % WINDOW
            BY SlotInjective
          <6> QED BY <1>0, <3>2, <4>2, <6>1, <6>2
        <5> QED BY Zenon, <1>0, <2>0, <3>1, <4>2, <5>1, SlotInRange DEF is_set
      <4> QED BY <4>1, <4>2
    <3>3. BitmapExact'
      BY Zenon, <3>1, <3>2 DEF is_set
    <3>4. HighestIsNewest'
      BY <1>0, <2>0, <3>1
    <3> QED BY <1>1, <3>1, <3>3, <3>4
  <2>2. CASE window.initialized /\ s <= window.highest
    <3>1. /\ window'.highest = window.highest /\ window'.initialized
          /\ window'.seen = [window.seen EXCEPT ![s % WINDOW] = TRUE]
      BY <1>3, <2>2 DEF Accept, accept, Windows
    <3>2. s \notin accepted /\ window.highest < s + WINDOW
      BY <1>3, <2>2, VerdictExact
    <3>3. ASSUME NEW q \in Sequences, q <= window.highest, window.highest < q + WINDOW
          PROVE  is_set(window', q) <=> q \in accepted'
      <4>1. CASE q = s
        BY <1>0, <2>0, <3>1, <4>1, SlotInRange DEF is_set
      <4>2. CASE q # s
        <5>1. q % WINDOW # s % WINDOW
          BY Zenon, <1>0, <2>2, <3>2, <3>3, <4>2, SlotInjective
        <5>2. window'.seen[q % WINDOW] = window.seen[q % WINDOW]
          BY <1>0, <3>1, <5>1, SlotInRange
        <5>3. is_set(window, q) <=> q \in accepted
          BY Zenon, <2>2, <3>3
        <5> QED BY <2>0, <4>2, <5>2, <5>3 DEF is_set
      <4> QED BY <4>1, <4>2
    <3>4. BitmapExact'
      BY Zenon, <3>1, <3>3 DEF is_set
    <3>5. HighestIsNewest'
      BY Zenon, <2>0, <2>2, <3>1
    <3> QED BY <1>1, <3>1, <3>4, <3>5
  <2>3. CASE window.initialized /\ ~(s <= window.highest)
    <3> DEFINE f == forget(window.seen, window.highest, s)
    <3>1. /\ window'.highest = s /\ window'.initialized
          /\ window'.seen = [f EXCEPT ![s % WINDOW] = TRUE]
      BY <1>3, <2>3 DEF Accept, accept
    <3>2. /\ f \in [Slots -> BOOLEAN]
          /\ \A q \in Nat : window.highest < q /\ q < s /\ s < q + WINDOW =>
               f[q % WINDOW] = FALSE
          /\ \A q \in Nat : q <= window.highest /\ s < q + WINDOW =>
               f[q % WINDOW] = window.seen[q % WINDOW]
      <4>1. window.highest < s
        BY <1>0, <2>3
      <4> HIDE DEF WindowExact, WindowType, BitmapExact, HighestIsNewest, f
      <4>2. \A seen \in [Slots -> BOOLEAN], h \in Nat, t \in Nat : h < t =>
              /\ forget(seen, h, t) \in [Slots -> BOOLEAN]
              /\ \A q \in Nat : h < q /\ q < t /\ t < q + WINDOW =>
                   forget(seen, h, t)[q % WINDOW] = FALSE
              /\ \A q \in Nat : q <= h /\ t < q + WINDOW =>
                   forget(seen, h, t)[q % WINDOW] = seen[q % WINDOW]
        BY ForgetClears, Zenon
      <4>3. s \in Nat /\ window.highest \in Nat /\ window.seen \in [Slots -> BOOLEAN]
        BY Zenon, <1>0
      <4>4. /\ forget(window.seen, window.highest, s) \in [Slots -> BOOLEAN]
            /\ \A q \in Nat : window.highest < q /\ q < s /\ s < q + WINDOW =>
                 forget(window.seen, window.highest, s)[q % WINDOW] = FALSE
            /\ \A q \in Nat : q <= window.highest /\ s < q + WINDOW =>
                 forget(window.seen, window.highest, s)[q % WINDOW] = window.seen[q % WINDOW]
        BY <4>1, <4>2, <4>3, SMTT(60)
      <4> QED BY <4>4, Zenon DEF f
    <3> HIDE DEF f
    <3>3. ASSUME NEW q \in Sequences, q <= s, s < q + WINDOW
          PROVE  is_set(window', q) <=> q \in accepted'
      <4>1. CASE q = s
        BY Zenon, <1>0, <2>0, <3>1, <3>2, <4>1, SlotInRange DEF is_set
      <4>2. CASE q # s
        <5>1. q % WINDOW # s % WINDOW
          <6>1. q \in Nat /\ s <= s /\ s < s + WINDOW
            BY <1>0, <3>3
          <6>2. \A h, p, r \in Nat : p <= h /\ h < p + WINDOW /\ r <= h /\ h < r + WINDOW /\ p # r
                                     => p % WINDOW # r % WINDOW
            BY SlotInjective
          <6> QED BY <1>0, <3>3, <4>2, <6>1, <6>2
        <5>2. window'.seen[q % WINDOW] = f[q % WINDOW]
          BY <1>0, <3>1, <3>2, <5>1, SlotInRange
        <5>3. CASE q > window.highest
          <6>1. f[q % WINDOW] = FALSE
            <7> HIDE DEF WindowExact, WindowType, BitmapExact, HighestIsNewest
            <7>1. q \in Nat /\ window.highest < q /\ q < s /\ s < q + WINDOW
              BY <1>0, <3>3, <4>2, <5>3
            <7> QED BY Zenon, <3>2, <7>1
          <6>2. q \notin accepted
            <7>1. \A p \in accepted : p <= window.highest
              BY Zenon, <2>3
            <7> QED BY <1>0, <5>3, <7>1
          <6> QED BY Zenon, <2>0, <4>2, <5>2, <6>1, <6>2 DEF is_set
        <5>4. CASE ~(q > window.highest)
          <6>1. f[q % WINDOW] = window.seen[q % WINDOW]
            BY <1>0, <3>2, <3>3, <5>4
          <6>2. is_set(window, q) <=> q \in accepted
            <7> HIDE DEF WindowExact, WindowType, BitmapExact, HighestIsNewest
            <7>0. q \in Nat /\ window.highest < s
              BY <1>0, <2>3
            <7>1. q <= window.highest /\ window.highest < q + WINDOW
              BY <1>0, <3>3, <5>4, <7>0
            <7> USE DEF WindowExact, WindowType, BitmapExact, HighestIsNewest
            <7> QED BY <2>3, <7>1
          <6> QED BY Zenon, <2>0, <4>2, <5>2, <6>1, <6>2 DEF is_set
        <5> QED BY Zenon, <5>3, <5>4
      <4> QED BY <4>1, <4>2
    <3>4. BitmapExact'
      BY Zenon, <3>1, <3>3 DEF is_set
    <3>5. HighestIsNewest'
      <4>1. \A p \in accepted : p \in Nat /\ p <= window.highest
        BY Zenon, <1>0, <2>3
      <4>2. s \in Nat /\ window.highest \in Nat /\ window.highest < s
        BY <1>0, <2>3
      <4>3. s <= s /\ \A p \in accepted : p <= s
        <5> HIDE DEF WindowExact, WindowType, BitmapExact, HighestIsNewest
        <5> QED BY <4>1, <4>2
      <4> QED BY Zenon, <2>0, <3>1, <4>3
    <3> QED BY <1>1, <3>1, <3>4, <3>5
  <2> QED BY <2>1, <2>2, <2>3
<1> QED BY <1>2, <1>3

(* A new window satisfies the invariant.                                   *)
LEMMA InitInv == Init => WindowExact
BY WindowAssumption
   DEF Init, WindowExact, WindowType, BitmapExact, HighestIsNewest, EmptyWindow, Windows

(* So does every window reached from one that satisfies it.                *)
LEMMA NextKeepsInv == WindowExact /\ [Next]_vars => WindowExact'
<1> SUFFICES ASSUME WindowExact, [Next]_vars PROVE WindowExact'
  OBVIOUS
<1>1. CASE Next
  <2>1. PICK s \in Sequences : Accept(s)
    BY Zenon, <1>1 DEF Next
  <2> QED BY <2>1, AcceptKeepsInv
<1>2. CASE UNCHANGED vars
  BY <1>2 DEF vars, WindowExact, WindowType, BitmapExact, HighestIsNewest, is_set
<1> QED BY <1>1, <1>2

(* In every reachable state the window has its type, its bitmap is exact   *)
(* and its newest sequence is the newest accepted one.                     *)
THEOREM InvHolds == Spec => []WindowExact
BY InitInv, NextKeepsInv, PTL DEF Spec

(* The window keeps its type: no call adds a slot to the bitmap.           *)
THEOREM TypeHolds == Spec => []WindowType
<1>1. WindowExact => WindowType
  BY DEF WindowExact
<1> QED BY <1>1, InvHolds, PTL

(* For every window size and every order of calls, no sequence is          *)
(* accepted twice by ReplayWindow::accept.                                 *)
THEOREM NeverTwiceHolds == Spec => []NeverTwice
<1>1. WindowExact => NeverTwice
  <2> SUFFICES ASSUME WindowExact, NEW s \in accepted PROVE ~would_accept(window, s)
    BY DEF NeverTwice
  <2>1. s \in Sequences
    BY DEF WindowExact, WindowType
  <2> QED BY <2>1, VerdictExact
<1> QED BY <1>1, InvHolds, PTL

(* For every window size and every order of calls, a sequence not yet      *)
(* accepted is turned away exactly when it is WINDOW or more behind.       *)
THEOREM NoFalseReplayHolds == Spec => []NoFalseReplay
<1>1. WindowExact => NoFalseReplay
  <2> SUFFICES ASSUME WindowExact, NEW s \in Sequences, s \notin accepted
               PROVE  would_accept(window, s) <=> ~is_too_old(window, s)
    BY DEF NoFalseReplay
  <2>1. s \in Nat /\ window.highest \in Nat /\ WINDOW \in Nat \ {0}
    BY WindowAssumption DEF WindowExact, WindowType, Windows
  <2>2. window.initialized <=> accepted # {}
    BY DEF WindowExact, HighestIsNewest
  <2>3. window.highest < s + WINDOW <=> ~(window.highest >= s /\ window.highest - s >= WINDOW)
    BY <2>1
  <2> QED BY <2>2, <2>3, VerdictExact DEF is_too_old
<1> QED BY <1>1, InvHolds, PTL

(* The circular bitmap implements the abstract receiver: every call of     *)
(* accept is a step of AcceptOnce with the same answer.                    *)
THEOREM Refinement == Spec => RefinesAcceptOnce
<1>1. Init => Abstract!Init
  BY DEF Init, Abstract!Init
<1>2. WindowExact /\ [Next]_vars => [Abstract!Next]_<<accepted, answer>>
  <2> SUFFICES ASSUME WindowExact, [Next]_vars
               PROVE  [Abstract!Next]_<<accepted, answer>>
    OBVIOUS
  <2>1. CASE UNCHANGED vars
    BY <2>1 DEF vars
  <2>2. CASE Next
    <3>1. PICK s \in Sequences : Accept(s)
      BY <2>2 DEF Next
    <3>2. would_accept(window, s) <=> Abstract!Fresh(accepted, s)
      <4>1. CASE accepted = {}
        BY <4>1, VerdictExact DEF Abstract!Fresh
      <4>2. CASE accepted # {}
        <5>1. /\ window.highest \in accepted
              /\ \A q \in accepted : q <= window.highest
              /\ accepted \subseteq Nat /\ window.highest \in Nat
          BY <4>2, WindowAssumption DEF WindowExact, HighestIsNewest, WindowType, Windows
        <5>2. ASSUME NEW h \in accepted, \A q \in accepted : q <= h
              PROVE  h = window.highest
          <6>1. h \in Nat /\ window.highest <= h /\ h <= window.highest
            BY <5>1, <5>2
          <6> QED BY <5>1, <6>1
        <5>3. Abstract!Newest(accepted) = window.highest
          BY Zenon, <5>1, <5>2 DEF Abstract!Newest
        <5> QED BY <4>2, <5>3, VerdictExact DEF Abstract!Fresh
      <4> QED BY <4>1, <4>2
    <3>3. would_accept(window, s) = Abstract!Fresh(accepted, s)
      <4>1. /\ would_accept(window, s) \in BOOLEAN
            /\ Abstract!Fresh(accepted, s) \in BOOLEAN
        BY DEF would_accept, Abstract!Fresh
      <4> QED BY <3>2, <4>1
    <3>4. Abstract!Offer(s)
      BY <3>1, <3>3 DEF Accept, Abstract!Offer
    <3> QED BY <3>4 DEF Abstract!Next
  <2> QED BY <2>1, <2>2
<1> QED BY <1>1, <1>2, InvHolds, PTL DEF Spec, RefinesAcceptOnce, Abstract!Spec

-----------------------------------------------------------------------------
WatchType ==
    [of : Nat, carried : BOOLEAN, done : BOOLEAN, witness : BOOLEAN,
     baseline : Ages(BASELINE_INTERVAL), hold : 0 .. RELAY_ALIVE_HOLD,
     silent : Ages(OUTAGE_WITHOUT_WITNESS), failures : 0 .. DIRECT_FAILURES_REQUIRED,
     probed : Ages(DIRECT_PROBE_INTERVAL), epoch : BOOLEAN]

FailoverTyped ==
    /\ session \in [status : {"idle", "starting", "connected", "error"},
                    relay : {"none", "main", "standby"}, id : Nat]
    /\ watch \in WatchType
    /\ probe \in [kind : {"none", "probe-baseline", "probe-outage"}, of : Nat]
    /\ move \in [at : {"none", "asked", "queued"}, of : Nat, asks : BOOLEAN]
    /\ queued \in Seq({"start", "stop", "move"}) /\ running \in {"none", "starting", "moving"}
    /\ relays \in [{"relay", "paths", "uplink", "direct", "standby", "split"} -> BOOLEAN]
    /\ streak \in [polls : Nat, failed : Nat, asked : BOOLEAN]
    /\ moves \in Nat /\ skips \in Nat

(* An outage that has not begun has no failed probe and no probe of its own;
   one that has begun is of a session that carried traffic. *)
FreshlyCounted(w) ==
    /\ w.silent = Never => w.failures = 0 /\ ~w.epoch
    /\ w.silent # Never => w.carried /\ w.hold = 0

(* What the watch w counted, the world's outage s bears out; n polls were
   missed. *)
BorneOut(w, s, n) ==
    /\ w.silent # Never => s.polls >= 1 /\ s.polls + n > w.silent
    /\ s.failed >= w.failures
    /\ s.asked <=> w.epoch

LEMMA AgesType == ASSUME NEW c \in Nat, NEW a \in Ages(c)
                  PROVE  /\ Older(a, c) \in Ages(c)
                         /\ 0 \in Ages(c) /\ Never \in Ages(c)
                         /\ (c < Never) => (Older(a, c) = Never <=> a = Never)
                         /\ a # Never => Older(a, c) \in Nat /\ Older(a, c) <= a + 1 /\ Older(a, c) <= c
BY DEF Older, Ages, Never

LEMMA AgedFields ==
    ASSUME NEW w \in WatchType, FreshlyCounted(w)
    PROVE  /\ Aged(w) \in WatchType
           /\ Aged(w).of = w.of /\ Aged(w).carried = w.carried /\ Aged(w).done = w.done
           /\ Aged(w).witness = w.witness /\ Aged(w).failures = w.failures /\ Aged(w).epoch = w.epoch
           /\ Aged(w).silent = Never <=> w.silent = Never
           /\ w.silent # Never => Aged(w).silent \in Nat /\ Aged(w).silent <= w.silent + 1
           /\ FreshlyCounted(Aged(w))
<1>0. /\ BASELINE_INTERVAL \in Nat /\ OUTAGE_WITHOUT_WITNESS \in Nat /\ DIRECT_PROBE_INTERVAL \in Nat
      /\ RELAY_ALIVE_HOLD \in Nat /\ OUTAGE_WITHOUT_WITNESS < Never
  BY FailoverConstants
<1>1. /\ w.baseline \in Ages(BASELINE_INTERVAL) /\ w.silent \in Ages(OUTAGE_WITHOUT_WITNESS)
      /\ w.probed \in Ages(DIRECT_PROBE_INTERVAL) /\ w.hold \in 0 .. RELAY_ALIVE_HOLD
  BY DEF WatchType
<1>2. /\ Older(w.baseline, BASELINE_INTERVAL) \in Ages(BASELINE_INTERVAL)
      /\ Older(w.silent, OUTAGE_WITHOUT_WITNESS) \in Ages(OUTAGE_WITHOUT_WITNESS)
      /\ Older(w.probed, DIRECT_PROBE_INTERVAL) \in Ages(DIRECT_PROBE_INTERVAL)
      /\ Older(w.silent, OUTAGE_WITHOUT_WITNESS) = Never <=> w.silent = Never
      /\ w.silent # Never => /\ Older(w.silent, OUTAGE_WITHOUT_WITNESS) \in Nat
                             /\ Older(w.silent, OUTAGE_WITHOUT_WITNESS) <= w.silent + 1
  BY <1>0, <1>1, AgesType
<1>3. (IF w.hold = 0 THEN 0 ELSE w.hold - 1) \in 0 .. RELAY_ALIVE_HOLD
  BY <1>0, <1>1
<1>4. /\ Aged(w).of = w.of /\ Aged(w).carried = w.carried /\ Aged(w).done = w.done
      /\ Aged(w).witness = w.witness /\ Aged(w).failures = w.failures /\ Aged(w).epoch = w.epoch
      /\ Aged(w).silent = Older(w.silent, OUTAGE_WITHOUT_WITNESS)
      /\ Aged(w).hold = IF w.hold = 0 THEN 0 ELSE w.hold - 1
  BY DEF Aged, WatchType
<1>5. Aged(w) \in WatchType
  BY Zenon, <1>2, <1>3 DEF Aged, WatchType
<1>. QED  BY <1>2, <1>4, <1>5 DEF FreshlyCounted

LEMMA ResetFields ==
    ASSUME NEW w \in WatchType
    PROVE  /\ resetOutage(w) \in WatchType
           /\ resetOutage(w).of = w.of /\ resetOutage(w).carried = w.carried
           /\ resetOutage(w).done = w.done /\ resetOutage(w).witness = w.witness
           /\ resetOutage(w).silent = Never /\ resetOutage(w).failures = 0
           /\ resetOutage(w).epoch = FALSE
           /\ FreshlyCounted(resetOutage(w))
<1>0. Never \in Ages(OUTAGE_WITHOUT_WITNESS) /\ Never \in Ages(DIRECT_PROBE_INTERVAL)
  BY DEF Ages
<1>00. 0 \in 0 .. DIRECT_FAILURES_REQUIRED
  BY FailoverConstants
<1>1. resetOutage(w) \in WatchType
  BY Zenon, <1>0, <1>00 DEF resetOutage, WatchType
<1>2. /\ resetOutage(w).of = w.of /\ resetOutage(w).carried = w.carried
      /\ resetOutage(w).done = w.done /\ resetOutage(w).witness = w.witness
      /\ resetOutage(w).silent = Never /\ resetOutage(w).failures = 0
      /\ resetOutage(w).epoch = FALSE
  BY DEF resetOutage, WatchType
<1>. QED  BY <1>1, <1>2 DEF FreshlyCounted

LEMMA NoWatchFields ==
    ASSUME NEW id \in Nat, NEW watching \in BOOLEAN
    PROVE  /\ NoWatch \in WatchType /\ begin(id, watching) \in WatchType
           /\ NoWatch.done = TRUE /\ NoWatch.of = 0
           /\ begin(id, watching).of = id /\ begin(id, watching).done = ~watching
           /\ begin(id, watching).silent = Never /\ begin(id, watching).failures = 0
           /\ begin(id, watching).epoch = FALSE
           /\ FreshlyCounted(NoWatch) /\ FreshlyCounted(begin(id, watching))
<1>0. /\ Never \in Ages(OUTAGE_WITHOUT_WITNESS) /\ Never \in Ages(DIRECT_PROBE_INTERVAL)
      /\ Never \in Ages(BASELINE_INTERVAL)
  BY DEF Ages
<1>00. 0 \in 0 .. DIRECT_FAILURES_REQUIRED /\ 0 \in 0 .. RELAY_ALIVE_HOLD
  BY FailoverConstants
<1>. QED  BY Zenon, <1>0, <1>00 DEF NoWatch, begin, WatchType, FreshlyCounted
(* What one observation may change. *)
Observed(w, c, u, s) ==
    /\ s.watch \in WatchType /\ s.action \in {"none", "probe-baseline", "probe-outage", "failover"}
    /\ s.watch.of = w.of /\ s.watch.done = w.done /\ s.watch.witness = w.witness
    /\ FreshlyCounted(s.watch)
    /\ (c \/ ~u) => s.watch.silent = Never /\ s.action \notin {"probe-outage", "failover"}
    /\ ~(c \/ ~u) => /\ s.watch.failures = w.failures /\ s.watch.epoch = w.epoch
                     /\ w.silent # Never => s.watch.silent = w.silent
                     /\ w.silent = Never => s.watch.silent \in {0, Never}
    /\ s.action \in {"probe-outage", "failover"} => s.watch.silent # Never
    /\ s.action = "failover" =>
       /\ w.carried
       /\ IF w.witness
          THEN w.failures >= DIRECT_FAILURES_REQUIRED /\ s.watch.silent >= OUTAGE_WITH_WITNESS
          ELSE s.watch.silent >= OUTAGE_WITHOUT_WITNESS

LEMMA ConnectedFields ==
    ASSUME NEW w \in WatchType, FreshlyCounted(w), NEW u \in BOOLEAN
    PROVE  Observed(w, TRUE, u, ObserveConnected(w))
<1>. DEFINE r == IF w.silent # Never THEN resetOutage(w) ELSE w
            h == [r EXCEPT !.carried = TRUE]
            b == [h EXCEPT !.baseline = 0]
<1>1. /\ r \in WatchType /\ r.of = w.of /\ r.done = w.done /\ r.witness = w.witness
      /\ r.silent = Never /\ r.failures = 0 /\ r.epoch = FALSE
  <2>1. CASE w.silent # Never
    BY Zenon, <2>1, ResetFields
  <2>2. CASE w.silent = Never
    BY <2>2 DEF FreshlyCounted, WatchType
  <2>. QED  BY Zenon, <2>1, <2>2
<1>. HIDE DEF r
<1>2. /\ h \in WatchType /\ h.of = w.of /\ h.done = w.done /\ h.witness = w.witness
      /\ h.silent = Never /\ h.failures = 0 /\ h.epoch = FALSE
  BY Zenon, <1>1 DEF WatchType
<1>. HIDE DEF h
<1>3. 0 \in Ages(BASELINE_INTERVAL)
  BY FailoverConstants DEF Ages
<1>4. /\ b \in WatchType /\ b.of = w.of /\ b.done = w.done /\ b.witness = w.witness
      /\ b.silent = Never /\ b.failures = 0 /\ b.epoch = FALSE
  BY <1>2, <1>3 DEF WatchType
<1>. HIDE DEF b
<1>5. ObserveConnected(w) \in {Answer(b, "probe-baseline"), Answer(h, "none")}
  BY DEF ObserveConnected, b, h, r
<1>6. Observed(w, TRUE, u, Answer(b, "probe-baseline"))
  BY <1>4 DEF Observed, Answer, FreshlyCounted
<1>7. Observed(w, TRUE, u, Answer(h, "none"))
  BY <1>2 DEF Observed, Answer, FreshlyCounted
<1>. QED  BY Zenon, <1>5, <1>6, <1>7

LEMMA SilentFields ==
    ASSUME NEW w \in WatchType, FreshlyCounted(w), w.carried, w.hold = 0
    PROVE  Observed(w, FALSE, TRUE, ObserveSilent(w))
<1>. DEFINE t == IF w.silent = Never THEN 0 ELSE w.silent
            q == [w EXCEPT !.silent = t]
            p == [q EXCEPT !.probed = 0]
<1>0. 0 \in Ages(OUTAGE_WITHOUT_WITNESS) /\ 0 \in Ages(DIRECT_PROBE_INTERVAL) /\ 0 # Never
  BY FailoverConstants DEF Ages, Never
<1>1. /\ t \in Ages(OUTAGE_WITHOUT_WITNESS) /\ t # Never
      /\ w.silent # Never => t = w.silent
      /\ w.silent = Never => t = 0
  BY <1>0 DEF WatchType
<1>. HIDE DEF t
<1>2. /\ q \in WatchType /\ q.of = w.of /\ q.done = w.done /\ q.witness = w.witness
      /\ q.silent = t /\ q.failures = w.failures /\ q.epoch = w.epoch /\ q.carried = w.carried /\ q.hold = w.hold
  BY Zenon, <1>1 DEF WatchType
<1>. HIDE DEF q
<1>3. /\ p \in WatchType /\ p.of = w.of /\ p.done = w.done /\ p.witness = w.witness
      /\ p.silent = t /\ p.failures = w.failures /\ p.epoch = w.epoch /\ p.carried = w.carried /\ p.hold = w.hold
  BY Zenon, <1>0, <1>2 DEF WatchType
<1>. HIDE DEF p
<1>4. \/ ObserveSilent(w) = Answer(q, "none")
      \/ ObserveSilent(w) = Answer(p, "probe-outage")
      \/ /\ ObserveSilent(w) = Answer(q, "failover")
         /\ IF w.witness
            THEN w.failures >= DIRECT_FAILURES_REQUIRED /\ q.silent >= OUTAGE_WITH_WITNESS
            ELSE q.silent >= OUTAGE_WITHOUT_WITNESS
  BY DEF ObserveSilent, q, p, t
<1>5. Observed(w, FALSE, TRUE, Answer(q, "none"))
  BY Zenon, <1>1, <1>2 DEF Observed, Answer, FreshlyCounted
<1>6. Observed(w, FALSE, TRUE, Answer(p, "probe-outage"))
  BY Zenon, <1>1, <1>3 DEF Observed, Answer, FreshlyCounted
<1>7. ASSUME IF w.witness
             THEN w.failures >= DIRECT_FAILURES_REQUIRED /\ q.silent >= OUTAGE_WITH_WITNESS
             ELSE q.silent >= OUTAGE_WITHOUT_WITNESS
      PROVE  Observed(w, FALSE, TRUE, Answer(q, "failover"))
  BY Zenon, <1>1, <1>2, <1>7 DEF Observed, Answer, FreshlyCounted
<1>. QED  BY Zenon, <1>4, <1>5, <1>6, <1>7

LEMMA ObserveFields ==
    ASSUME NEW w \in WatchType, FreshlyCounted(w), NEW c \in BOOLEAN, NEW u \in BOOLEAN
    PROVE  Observed(w, c, u, observe(w, c, u))
<1>1. CASE c
  <2>1. observe(w, c, u) = ObserveConnected(w)
    BY <1>1 DEF observe
  <2>. QED  BY Zenon, <1>1, <2>1, ConnectedFields
<1>2. CASE ~c /\ (~w.carried \/ w.hold > 0)
  <2>1. observe(w, c, u) = Answer(w, "none")
    BY <1>2 DEF observe
  <2>2. w.silent = Never
    <3>1. w.hold \in Nat
      BY FailoverConstants DEF WatchType
    <3>. QED  BY <1>2, <3>1 DEF FreshlyCounted
  <2>. QED  BY <1>2, <2>1, <2>2 DEF Observed, Answer
<1>3. CASE ~c /\ w.carried /\ w.hold = 0 /\ ~u
  <2>. DEFINE r == IF w.silent # Never THEN resetOutage(w) ELSE w
  <2>1. observe(w, c, u) = Answer(r, "none")
    BY <1>3 DEF observe
  <2>2. /\ r \in WatchType /\ r.of = w.of /\ r.done = w.done /\ r.witness = w.witness
        /\ r.silent = Never /\ FreshlyCounted(r)
    BY Zenon, ResetFields
  <2>. HIDE DEF r
  <2>. QED  BY <1>3, <2>1, <2>2 DEF Observed, Answer
<1>4. CASE ~c /\ w.carried /\ w.hold = 0 /\ u
  <2>1. observe(w, c, u) = ObserveSilent(w)
    BY <1>4 DEF observe
  <2>. QED  BY Zenon, <1>4, <2>1, SilentFields
<1>5. w.hold \in Nat /\ w.carried \in BOOLEAN
  BY FailoverConstants DEF WatchType
<1>. QED  BY <1>1, <1>2, <1>3, <1>4, <1>5
(* While a session is watched and no move is under way, the watch and the world
   agree on the outage.  A move that belongs to an earlier session leaves a
   watch behind that has counted nothing. *)
Watched ==
    ~watch.done =>
    /\ move = NoMove => BorneOut(watch, streak, skips)
    /\ move # NoMove /\ move.of # watch.of => watch.silent = Never /\ ~streak.asked
    /\ streak.asked /\ probe.kind = "probe-outage" => probe.of = watch.of

Numbered == move.of <= session.id /\ watch.of <= session.id /\ probe.of <= session.id

(* The session queue holds the move at most once, and only while the controller
   waits for it. *)
MoveWaits ==
    /\ \A i \in 1 .. Len(queued) : queued[i] = "move" => move.at = "queued" /\ running # "moving"
    /\ \A i, j \in 1 .. Len(queued) : queued[i] = "move" /\ queued[j] = "move" => i = j

(* After a move nothing asks for another before the user starts again. *)
MovesOnce ==
    /\ moves <= 1
    /\ moves = 1 => running = "moving" \/ (move = NoMove /\ watch.done)
    /\ session.status = "starting" => watch.done
    /\ running # "none" => session.status = "starting"
    /\ running = "moving" => move.at = "queued"

FailoverInv ==
    FailoverTyped /\ FreshlyCounted(watch) /\ Watched /\ Numbered /\ MoveWaits /\ MovesOnce

(* What MovesOnlyFromAGoneRelay says of the step that asks for a move. *)
AskedOfAGoneRelay ==
    move = NoMove /\ move' # NoMove =>
    /\ watch.carried
    /\ IF watch.witness
       THEN streak'.polls + skips > OUTAGE_WITH_WITNESS /\ streak'.failed >= DIRECT_FAILURES_REQUIRED
       ELSE streak'.polls + skips > OUTAGE_WITHOUT_WITNESS

LEMMA StreakFields == /\ NewStreak \in [polls : Nat, failed : Nat, asked : BOOLEAN]
                      /\ NewStreak.polls = 0 /\ NewStreak.failed = 0 /\ NewStreak.asked = FALSE
BY Zenon DEF NewStreak

LEMMA NoMoveFields == /\ NoMove \in [at : {"none", "asked", "queued"}, of : Nat, asks : BOOLEAN]
                      /\ NoMove.at = "none" /\ NoMove.of = 0
                      /\ NoProbe \in [kind : {"none", "probe-baseline", "probe-outage"}, of : Nat]
                      /\ NoProbe.kind = "none" /\ NoProbe.of = 0
BY DEF NoMove, NoProbe

LEMMA FailoverStarts == FailoverInit => FailoverInv
<1>. SUFFICES ASSUME FailoverInit PROVE FailoverInv
  BY Zenon
<1>1. /\ session.status = "idle" /\ session.id = 0 /\ watch = NoWatch /\ probe = NoProbe /\ move = NoMove
      /\ queued = <<>> /\ running = "none" /\ moves = 0 /\ skips = 0 /\ streak = NewStreak
  BY Zenon DEF FailoverInit
<1>2. relays \in [{"relay", "paths", "uplink", "direct", "standby", "split"} -> BOOLEAN]
  BY Zenon DEF FailoverInit
<1>3. session \in [status : {"idle", "starting", "connected", "error"},
                    relay : {"none", "main", "standby"}, id : Nat]
  BY DEF FailoverInit
<1>4. queued \in Seq({"start", "stop", "move"}) /\ Len(queued) = 0
  BY <1>1
<1>5. NoWatch \in WatchType /\ NoWatch.done = TRUE /\ NoWatch.of = 0 /\ FreshlyCounted(NoWatch)
  BY Zenon, NoWatchFields
<1>6. FailoverTyped
  BY <1>1, <1>2, <1>3, <1>4, <1>5, StreakFields, NoMoveFields DEF FailoverTyped
<1>7. Watched /\ Numbered /\ MovesOnce
  BY <1>1, <1>5, NoMoveFields DEF Watched, Numbered, MovesOnce
<1>8. MoveWaits
  BY <1>4 DEF MoveWaits
<1>. QED  BY <1>1, <1>5, <1>6, <1>7, <1>8 DEF FailoverInv

LEMMA PollSteps ==
    ASSUME FailoverInv, Poll
    PROVE  FailoverInv' /\ AskedOfAGoneRelay
<1>. DEFINE idle == watch.done \/ move # NoMove
            c == RelayAnswers
            u == relays.uplink
            a == Aged(watch)
            seen == IF idle THEN Answer(a, "none") ELSE observe(a, c, u)
            sends == probe = NoProbe /\ seen.action \in {"probe-baseline", "probe-outage"}
            counts == sends /\ seen.action = "probe-outage"
<1>0. /\ watch \in WatchType /\ FreshlyCounted(watch) /\ c \in BOOLEAN /\ u \in BOOLEAN
      /\ watch.done \in BOOLEAN /\ streak \in [polls : Nat, failed : Nat, asked : BOOLEAN]
      /\ skips \in Nat /\ watch.silent \in Ages(OUTAGE_WITHOUT_WITNESS) /\ OUTAGE_WITHOUT_WITNESS \in Nat
      /\ OUTAGE_WITH_WITNESS \in Nat /\ DIRECT_FAILURES_REQUIRED \in Nat /\ OUTAGE_WITHOUT_WITNESS < Never
  <2>1. c \in BOOLEAN
    BY DEF RelayAnswers
  <2>2. u \in BOOLEAN
    BY Zenon DEF FailoverInv, FailoverTyped
  <2>. QED  BY <2>1, <2>2, FailoverConstants DEF FailoverInv, FailoverTyped, WatchType
<1>1. /\ watch' = IF seen.action # "probe-outage" THEN seen.watch
                   ELSE IF sends THEN [seen.watch EXCEPT !.epoch = TRUE]
                   ELSE [seen.watch EXCEPT !.probed = Never]
      /\ probe' = IF sends THEN [kind |-> seen.action, of |-> watch.of] ELSE probe
      /\ move' = IF seen.action = "failover"
                  THEN [at |-> "asked", of |-> watch.of, asks |-> watch.witness /\ relays.split]
                  ELSE move
      /\ streak' = IF c \/ ~u THEN NewStreak
                    ELSE [streak EXCEPT !.polls = IF @ > OUTAGE_WITHOUT_WITNESS THEN @ ELSE @ + 1,
                                        !.asked = @ \/ counts]
      /\ session.status = "connected"
      /\ UNCHANGED <<session, queued, running, relays, moves>> /\ skips' = skips
  BY Zenon DEF Poll, limits
<1>2. /\ a \in WatchType /\ a.of = watch.of /\ a.carried = watch.carried /\ a.done = watch.done
      /\ a.witness = watch.witness /\ a.failures = watch.failures /\ a.epoch = watch.epoch
      /\ a.silent = Never <=> watch.silent = Never
      /\ watch.silent # Never => a.silent \in Nat /\ a.silent <= watch.silent + 1
      /\ FreshlyCounted(a)
  BY Zenon, <1>0, AgedFields
<1>. HIDE DEF a
<1>3. idle => seen.watch = a /\ seen.action = "none"
  BY Zenon DEF Answer
<1>4. ~idle => Observed(a, c, u, seen)
  BY Zenon, <1>0, <1>2, ObserveFields
<1>5. /\ seen.watch \in WatchType /\ FreshlyCounted(seen.watch)
      /\ seen.watch.of = watch.of /\ seen.watch.done = watch.done /\ seen.watch.witness = watch.witness
      /\ seen.action \in {"none", "probe-baseline", "probe-outage", "failover"}
      /\ seen.action \in {"probe-outage", "failover"} => seen.watch.silent # Never
  BY Zenon, <1>2, <1>3, <1>4 DEF Observed
<1>. HIDE DEF seen
<1>6. /\ watch' \in WatchType /\ FreshlyCounted(watch')
      /\ watch'.of = watch.of /\ watch'.done = watch.done /\ watch'.witness = watch.witness
      /\ watch'.silent = seen.watch.silent /\ watch'.failures = seen.watch.failures
      /\ watch'.epoch = (seen.watch.epoch \/ counts)
  <2>0. Never \in Ages(DIRECT_PROBE_INTERVAL)
    BY Zenon DEF Ages
  <2>1. CASE seen.action # "probe-outage"
    <3>1. watch' = seen.watch /\ counts = FALSE /\ seen.watch.epoch \in BOOLEAN
      BY Zenon, <1>1, <1>5, <2>1 DEF WatchType
    <3>. QED  BY Zenon, <1>5, <3>1
  <2>2. CASE seen.action = "probe-outage" /\ sends
    <3>1. watch' = [seen.watch EXCEPT !.epoch = TRUE] /\ counts = TRUE /\ seen.watch.epoch \in BOOLEAN
      BY <1>1, <1>5, <2>2 DEF WatchType
    <3>2. seen.watch.silent # Never
      BY <1>5, <2>2
    <3>3. watch' \in WatchType
      BY Zenon, <1>5, <3>1 DEF WatchType
    <3>4. /\ watch'.of = seen.watch.of /\ watch'.done = seen.watch.done /\ watch'.witness = seen.watch.witness
          /\ watch'.silent = seen.watch.silent /\ watch'.failures = seen.watch.failures
          /\ watch'.epoch = TRUE /\ watch'.carried = seen.watch.carried /\ watch'.hold = seen.watch.hold
      BY <1>5, <3>1 DEF WatchType
    <3>. QED  BY Zenon, <1>5, <3>1, <3>2, <3>3, <3>4 DEF FreshlyCounted
  <2>3. CASE seen.action = "probe-outage" /\ ~sends
    <3>1. watch' = [seen.watch EXCEPT !.probed = Never] /\ counts = FALSE /\ seen.watch.epoch \in BOOLEAN
      BY Zenon, <1>1, <1>5, <2>3 DEF WatchType
    <3>2. seen.watch.silent # Never
      BY <1>5, <2>3
    <3>3. watch' \in WatchType
      BY Zenon, <1>5, <3>1, <2>0 DEF WatchType
    <3>4. /\ watch'.of = seen.watch.of /\ watch'.done = seen.watch.done /\ watch'.witness = seen.watch.witness
          /\ watch'.silent = seen.watch.silent /\ watch'.failures = seen.watch.failures
          /\ watch'.epoch = seen.watch.epoch /\ watch'.carried = seen.watch.carried /\ watch'.hold = seen.watch.hold
      BY Zenon, <1>5, <3>1 DEF WatchType
    <3>. QED  BY <1>5, <3>1, <3>2, <3>3, <3>4 DEF FreshlyCounted
  <2>. QED  BY <2>1, <2>2, <2>3
<1>7. /\ streak' \in [polls : Nat, failed : Nat, asked : BOOLEAN]
      /\ (c \/ ~u) => streak'.polls = 0 /\ streak'.failed = 0 /\ streak'.asked = FALSE
      /\ ~(c \/ ~u) => /\ streak'.polls = IF streak.polls > OUTAGE_WITHOUT_WITNESS THEN streak.polls ELSE streak.polls + 1
                       /\ streak'.failed = streak.failed /\ streak'.asked = (streak.asked \/ counts)
  <2>0. counts \in BOOLEAN
    OBVIOUS
  <2>1. CASE c \/ ~u
    BY <1>1, <2>1, StreakFields
  <2>2. CASE ~(c \/ ~u)
    <3>1. streak' = [streak EXCEPT !.polls = IF streak.polls > OUTAGE_WITHOUT_WITNESS THEN streak.polls ELSE streak.polls + 1,
                                   !.asked = streak.asked \/ counts]
      BY <1>1, <2>2
    <3>. DEFINE p == IF streak.polls > OUTAGE_WITHOUT_WITNESS THEN streak.polls ELSE streak.polls + 1
                 q == streak.asked \/ counts
    <3>2. p \in Nat /\ q \in BOOLEAN
      BY <1>0
    <3>3. streak' = [streak EXCEPT !.polls = p, !.asked = q]
      BY <3>1
    <3>. HIDE DEF p, q
    <3>4. /\ streak' \in [polls : Nat, failed : Nat, asked : BOOLEAN]
          /\ streak'.polls = p /\ streak'.failed = streak.failed /\ streak'.asked = q
      BY Zenon, <1>0, <3>2, <3>3
    <3>. QED  BY <2>2, <3>4 DEF p, q
  <2>. QED  BY Zenon, <2>1, <2>2
<1>8. probe' \in [kind : {"none", "probe-baseline", "probe-outage"}, of : Nat]
      /\ (counts => probe'.of = watch.of)
      /\ (~counts => probe' = probe \/ probe'.kind = "probe-baseline")
      /\ (probe'.of = watch.of \/ probe' = probe)
  <2>1. probe \in [kind : {"none", "probe-baseline", "probe-outage"}, of : Nat] /\ watch.of \in Nat
    BY <1>0 DEF FailoverInv, FailoverTyped, WatchType
  <2>. QED  BY <1>1, <1>5, <2>1
<1>9. /\ seen.action # "failover" => move' = move
      /\ seen.action = "failover" => move'.of = watch.of /\ move'.at = "asked"
      /\ move' \in [at : {"none", "asked", "queued"}, of : Nat, asks : BOOLEAN]
  <2>1. move \in [at : {"none", "asked", "queued"}, of : Nat, asks : BOOLEAN] /\ watch.of \in Nat
        /\ (watch.witness /\ relays.split) \in BOOLEAN
    BY Zenon, <1>0 DEF FailoverInv, FailoverTyped, WatchType
  <2>. QED  BY <1>1, <2>1
<1>10. ~idle => /\ move = NoMove /\ ~watch.done /\ BorneOut(watch, streak, skips)
  BY <1>0 DEF FailoverInv, Watched
<1>11. ASSUME ~idle
       PROVE  BorneOut(watch', streak', skips')
  <2>0. /\ BorneOut(watch, streak, skips) /\ Observed(a, c, u, seen)
    BY Zenon, <1>4, <1>10, <1>11
  <2>1. CASE c \/ ~u
    <3>1. seen.watch.silent = Never /\ counts = FALSE
      BY Zenon, <2>0, <2>1 DEF Observed
    <3>2. watch'.silent = Never /\ watch'.failures = 0 /\ watch'.epoch = FALSE
      BY Zenon, <1>6, <3>1 DEF FreshlyCounted, WatchType
    <3>. QED  BY <1>7, <2>1, <3>2 DEF BorneOut
  <2>2. CASE ~(c \/ ~u)
    <3>1. /\ seen.watch.failures = watch.failures /\ seen.watch.epoch = watch.epoch
          /\ watch.silent # Never => seen.watch.silent = a.silent
          /\ watch.silent = Never => seen.watch.silent \in {0, Never}
      BY Zenon, <1>2, <2>0, <2>2 DEF Observed
    <3>2. streak'.failed >= watch'.failures /\ (streak'.asked <=> watch'.epoch)
      BY Zenon, <1>0, <1>6, <1>7, <2>0, <2>2, <3>1 DEF BorneOut
    <3>3. ASSUME watch'.silent # Never
          PROVE  streak'.polls >= 1 /\ streak'.polls + skips > watch'.silent
      <4>0. streak.polls \in Nat /\ watch'.silent \in 0 .. OUTAGE_WITHOUT_WITNESS
        BY Zenon, <1>0, <1>6, <3>3 DEF WatchType, Ages
      <4>1. CASE watch.silent = Never
        BY <1>0, <1>6, <1>7, <2>2, <3>1, <3>3, <4>0, <4>1
      <4>2. CASE watch.silent # Never
        <5>1. watch'.silent <= watch.silent + 1 /\ watch.silent \in Nat
          BY <1>0, <1>2, <1>6, <3>1, <4>2 DEF Ages
        <5>2. streak.polls >= 1 /\ streak.polls + skips > watch.silent
          BY Zenon, <2>0, <4>2 DEF BorneOut
        <5>. QED  BY <1>0, <1>7, <2>2, <4>0, <5>1, <5>2
      <4>. QED  BY Zenon, <4>1, <4>2
    <3>. QED  BY Zenon, <1>1, <3>2, <3>3 DEF BorneOut
  <2>. QED  BY Zenon, <2>1, <2>2
<1>12. AskedOfAGoneRelay
  <2>. SUFFICES ASSUME move = NoMove, move' # NoMove
                PROVE  /\ watch.carried
                       /\ IF watch.witness
                          THEN streak'.polls + skips > OUTAGE_WITH_WITNESS /\ streak'.failed >= DIRECT_FAILURES_REQUIRED
                          ELSE streak'.polls + skips > OUTAGE_WITHOUT_WITNESS
    BY Zenon DEF AskedOfAGoneRelay
  <2>1. seen.action = "failover" /\ ~idle
    BY Zenon, <1>3, <1>9
  <2>2. /\ a.carried /\ seen.watch.silent # Never
        /\ IF a.witness
           THEN a.failures >= DIRECT_FAILURES_REQUIRED /\ seen.watch.silent >= OUTAGE_WITH_WITNESS
           ELSE seen.watch.silent >= OUTAGE_WITHOUT_WITNESS
        /\ ~(c \/ ~u)
        /\ seen.watch.failures = a.failures
    BY Zenon, <1>4, <2>1 DEF Observed
  <2>3. streak'.polls + skips > watch'.silent /\ streak'.failed >= watch'.failures
    BY Zenon, <1>1, <1>6, <1>11, <2>1, <2>2 DEF BorneOut
  <2>4. watch'.silent \in Nat /\ streak'.polls \in Nat /\ streak'.failed \in Nat /\ watch'.failures \in Nat
    BY <1>0, <1>6, <1>7, <2>2 DEF WatchType, Ages
  <2>. QED  BY <1>0, <1>2, <1>6, <2>2, <2>3, <2>4
<1>13. FailoverTyped'
  BY Zenon, <1>1, <1>6, <1>7, <1>8, <1>9 DEF FailoverInv, FailoverTyped
<1>14. Watched'
  <2>. SUFFICES ASSUME ~watch'.done
                PROVE  /\ move' = NoMove => BorneOut(watch', streak', skips')
                       /\ move' # NoMove /\ move'.of # watch'.of => watch'.silent = Never /\ ~streak'.asked
                       /\ streak'.asked /\ probe'.kind = "probe-outage" => probe'.of = watch'.of
    BY Zenon DEF Watched
  <2>1. ASSUME move' = NoMove PROVE BorneOut(watch', streak', skips')
    <3>1. ~idle
      BY Zenon, <1>3, <1>6, <1>9, <2>1
    <3>. QED  BY Zenon, <1>11, <3>1
  <2>2. ASSUME move' # NoMove, move'.of # watch'.of PROVE watch'.silent = Never /\ ~streak'.asked
    <3>1. move' = move /\ idle
      BY Zenon, <1>6, <1>9, <1>10, <2>2
    <3>2. watch.silent = Never /\ ~streak.asked
      BY Zenon, <1>6, <2>2, <3>1 DEF FailoverInv, Watched
    <3>3. seen.watch = a /\ ~counts
      BY Zenon, <1>3, <3>1
    <3>. QED  BY Zenon, <1>2, <1>6, <1>7, <3>2, <3>3
  <2>3. ASSUME streak'.asked, probe'.kind = "probe-outage" PROVE probe'.of = watch'.of
    <3>1. CASE counts
      BY Zenon, <1>6, <1>8, <3>1
    <3>2. CASE ~counts
      <4>1. probe' = probe /\ streak.asked
        BY Zenon, <1>7, <1>8, <2>3, <3>2
      <4>. QED  BY Zenon, <1>6, <2>3, <4>1 DEF FailoverInv, Watched
    <3>. QED  BY Zenon, <3>1, <3>2
  <2>. QED  BY Zenon, <2>1, <2>2, <2>3
<1>15. Numbered'
  <2>1. Numbered /\ move'.of \in {move.of, watch.of} /\ probe'.of \in {probe.of, watch.of}
    BY <1>8, <1>9 DEF FailoverInv
  <2>. QED  BY <1>1, <1>6, <2>1 DEF Numbered
<1>16. MoveWaits'
  <2>1. MoveWaits /\ (move' = move \/ (move = NoMove /\ move.at = "none"))
    BY <1>3, <1>9, NoMoveFields DEF FailoverInv
  <2>. QED  BY <1>1, <2>1 DEF MoveWaits
<1>17. MovesOnce'
  <2>1. MovesOnce
    BY DEF FailoverInv
  <2>2. running = "none"
    BY <1>1, <2>1 DEF MovesOnce
  <2>3. moves = 1 => idle
    BY <2>1, <2>2 DEF MovesOnce
  <2>. QED  BY <1>1, <1>3, <1>6, <1>9, <2>1, <2>2, <2>3 DEF MovesOnce
<1>. QED  BY Zenon, <1>6, <1>12, <1>13, <1>14, <1>15, <1>16, <1>17 DEF FailoverInv, FreshlyCounted
LEMMA PollMissedSteps ==
    ASSUME FailoverInv, PollMissed
    PROVE  FailoverInv' /\ move' = move
<1>1. /\ watch' = Aged(watch) /\ skips' = skips + 1 /\ session.status = "connected"
      /\ UNCHANGED <<session, probe, move, queued, running, relays, streak, moves>>
  BY Zenon DEF PollMissed
<1>2. /\ watch \in WatchType /\ FreshlyCounted(watch) /\ skips \in Nat /\ streak.polls \in Nat
      /\ watch.silent # Never => watch.silent \in Nat
  BY FailoverConstants DEF FailoverInv, FailoverTyped, WatchType, Ages
<1>3. /\ watch' \in WatchType /\ watch'.of = watch.of /\ watch'.done = watch.done
      /\ watch'.failures = watch.failures /\ watch'.epoch = watch.epoch
      /\ watch'.silent = Never <=> watch.silent = Never
      /\ watch.silent # Never => watch'.silent \in Nat /\ watch'.silent <= watch.silent + 1
      /\ FreshlyCounted(watch')
  BY Zenon, <1>1, <1>2, AgedFields
<1>4. ASSUME BorneOut(watch, streak, skips) PROVE BorneOut(watch', streak', skips')
  <2>1. /\ streak'.failed >= watch'.failures
        /\ streak'.asked <=> watch'.epoch
    BY Zenon, <1>1, <1>3, <1>4 DEF BorneOut
  <2>2. ASSUME watch'.silent # Never
        PROVE  streak'.polls >= 1 /\ streak'.polls + skips' > watch'.silent
    BY <1>1, <1>2, <1>3, <1>4, <2>2 DEF BorneOut
  <2>. QED  BY Zenon, <2>1, <2>2 DEF BorneOut
<1>5. FailoverTyped'
  BY <1>1, <1>2, <1>3 DEF FailoverInv, FailoverTyped
<1>6. Watched'
  BY Zenon, <1>1, <1>3, <1>4 DEF FailoverInv, Watched
<1>7. Numbered' /\ MoveWaits' /\ MovesOnce'
  BY Zenon, <1>1, <1>3 DEF FailoverInv, Numbered, MoveWaits, MovesOnce
<1>. QED  BY <1>1, <1>3, <1>5, <1>6, <1>7 DEF FailoverInv, FreshlyCounted

(* What a probe of this outage may change. *)
Noted(w, alive, v) ==
    /\ v \in WatchType /\ FreshlyCounted(v) /\ v.of = w.of /\ v.done = w.done
    /\ alive => v.silent = Never /\ v.failures = 0 /\ v.epoch = FALSE
    /\ ~alive =>
       /\ v.silent = w.silent /\ v.epoch = w.epoch
       /\ v.failures = IF w.failures < DIRECT_FAILURES_REQUIRED THEN w.failures + 1 ELSE w.failures

LEMMA NoteFields ==
    ASSUME NEW w \in WatchType, FreshlyCounted(w), NEW alive \in BOOLEAN, w.epoch, ~w.done
    PROVE  Noted(w, alive, noteOutageProbe(w, alive))
<1>. DEFINE v == noteOutageProbe(w, alive)
<1>0. DIRECT_FAILURES_REQUIRED \in Nat /\ RELAY_ALIVE_HOLD \in Nat /\ w.failures \in 0 .. DIRECT_FAILURES_REQUIRED
  BY Zenon, FailoverConstants DEF WatchType
<1>1. CASE alive
  <2>. DEFINE r == resetOutage(w)
  <2>1. v = [r EXCEPT !.hold = RELAY_ALIVE_HOLD]
    BY <1>1 DEF noteOutageProbe
  <2>2. /\ r \in WatchType /\ r.of = w.of /\ r.done = w.done /\ r.silent = Never /\ r.failures = 0 /\ r.epoch = FALSE
    BY Zenon, ResetFields
  <2>. HIDE DEF r, v
  <2>3. RELAY_ALIVE_HOLD \in 0 .. RELAY_ALIVE_HOLD
    BY <1>0
  <2>4. /\ v \in WatchType /\ v.of = w.of /\ v.done = w.done /\ v.silent = Never /\ v.failures = 0 /\ v.epoch = FALSE
    BY <2>1, <2>2, <2>3 DEF WatchType
  <2>. QED  BY Zenon, <1>1, <2>4 DEF Noted, FreshlyCounted, v
<1>2. CASE ~alive
  <2>. DEFINE n == IF w.failures < DIRECT_FAILURES_REQUIRED THEN w.failures + 1 ELSE w.failures
  <2>1. v = [w EXCEPT !.failures = n]
    BY Zenon, <1>2 DEF noteOutageProbe
  <2>2. n \in 0 .. DIRECT_FAILURES_REQUIRED
    BY <1>0
  <2>. HIDE DEF n, v
  <2>3. /\ v \in WatchType /\ v.of = w.of /\ v.done = w.done /\ v.silent = w.silent /\ v.failures = n
        /\ v.epoch = w.epoch /\ v.carried = w.carried /\ v.hold = w.hold
    BY Zenon, <2>1, <2>2 DEF WatchType
  <2>4. w.silent # Never
    BY DEF FreshlyCounted
  <2>. QED  BY <1>2, <2>3, <2>4 DEF Noted, FreshlyCounted, v, n
<1>. QED  BY Zenon, <1>1, <1>2

LEMMA ProbeEndsSteps ==
    ASSUME FailoverInv, ProbeEnds
    PROVE  FailoverInv' /\ move' = move
<1>. DEFINE d == DirectAnswers
            w1 == noteOutageProbe(watch, d)
            w2 == [watch EXCEPT !.witness = watch.witness \/ d]
            n == IF streak.failed < DIRECT_FAILURES_REQUIRED THEN streak.failed + 1 ELSE streak.failed
            s2 == [streak EXCEPT !.failed = n]
<1>1. /\ probe # NoProbe /\ probe' = NoProbe
      /\ watch' = IF probe.of # watch.of THEN watch
                  ELSE IF probe.kind = "probe-outage" THEN w1 ELSE w2
      /\ streak' = IF probe.kind # "probe-outage" \/ ~streak.asked THEN streak
                   ELSE IF d THEN NewStreak ELSE s2
      /\ UNCHANGED <<session, move, queued, running, relays, moves>> /\ skips' = skips
  BY DEF ProbeEnds, limits
<1>2. /\ watch \in WatchType /\ FreshlyCounted(watch) /\ skips \in Nat /\ d \in BOOLEAN
      /\ watch.witness \in BOOLEAN /\ watch.epoch \in BOOLEAN /\ watch.done \in BOOLEAN
      /\ streak \in [polls : Nat, failed : Nat, asked : BOOLEAN]
      /\ DIRECT_FAILURES_REQUIRED \in Nat /\ watch.failures \in 0 .. DIRECT_FAILURES_REQUIRED
      /\ streak.failed \in Nat
  BY FailoverConstants DEF FailoverInv, FailoverTyped, WatchType, DirectAnswers
<1>. HIDE DEF d
<1>3. /\ w2 \in WatchType /\ FreshlyCounted(w2) /\ w2.of = watch.of /\ w2.done = watch.done
      /\ w2.silent = watch.silent /\ w2.failures = watch.failures /\ w2.epoch = watch.epoch
  BY <1>2 DEF WatchType, FreshlyCounted
<1>4. ~watch.epoch \/ watch.done => w1 = watch
  BY DEF noteOutageProbe
<1>5. watch.epoch /\ ~watch.done =>
      /\ w1 \in WatchType /\ FreshlyCounted(w1) /\ w1.of = watch.of /\ w1.done = watch.done
      /\ d => w1.silent = Never /\ w1.failures = 0 /\ w1.epoch = FALSE
      /\ ~d => /\ w1.silent = watch.silent /\ w1.epoch = watch.epoch
               /\ w1.failures = IF watch.failures < DIRECT_FAILURES_REQUIRED THEN watch.failures + 1 ELSE watch.failures
  <2>1. watch.epoch /\ ~watch.done => Noted(watch, d, w1)
    BY <1>2, NoteFields
  <2>. HIDE DEF w1
  <2>. QED  BY Zenon, <2>1 DEF Noted
<1>6. /\ s2 \in [polls : Nat, failed : Nat, asked : BOOLEAN]
      /\ s2.polls = streak.polls /\ s2.failed = n /\ s2.asked = streak.asked
  <2>1. n \in Nat
    BY <1>2
  <2>. HIDE DEF n
  <2>. QED  BY <1>2, <2>1
<1>. HIDE DEF w1, w2, s2
<1>7. /\ watch' \in WatchType /\ FreshlyCounted(watch') /\ watch'.of = watch.of /\ watch'.done = watch.done
      /\ streak' \in [polls : Nat, failed : Nat, asked : BOOLEAN]
      /\ streak'.asked => streak.asked
      /\ watch.silent = Never => watch'.silent = Never
  <2>1. w1 \in WatchType /\ FreshlyCounted(w1) /\ w1.of = watch.of /\ w1.done = watch.done
        /\ (watch.silent = Never => w1.silent = Never)
    BY <1>2, <1>4, <1>5
  <2>2. watch' \in WatchType /\ FreshlyCounted(watch') /\ watch'.of = watch.of /\ watch'.done = watch.done
        /\ (watch.silent = Never => watch'.silent = Never)
    BY Zenon, <1>1, <1>2, <1>3, <2>1
  <2>. QED  BY <1>1, <1>2, <1>6, <2>2, StreakFields
<1>8. ASSUME ~watch.done, BorneOut(watch, streak, skips) PROVE BorneOut(watch', streak', skips')
  <2>1. CASE probe.kind # "probe-outage" \/ ~streak.asked
    <3>1. streak' = streak
      BY Zenon, <1>1, <2>1
    <3>2. watch'.silent = watch.silent /\ watch'.failures = watch.failures /\ watch'.epoch = watch.epoch
      <4>1. probe.kind = "probe-outage" => ~watch.epoch
        BY Zenon, <1>8, <2>1 DEF BorneOut
      <4>. QED  BY Zenon, <1>1, <1>3, <1>4, <4>1
    <3>. QED  BY Zenon, <1>1, <1>8, <3>1, <3>2 DEF BorneOut
  <2>2. CASE probe.kind = "probe-outage" /\ streak.asked
    <3>1. watch.epoch /\ probe.of = watch.of
      BY Zenon, <1>8, <2>2 DEF BorneOut, FailoverInv, Watched
    <3>2. watch' = w1
      BY Zenon, <1>1, <2>2, <3>1
    <3>3. CASE d
      <4>1. streak' = NewStreak
        BY Zenon, <1>1, <2>2, <3>3
      <4>. QED  BY <1>5, <1>8, <3>1, <3>2, <3>3, <4>1, StreakFields DEF BorneOut
    <3>4. CASE ~d
      <4>1. streak' = s2
        BY Zenon, <1>1, <2>2, <3>4
      <4>2. /\ watch'.silent = watch.silent /\ watch'.epoch = watch.epoch
            /\ watch'.failures = IF watch.failures < DIRECT_FAILURES_REQUIRED THEN watch.failures + 1 ELSE watch.failures
            /\ streak'.polls = streak.polls /\ streak'.failed = n /\ streak'.asked = streak.asked
        BY Zenon, <1>5, <1>6, <1>8, <3>1, <3>2, <3>4, <4>1
      <4>3. streak.failed >= watch.failures => streak'.failed >= watch'.failures
        BY <1>2, <4>2
      <4>. QED  BY Zenon, <1>1, <1>8, <4>2, <4>3 DEF BorneOut
    <3>. QED  BY Zenon, <3>3, <3>4
  <2>. QED  BY Zenon, <2>1, <2>2
<1>9. FailoverTyped'
  BY <1>1, <1>7, NoMoveFields DEF FailoverInv, FailoverTyped
<1>10. Watched'
  BY <1>1, <1>7, <1>8, NoMoveFields DEF FailoverInv, Watched
<1>11. Numbered' /\ MoveWaits' /\ MovesOnce'
  <2>1. session.id \in Nat
    BY Zenon DEF FailoverInv, FailoverTyped
  <2>. QED  BY <1>1, <1>7, <2>1, NoMoveFields DEF FailoverInv, Numbered, MoveWaits, MovesOnce
<1>. QED  BY <1>1, <1>7, <1>9, <1>10, <1>11 DEF FailoverInv, FreshlyCounted

LEMMA StandbyDownSteps ==
    ASSUME FailoverInv, MoveFindsStandbyDown
    PROVE  FailoverInv' /\ move' = NoMove
<1>1. /\ move.at = "asked" /\ move' = NoMove
      /\ move.of = watch.of => watch' = resetOutage(watch) /\ streak' = NewStreak
      /\ move.of # watch.of => watch' = watch /\ streak' = streak
      /\ UNCHANGED <<session, probe, queued, running, relays, moves>> /\ skips' = skips
  BY Zenon DEF MoveFindsStandbyDown, limits
<1>2. /\ watch \in WatchType /\ FreshlyCounted(watch) /\ skips \in Nat /\ move # NoMove
      /\ streak \in [polls : Nat, failed : Nat, asked : BOOLEAN] /\ streak.failed >= 0
  BY <1>1, NoMoveFields DEF FailoverInv, FailoverTyped
<1>3. /\ resetOutage(watch) \in WatchType /\ FreshlyCounted(resetOutage(watch))
      /\ resetOutage(watch).of = watch.of /\ resetOutage(watch).done = watch.done
      /\ resetOutage(watch).silent = Never /\ resetOutage(watch).failures = 0
      /\ resetOutage(watch).epoch = FALSE
  BY Zenon, <1>2, ResetFields
<1>4. /\ watch' \in WatchType /\ FreshlyCounted(watch') /\ watch'.of = watch.of /\ watch'.done = watch.done
      /\ streak' \in [polls : Nat, failed : Nat, asked : BOOLEAN]
      /\ streak'.asked => streak.asked
  BY <1>1, <1>2, <1>3, StreakFields
<1>5. ~watch.done => BorneOut(watch', streak', skips')
  <2>1. CASE move.of = watch.of
    BY <1>1, <1>3, <2>1, StreakFields DEF BorneOut
  <2>2. CASE move.of # watch.of
    BY Zenon, <1>1, <1>2, <2>2 DEF FailoverInv, Watched, BorneOut, FreshlyCounted
  <2>. QED  BY <2>1, <2>2
<1>6. FailoverTyped'
  BY Zenon, <1>1, <1>4, NoMoveFields DEF FailoverInv, FailoverTyped
<1>7. Watched'
  BY Zenon, <1>1, <1>4, <1>5 DEF FailoverInv, Watched
<1>8. Numbered'
  <2>1. session.id \in Nat
    BY DEF FailoverInv, FailoverTyped
  <2>. QED  BY <1>1, <1>4, <2>1, NoMoveFields DEF FailoverInv, Numbered
<1>9. MoveWaits'
  BY Zenon, <1>1 DEF FailoverInv, MoveWaits
<1>10. MovesOnce'
  BY Zenon, <1>1, <1>2, <1>4 DEF FailoverInv, MovesOnce
<1>. QED  BY Zenon, <1>1, <1>4, <1>6, <1>7, <1>8, <1>9, <1>10 DEF FailoverInv, FreshlyCounted
LEMMA Appended ==
    ASSUME NEW q \in Seq({"start", "stop", "move"}), NEW what \in {"start", "stop", "move"}
    PROVE  /\ Append(q, what) \in Seq({"start", "stop", "move"})
           /\ Len(Append(q, what)) = Len(q) + 1 /\ Len(q) \in Nat
           /\ Append(q, what)[Len(q) + 1] = what
           /\ \A i \in 1 .. Len(q) : Append(q, what)[i] = q[i]
OBVIOUS

LEMMA MoveQueuesSteps ==
    ASSUME FailoverInv, MoveQueues
    PROVE  FailoverInv' /\ move # NoMove
<1>1. /\ move.at = "asked" /\ move' = [move EXCEPT !.at = "queued"] /\ queued' = Append(queued, "move")
      /\ UNCHANGED <<session, watch, probe, running, relays, streak, moves>> /\ skips' = skips
  BY DEF MoveQueues, limits
<1>2. /\ move \in [at : {"none", "asked", "queued"}, of : Nat, asks : BOOLEAN] /\ move # NoMove
      /\ queued \in Seq({"start", "stop", "move"})
  BY <1>1, NoMoveFields DEF FailoverInv, FailoverTyped
<1>3. /\ move' \in [at : {"none", "asked", "queued"}, of : Nat, asks : BOOLEAN]
      /\ move'.of = move.of /\ move'.at = "queued" /\ move' # NoMove
  BY Zenon, <1>1, <1>2, NoMoveFields
<1>4. FailoverTyped'
  BY <1>1, <1>2, <1>3, Appended DEF FailoverInv, FailoverTyped
<1>5. Watched' /\ Numbered'
  BY <1>1, <1>2, <1>3 DEF FailoverInv, Watched, Numbered
<1>6. MovesOnce'
  BY <1>1, <1>2, <1>3 DEF FailoverInv, MovesOnce
<1>7. MoveWaits'
  <2>1. MoveWaits /\ MovesOnce
    BY DEF FailoverInv
  <2>2. \A i \in 1 .. Len(queued) : queued[i] # "move"
    BY <1>1, <2>1 DEF MoveWaits
  <2>3. running # "moving"
    BY <1>1, <2>1 DEF MovesOnce
  <2>4. /\ Len(queued') = Len(queued) + 1 /\ Len(queued) \in Nat
        /\ \A i \in 1 .. Len(queued) : queued'[i] = queued[i]
    BY Zenon, <1>1, <1>2, Appended
  <2>5. \A i \in 1 .. Len(queued') : queued'[i] = "move" => i = Len(queued) + 1
    BY <2>2, <2>4
  <2>. QED  BY Zenon, <1>1, <1>3, <2>3, <2>5 DEF MoveWaits
<1>. QED  BY <1>1, <1>2, <1>4, <1>5, <1>6, <1>7 DEF FailoverInv, FreshlyCounted

LEMMA UserAsksSteps ==
    ASSUME FailoverInv, NEW what \in {"start", "stop"}, UserAsks(what)
    PROVE  FailoverInv' /\ move' = move
<1>1. /\ queued' = Append(queued, what)
      /\ UNCHANGED <<session, watch, probe, move, running, relays, streak, moves>> /\ skips' = skips
  BY Zenon DEF UserAsks
<1>2. queued \in Seq({"start", "stop", "move"})
  BY Zenon DEF FailoverInv, FailoverTyped
<1>3. FailoverTyped'
  BY <1>1, <1>2, Appended DEF FailoverInv, FailoverTyped
<1>4. Watched' /\ Numbered' /\ MovesOnce'
  BY Zenon, <1>1 DEF FailoverInv, Watched, Numbered, MovesOnce
<1>5. MoveWaits'
  <2>1. /\ Len(queued') = Len(queued) + 1 /\ Len(queued) \in Nat
        /\ queued'[Len(queued) + 1] = what
        /\ \A i \in 1 .. Len(queued) : queued'[i] = queued[i]
    BY <1>1, <1>2, Appended
  <2>2. \A i \in 1 .. Len(queued') : queued'[i] = "move" => i \in 1 .. Len(queued) /\ queued[i] = "move"
    BY <2>1
  <2>. QED  BY Zenon, <1>1, <2>2 DEF FailoverInv, MoveWaits
<1>. QED  BY Zenon, <1>1, <1>3, <1>4, <1>5 DEF FailoverInv, FreshlyCounted

LEMMA TransitionSteps ==
    ASSUME FailoverInv, TransitionBegins
    PROVE  FailoverInv' /\ (move' = move \/ move' = NoMove)
<1>. DEFINE what == Head(queued)
<1>1. /\ running = "none" /\ queued # <<>> /\ queued' = Tail(queued)
      /\ UNCHANGED <<probe, relays, streak>> /\ skips' = skips
  BY DEF TransitionBegins, limits
<1>2. /\ queued \in Seq({"start", "stop", "move"}) /\ watch \in WatchType /\ FreshlyCounted(watch)
      /\ session \in [status : {"idle", "starting", "connected", "error"},
                      relay : {"none", "main", "standby"}, id : Nat]
      /\ session.id \in Nat /\ moves \in Nat
      /\ move \in [at : {"none", "asked", "queued"}, of : Nat, asks : BOOLEAN]
  BY DEF FailoverInv, FailoverTyped
<1>3. /\ Len(queued) \in Nat /\ Len(queued) >= 1 /\ what = queued[1]
      /\ queued' \in Seq({"start", "stop", "move"}) /\ Len(queued') = Len(queued) - 1
      /\ \A i \in 1 .. Len(queued') : queued'[i] = queued[i + 1]
  BY <1>1, <1>2
<1>4. /\ NoWatch \in WatchType /\ NoWatch.done = TRUE /\ NoWatch.of = 0 /\ FreshlyCounted(NoWatch)
  BY Zenon, NoWatchFields
<1>5. what = "move" => /\ move.at = "queued" /\ move # NoMove
                       /\ \A i \in 1 .. Len(queued') : queued'[i] # "move"
  <2>. SUFFICES ASSUME what = "move"
                PROVE  /\ move.at = "queued" /\ move # NoMove
                       /\ \A i \in 1 .. Len(queued') : queued'[i] # "move"
    OBVIOUS
  <2>1. MoveWaits /\ 1 \in 1 .. Len(queued)
    BY <1>3 DEF FailoverInv
  <2>2. move.at = "queued"
    BY <1>3, <2>1 DEF MoveWaits
  <2>3. ASSUME NEW i \in 1 .. Len(queued'), queued'[i] = "move" PROVE FALSE
    <3>1. i + 1 \in 1 .. Len(queued) /\ i + 1 # 1 /\ queued[i + 1] = "move"
      BY <1>3, <2>3
    <3>. QED  BY Zenon, <1>3, <2>1, <3>1 DEF MoveWaits
  <2>. QED  BY <2>2, <2>3, NoMoveFields
<1>6. \A i \in 1 .. Len(queued') : queued'[i] = "move" => move.at = "queued"
  BY <1>3 DEF FailoverInv, MoveWaits
<1>7. \A i, j \in 1 .. Len(queued') : queued'[i] = "move" /\ queued'[j] = "move" => i = j
  <2>. SUFFICES ASSUME NEW i \in 1 .. Len(queued'), NEW j \in 1 .. Len(queued'),
                       queued'[i] = "move", queued'[j] = "move"
                PROVE  i = j
    BY Zenon
  <2>1. /\ i + 1 \in 1 .. Len(queued) /\ j + 1 \in 1 .. Len(queued)
        /\ queued[i + 1] = "move" /\ queued[j + 1] = "move"
    BY <1>3
  <2>2. i + 1 = j + 1
    BY Zenon, <2>1 DEF FailoverInv, MoveWaits
  <2>. QED  BY <1>3, <2>2
<1>8. MovesOnce
  BY DEF FailoverInv
<1>9. CASE /\ what \in {"start", "stop"} /\ running' \in {"none", "starting"} /\ move' = move /\ moves' = moves
           /\ watch' = NoWatch
           /\ session' \in [status : {"idle", "starting", "connected", "error"},
                            relay : {"none", "main", "standby"}, id : Nat]
           /\ session'.id = session.id
           /\ running' # "none" => session'.status = "starting"
  <2>1. FailoverTyped'
    BY Zenon, <1>1, <1>3, <1>4, <1>9 DEF FailoverInv, FailoverTyped
  <2>2. Watched' /\ Numbered'
    BY <1>1, <1>2, <1>4, <1>9 DEF FailoverInv, Watched, Numbered
  <2>3. MoveWaits'
    BY Zenon, <1>6, <1>7, <1>9 DEF MoveWaits
  <2>4. MovesOnce'
    BY Zenon, <1>1, <1>4, <1>8, <1>9 DEF MovesOnce
  <2>. QED  BY Zenon, <1>4, <1>9, <2>1, <2>2, <2>3, <2>4 DEF FailoverInv, FreshlyCounted
<1>10. CASE /\ what = "move" /\ running' = "moving" /\ move' = move /\ moves' = moves + 1
            /\ watch' = NoWatch
            /\ session' \in [status : {"idle", "starting", "connected", "error"},
                             relay : {"none", "main", "standby"}, id : Nat]
            /\ session'.id = session.id /\ session'.status = "starting"
  <2>1. FailoverTyped'
    BY <1>1, <1>2, <1>3, <1>4, <1>10 DEF FailoverInv, FailoverTyped
  <2>2. Watched' /\ Numbered'
    BY <1>1, <1>2, <1>4, <1>10 DEF FailoverInv, Watched, Numbered
  <2>3. MoveWaits'
    BY Zenon, <1>5, <1>10 DEF MoveWaits
  <2>4. moves = 0
    BY <1>1, <1>2, <1>5, <1>8, <1>10 DEF MovesOnce
  <2>5. MovesOnce'
    BY <1>4, <1>5, <1>10, <2>4 DEF MovesOnce
  <2>. QED  BY Zenon, <1>4, <1>10, <2>1, <2>2, <2>3, <2>5 DEF FailoverInv, FreshlyCounted
<1>11. CASE /\ what = "move" /\ running' = "none" /\ move' = NoMove /\ UNCHANGED <<session, moves>>
            /\ watch' = IF move.of = watch.of THEN [watch EXCEPT !.done = TRUE] ELSE watch
  <2>1. /\ watch' \in WatchType /\ watch'.of = watch.of /\ watch'.silent = watch.silent
        /\ watch'.failures = watch.failures /\ watch'.epoch = watch.epoch
        /\ watch'.carried = watch.carried /\ watch'.hold = watch.hold
        /\ move.of = watch.of => watch'.done
        /\ move.of # watch.of => watch' = watch
        /\ watch.done => watch'.done
    BY Zenon, <1>2, <1>11 DEF WatchType
  <2>2. FailoverTyped'
    BY <1>1, <1>3, <1>11, <2>1, NoMoveFields DEF FailoverInv, FailoverTyped
  <2>3. FreshlyCounted(watch')
    BY <1>2, <2>1 DEF FreshlyCounted
  <2>4. Watched'
    <3>. SUFFICES ASSUME ~watch'.done
                  PROVE  /\ BorneOut(watch', streak', skips')
                         /\ streak'.asked /\ probe'.kind = "probe-outage" => probe'.of = watch'.of
      BY <1>11 DEF Watched
    <3>1. move.of # watch.of /\ watch' = watch /\ ~watch.done /\ move # NoMove
      BY <1>5, <1>11, <2>1
    <3>2. watch.silent = Never /\ ~streak.asked
      BY Zenon, <3>1 DEF FailoverInv, Watched
    <3>3. streak.failed \in Nat
      BY DEF FailoverInv, FailoverTyped
    <3>. QED  BY <1>1, <1>2, <3>1, <3>2, <3>3 DEF BorneOut, FreshlyCounted
  <2>5. Numbered'
    BY <1>1, <1>2, <1>11, <2>1, NoMoveFields DEF FailoverInv, Numbered
  <2>6. MoveWaits'
    BY <1>5, <1>11 DEF MoveWaits
  <2>7. MovesOnce'
    BY Zenon, <1>1, <1>5, <1>8, <1>11, <2>1 DEF MovesOnce
  <2>. QED  BY Zenon, <1>11, <2>2, <2>3, <2>4, <2>5, <2>6, <2>7 DEF FailoverInv, FreshlyCounted
<1>12. \/ /\ what = "start" /\ running' = "starting" /\ watch' = NoWatch /\ UNCHANGED <<move, moves>>
          /\ session' = [session EXCEPT !.status = "starting", !.relay = "main"]
       \/ /\ what = "stop" /\ running' = "none" /\ watch' = NoWatch /\ UNCHANGED <<move, moves>>
          /\ session' = [session EXCEPT !.status = "idle"]
       \/ /\ what = "move" /\ running' = "moving" /\ watch' = NoWatch /\ moves' = moves + 1 /\ move' = move
          /\ session' = [session EXCEPT !.status = "starting", !.relay = "standby"]
       \/ /\ what = "move" /\ running' = "none" /\ move' = NoMove /\ UNCHANGED <<session, moves>>
          /\ watch' = IF move.of = watch.of THEN [watch EXCEPT !.done = TRUE] ELSE watch
  BY DEF TransitionBegins
<1>13. /\ [session EXCEPT !.status = "starting", !.relay = "main"] \in
            [status : {"idle", "starting", "connected", "error"}, relay : {"none", "main", "standby"}, id : Nat]
       /\ [session EXCEPT !.status = "starting", !.relay = "main"].id = session.id
       /\ [session EXCEPT !.status = "starting", !.relay = "main"].status = "starting"
       /\ [session EXCEPT !.status = "idle"] \in
            [status : {"idle", "starting", "connected", "error"}, relay : {"none", "main", "standby"}, id : Nat]
       /\ [session EXCEPT !.status = "idle"].id = session.id
       /\ [session EXCEPT !.status = "starting", !.relay = "standby"] \in
            [status : {"idle", "starting", "connected", "error"}, relay : {"none", "main", "standby"}, id : Nat]
       /\ [session EXCEPT !.status = "starting", !.relay = "standby"].id = session.id
       /\ [session EXCEPT !.status = "starting", !.relay = "standby"].status = "starting"
  BY Zenon, <1>2
<1>. HIDE DEF what
<1>. QED  BY Zenon, <1>9, <1>10, <1>11, <1>12, <1>13

LEMMA ConnectedSteps ==
    ASSUME FailoverInv, NEW relay \in {"main", "standby"}, NEW watching \in BOOLEAN,
           Connected(relay, watching), running # "none", running' = "none",
           UNCHANGED <<probe, queued, relays>>, skips' = skips,
           moves' \in {0, 1}, moves' = 1 => ~watching /\ move' = NoMove,
           \/ move' = move /\ running # "moving"
           \/ move' = NoMove /\ running = "moving"
    PROVE  FailoverInv'
<1>1. /\ session' = [status |-> "connected", relay |-> relay, id |-> session.id + 1]
      /\ watch' = begin(session.id + 1, watching) /\ streak' = NewStreak
  BY DEF Connected
<1>2. /\ session.id \in Nat /\ Numbered /\ MovesOnce /\ MoveWaits
      /\ move \in [at : {"none", "asked", "queued"}, of : Nat, asks : BOOLEAN]
      /\ move.of \in Nat /\ watch.of \in Nat /\ probe.of \in Nat
  BY DEF FailoverInv, FailoverTyped, WatchType
<1>3. /\ watch' \in WatchType /\ FreshlyCounted(watch') /\ watch'.of = session.id + 1 /\ watch'.done = ~watching
      /\ watch'.silent = Never /\ watch'.failures = 0 /\ watch'.epoch = FALSE
  <2>1. session.id + 1 \in Nat
    BY <1>2
  <2>. QED  BY Zenon, <1>1, <2>1, NoWatchFields
<1>4. /\ session' \in [status : {"idle", "starting", "connected", "error"},
                       relay : {"none", "main", "standby"}, id : Nat]
      /\ session'.id = session.id + 1 /\ session'.status = "connected"
  BY <1>1, <1>2
<1>5. FailoverTyped'
  BY <1>1, <1>2, <1>3, <1>4, StreakFields, NoMoveFields DEF FailoverInv, FailoverTyped
<1>6. Watched'
  BY <1>1, <1>3, StreakFields DEF Watched, BorneOut
<1>7. Numbered'
  BY <1>2, <1>3, <1>4, NoMoveFields DEF Numbered
<1>8. MoveWaits'
  <2>1. CASE move' = move
    BY <1>2, <2>1 DEF MoveWaits
  <2>2. CASE running = "moving"
    <3>1. \A i \in 1 .. Len(queued) : queued[i] # "move"
      BY Zenon, <1>2, <2>2 DEF MoveWaits
    <3>. QED  BY Zenon, <3>1 DEF MoveWaits
  <2>. QED  BY Zenon, <2>1, <2>2
<1>9. MovesOnce'
  <2>1. watching = FALSE => watch'.done = TRUE
    BY Zenon, <1>3
  <2>2. moves' = 1 => move' = NoMove /\ watch'.done
    BY <2>1
  <2>3. moves' <= 1
    OBVIOUS
  <2>. QED  BY Zenon, <1>4, <2>2, <2>3 DEF MovesOnce
<1>. QED  BY <1>3, <1>5, <1>6, <1>7, <1>8, <1>9 DEF FailoverInv, FreshlyCounted

LEMMA FailedSteps ==
    ASSUME FailoverInv, session' = [session EXCEPT !.status = "error"], running # "none", running' = "none",
           UNCHANGED <<watch, streak, moves, probe, queued, relays>>, skips' = skips,
           \/ move' = move /\ running # "moving"
           \/ move' = NoMove /\ running = "moving"
    PROVE  FailoverInv'
<1>1. /\ session \in [status : {"idle", "starting", "connected", "error"},
                      relay : {"none", "main", "standby"}, id : Nat]
      /\ session.id \in Nat /\ Numbered /\ MovesOnce /\ MoveWaits /\ watch.done
  BY DEF FailoverInv, FailoverTyped, MovesOnce
<1>2. /\ session' \in [status : {"idle", "starting", "connected", "error"},
                       relay : {"none", "main", "standby"}, id : Nat]
      /\ session'.id = session.id /\ session'.status = "error"
  BY <1>1
<1>3. FailoverTyped'
  BY Zenon, <1>2, NoMoveFields DEF FailoverInv, FailoverTyped
<1>4. Watched' /\ Numbered'
  BY <1>1, <1>2, NoMoveFields DEF Watched, Numbered
<1>5. MoveWaits'
  <2>1. CASE move' = move
    BY <1>1, <2>1 DEF MoveWaits
  <2>2. CASE running = "moving"
    <3>1. \A i \in 1 .. Len(queued) : queued[i] # "move"
      BY <1>1, <2>2 DEF MoveWaits
    <3>. QED  BY <3>1 DEF MoveWaits
  <2>. QED  BY <2>1, <2>2
<1>6. MovesOnce'
  BY Zenon, <1>1, <1>2 DEF MovesOnce
<1>. QED  BY <1>3, <1>4, <1>5, <1>6 DEF FailoverInv, FreshlyCounted

LEMMA EndsSteps ==
    ASSUME FailoverInv, StartEnds \/ MoveEnds
    PROVE  FailoverInv' /\ (move' = move \/ move' = NoMove)
<1>1. ASSUME StartEnds PROVE FailoverInv' /\ move' = move
  <2>1. /\ running = "starting" /\ running' = "none" /\ UNCHANGED <<probe, move, queued, relays>> /\ skips' = skips
        /\ \/ Connected("main", TRUE) /\ moves' = 0
           \/ session' = [session EXCEPT !.status = "error"] /\ UNCHANGED <<watch, streak, moves>>
    BY Zenon, <1>1 DEF StartEnds, limits
  <2>2. CASE Connected("main", TRUE) /\ moves' = 0
    <3>1. moves' \in {0, 1} /\ moves' # 1
      BY <2>2
    <3>. QED  BY Zenon, <2>1, <2>2, <3>1, ConnectedSteps
  <2>3. CASE session' = [session EXCEPT !.status = "error"] /\ UNCHANGED <<watch, streak, moves>>
    BY <2>1, <2>3, FailedSteps
  <2>. QED  BY Zenon, <2>1, <2>2, <2>3
<1>2. ASSUME MoveEnds PROVE FailoverInv' /\ move' = NoMove
  <2>1. /\ running = "moving" /\ running' = "none" /\ move' = NoMove
        /\ UNCHANGED <<probe, queued, relays, moves>> /\ skips' = skips
        /\ \/ Connected("standby", FALSE) \/ Connected("main", FALSE)
           \/ session' = [session EXCEPT !.status = "error"] /\ UNCHANGED <<watch, streak>>
    BY Zenon, <1>2 DEF MoveEnds, limits
  <2>2. moves' \in {0, 1}
    BY <2>1 DEF FailoverInv, MovesOnce, FailoverTyped
  <2>. QED  BY Zenon, <2>1, <2>2, ConnectedSteps, FailedSteps
<1>. QED  BY <1>1, <1>2

LEMMA WorldSteps ==
    ASSUME FailoverInv, WorldChanges
    PROVE  FailoverInv' /\ move' = move
<1>1. /\ UNCHANGED <<session, watch, probe, move, queued, running, streak, moves>> /\ skips' = skips
      /\ \E what \in {"relay", "paths", "uplink", "standby"} : relays' = [relays EXCEPT ![what] = ~@]
  BY Zenon DEF WorldChanges
<1>2. relays' \in [{"relay", "paths", "uplink", "direct", "standby", "split"} -> BOOLEAN]
  BY <1>1 DEF FailoverInv, FailoverTyped
<1>3. FailoverTyped'
  BY <1>1, <1>2 DEF FailoverInv, FailoverTyped
<1>4. Watched' /\ Numbered' /\ MoveWaits' /\ MovesOnce'
  BY <1>1 DEF FailoverInv, Watched, Numbered, MoveWaits, MovesOnce
<1>. QED  BY <1>1, <1>3, <1>4 DEF FailoverInv, FreshlyCounted

LEMMA FailoverSteps == FailoverInv /\ FailoverNext => FailoverInv' /\ AskedOfAGoneRelay
<1>. SUFFICES ASSUME FailoverInv, FailoverNext PROVE FailoverInv' /\ AskedOfAGoneRelay
  OBVIOUS
<1>1. CASE Poll
  BY Zenon, <1>1, PollSteps
<1>2. CASE PollMissed
  BY Zenon, <1>2, PollMissedSteps DEF AskedOfAGoneRelay
<1>3. CASE ProbeEnds
  BY Zenon, <1>3, ProbeEndsSteps DEF AskedOfAGoneRelay
<1>4. CASE MoveFindsStandbyDown
  BY Zenon, <1>4, StandbyDownSteps DEF AskedOfAGoneRelay
<1>5. CASE MoveQueues
  BY Zenon, <1>5, MoveQueuesSteps DEF AskedOfAGoneRelay
<1>6. CASE \E what \in {"start", "stop"} : UserAsks(what)
  BY Zenon, <1>6, UserAsksSteps DEF AskedOfAGoneRelay
<1>7. CASE TransitionBegins
  BY Zenon, <1>7, TransitionSteps DEF AskedOfAGoneRelay
<1>8. CASE StartEnds \/ MoveEnds
  BY <1>8, EndsSteps DEF AskedOfAGoneRelay
<1>9. CASE WorldChanges
  BY <1>9, WorldSteps DEF AskedOfAGoneRelay
<1>. QED  BY Zenon, <1>1, <1>2, <1>3, <1>4, <1>5, <1>6, <1>7, <1>8, <1>9 DEF FailoverNext

(* The session is moved to the standby only from a relay that is gone, and once
   at most between two starts by the user: whatever the intervals, the probes
   that come back late, the polls that are missed and the starts and stops that
   wait in the session queue beside the move (RelayFailoverWatch.observe and
   noteOutageProbe, RelayFailoverController.move, moveToStandby). *)
THEOREM OnlyAGoneRelayIsLeft == FailoverSpec => MovesOnlyFromAGoneRelay
<1>1. FailoverInit => FailoverInv
  BY Zenon, FailoverStarts
<1>2. FailoverInv /\ [FailoverNext]_failoverVars => FailoverInv'
  <2>. SUFFICES ASSUME FailoverInv, UNCHANGED failoverVars PROVE FailoverInv'
    BY Zenon, FailoverSteps
  <2>1. UNCHANGED <<session, watch, probe, move, queued, running, relays, streak, moves>> /\ skips' = skips
    BY Zenon DEF failoverVars, limits
  <2>. QED  BY <2>1 DEF FailoverInv, FailoverTyped, FreshlyCounted, Watched, Numbered, MoveWaits, MovesOnce
<1>3. FailoverInv /\ FailoverInv' /\ [FailoverNext]_failoverVars =>
      [/\ FailoverTypeOK' /\ moves' <= 1
       /\ move = NoMove /\ move' # NoMove =>
          /\ watch.carried
          /\ IF watch.witness
             THEN streak'.polls + skips > OUTAGE_WITH_WITNESS /\ streak'.failed >= DIRECT_FAILURES_REQUIRED
             ELSE streak'.polls + skips > OUTAGE_WITHOUT_WITNESS]_failoverVars
  <2>1. FailoverInv' => FailoverTypeOK' /\ moves' <= 1
    BY DEF FailoverInv, FailoverTyped, FailoverTypeOK, WatchType, MovesOnce
  <2>. QED  BY Zenon, <2>1, FailoverSteps DEF AskedOfAGoneRelay
<1>. QED  BY <1>1, <1>2, <1>3, PTL DEF FailoverSpec, MovesOnlyFromAGoneRelay
=============================================================================
