------------------------- MODULE ServicePartsProofs -------------------------
(***************************************************************************)
(* What the service keeps of a session, for any rules, addresses and       *)
(* numbers of edits, timeouts and failures.                                *)
(***************************************************************************)
EXTENDS CaptureControl, FiniteSetTheorems, TLAPS

(***************************************************************************)
(* The capture of a session.  CaptureFollowsTheRules speaks of a session   *)
(* at rest.  The inductive invariant also says what holds on the way: what *)
(* the manager and Windows agree on after each request (CapOK), that the   *)
(* replies and requests in the pipe are in the order of their ids          *)
(* (IdsInOrder), and what has become of the request the slot's holder      *)
(* waits on (OpFollowed): it is the last one in the pipe, or it has been   *)
(* carried out and its reply is the last one, so a late reply can never be *)
(* taken for its answer.                                                   *)
(***************************************************************************)
Everywhere == UNION ForeignSets
CaptureModes == {"split", "all"}
Setups == [mode : CaptureModes, remote : BOOLEAN, vpn : BOOLEAN]
CaptureRequests == [mode : CaptureModes \cup {"none"}, rules : Rules, foreign : SUBSET Everywhere]
Captures ==
  [up : BOOLEAN, rules : Rules, routes : SUBSET (Own \cup Halves), foreign : SUBSET Everywhere,
   dns : BOOLEAN]
Managers ==
  [active : Captures, split : Captures, guard : {"none", "v6", "adapter"},
   last : CaptureRequests, rows : SUBSET (Own \cup Halves \cup Everywhere)]
OpKinds == {"none", "first", "edit", "pause", "direct", "foreign", "restore", "end"}
Commands == {"start", "update", "foreign", "direct", "stop", "end"}
Lines == [id : Nat, cmd : Commands, req : CaptureRequests]
Answers == [id : Nat, ok : BOOLEAN]

KTyped ==
  /\ setup \in Setups
  /\ phase \in {"starting", "connected", "ended", "killed"}
  /\ rules \in Rules /\ foreign \in ForeignSets
  /\ op \in [kind : OpKinds, id : Nat, want : Rules]
  /\ inbox \in Seq(Lines) /\ outbox \in Seq(Answers)
  /\ nextId \in Nat
  /\ ruleEdits \in Nat /\ timeouts \in Nat /\ failures \in Nat
  /\ unrestored \in BOOLEAN /\ reopenLost \in BOOLEAN

(* What the manager and Windows agree on between two requests.             *)
Rows(c) == c.active.routes \cup c.active.foreign
RowsOwned(c) == c.rows \subseteq Rows(c) /\ Rows(c) \ Shared \subseteq c.rows
GuardHeld(c) == c.split.up \/ c.active.up => (c.guard # "none") = setup.remote
OneBackend(c) ==
  /\ c.active.up => setup.mode = "all" /\ c.active.dns = setup.remote
  /\ c.split.up => setup.mode = "split" /\ c.split.rules = c.last.rules /\ c.last # NoRequest
  /\ c.last # NoRequest => c.last.mode = setup.mode
CapOK(c) == c \in Managers /\ RowsOwned(c) /\ GuardHeld(c) /\ OneBackend(c)

(* Where an operation may find the session.                                *)
PhaseFits ==
  /\ op.kind = "none" => op = Waiting /\ phase # "starting"
  /\ op.kind = "first" => phase = "starting" /\ ~unrestored
  /\ op.kind \in {"edit", "pause", "direct", "foreign", "restore"} => phase = "connected"
  /\ op.kind \in {"edit", "pause"} => setup.mode = "split"
  /\ op.kind = "restore" => op.want = rules
  /\ op.kind = "end" => phase \in {"starting", "connected"}
  /\ setup.mode = "all" => rules = NoRules /\ op.want = NoRules

(* Requests name this session's mode.                                      *)
LineFits(m) == m.cmd \in {"start", "update"} => m.req.mode = setup.mode
LinesFit == \A i \in DOMAIN inbox : LineFits(inbox[i])

IdsInOrder ==
  /\ \A i, j \in DOMAIN inbox : i < j => inbox[i].id < inbox[j].id
  /\ \A i, j \in DOMAIN outbox : i < j => outbox[i].id < outbox[j].id
  /\ \A i \in DOMAIN outbox, j \in DOMAIN inbox : outbox[i].id < inbox[j].id
  /\ \A i \in DOMAIN inbox : inbox[i].id < nextId
  /\ \A i \in DOMAIN outbox : outbox[i].id < nextId
  /\ op.kind # "none" => nextId = op.id + 1

(* The manager serves rule set w.                                          *)
Serves(c, w) ==
  IF setup.mode = "all" THEN c.active.up
  ELSE IF w = NoRules THEN ~c.split.up ELSE c.split.up /\ c.split.rules = w

(* A line that asks for rule set w.                                        *)
AsksFor(m, w) ==
  \/ m.cmd \in {"start", "update"} /\ m.req.rules = w
  \/ m.cmd = "stop" /\ w = NoRules /\ setup.mode = "split"

Queued == inbox # << >> /\ inbox[Len(inbox)].id = op.id
Replied == inbox = << >> /\ outbox # << >> /\ outbox[Len(outbox)].id = op.id

Settling(w) ==
  \/ Queued /\ AsksFor(inbox[Len(inbox)], w)
  \/ Replied /\ (outbox[Len(outbox)].ok => Serves(cap, w))

Harmless(m) == m.cmd \in {"foreign", "direct"}
Sound == (\A i \in DOMAIN inbox : Harmless(inbox[i])) /\ (Serves(cap, rules) \/ reopenLost)

Clean(c) == c.active = Absent /\ c.split = Absent /\ c.guard = "none" /\ c.rows = {}

OpFollowed ==
  /\ op.kind \in {"none", "direct", "foreign"} /\ phase = "connected" /\ ~unrestored => Sound
  /\ op.kind \in {"first", "edit", "pause"} => Settling(op.want)
  /\ op.kind = "restore" /\ ~unrestored => Sound \/ Settling(rules)
  /\ op.kind = "end" => \/ Queued /\ inbox[Len(inbox)].cmd = "end"
                        \/ Replied /\ Clean(cap)

Lost == reopenLost => ~cap.split.up
EndIsClean == phase = "ended" => Clean(cap)

CaptureInv ==
  /\ KTyped /\ CapOK(cap) /\ PhaseFits /\ LinesFit /\ IdsInOrder /\ OpFollowed /\ Lost /\ EndIsClean
-----------------------------------------------------------------------------
(* The manager.                                                            *)
LEMMA ConstantsFit ==
    /\ NoRules \in Rules /\ Absent \in Captures /\ NoRequest \in CaptureRequests
    /\ NoRequest.mode = "none" /\ ~Absent.up /\ Absent.routes = {} /\ Absent.foreign = {}
  BY CaptureConstants DEF NoRules, Absent, NoRequest, Captures, CaptureRequests

LEMMA ManagerFields ==
    ASSUME NEW c \in Managers
    PROVE  /\ c.active \in Captures /\ c.split \in Captures
           /\ c.guard \in {"none", "v6", "adapter"} /\ c.last \in CaptureRequests
           /\ c.rows \subseteq Own \cup Halves \cup Everywhere
  BY DEF Managers

(* A manager that captures nothing holds nothing.                          *)
Bare(c) == c \in Managers /\ c.active = Absent /\ c.split = Absent /\ c.rows = {}

LEMMA NothingHeld ==
    ASSUME NEW c, Bare(c), c.last # NoRequest => c.last.mode = setup.mode
    PROVE  CapOK(c)
  BY ConstantsFit DEF CapOK, RowsOwned, GuardHeld, OneBackend, Rows, Bare

(* Drop for WindowsPacketCapture takes every row.                          *)
LEMMA TeardownFacts ==
    ASSUME NEW c \in Managers, RowsOwned(c)
    PROVE  /\ Teardown(c) \in Managers
           /\ Teardown(c).active = Absent /\ Teardown(c).split = c.split
           /\ Teardown(c).guard = c.guard /\ Teardown(c).last = c.last
           /\ Teardown(c).rows = {}
  <1> DEFINE left == c.rows \ (c.active.routes \cup c.active.foreign)
  <1>1. left = {}
    BY DEF RowsOwned, Rows
  <1>2. Teardown(c) = [c EXCEPT !.active = Absent, !.rows = left]
    BY DEF Teardown
  <1> HIDE DEF left
  <1> QED BY Zenon, <1>1, <1>2, ConstantsFit DEF Managers

LEMMA ReplacedFacts ==
    ASSUME NEW c \in Managers, RowsOwned(c), NEW req \in CaptureRequests
    PROVE  /\ Bare(Replaced(c, req)) /\ Replaced(c, req).guard = c.guard
           /\ Replaced(c, req).last = req
  <1> DEFINE t == Teardown(c)
  <1>1. t \in Managers /\ t.active = Absent /\ t.guard = c.guard /\ t.rows = {}
    BY TeardownFacts
  <1>2. Replaced(c, req) = [t EXCEPT !.split = Absent, !.last = req]
    BY DEF Replaced
  <1> HIDE DEF t
  <1> QED BY Zenon, <1>1, <1>2, ConstantsFit DEF Managers, Bare

LEMMA GuardForFacts ==
    ASSUME setup \in Setups, NEW kind \in {"v6", "adapter"}
    PROVE  /\ GuardFor(kind) \in {"none", "v6", "adapter"}
           /\ (GuardFor(kind) # "none") = setup.remote
  BY DEF GuardFor, Setups

(* What a request that starts a capture leaves, and what its answer says.  *)
StartFits(c, req, r) ==
  /\ CapOK(r.cap) /\ r.ok \in BOOLEAN
  /\ r.ok => Serves(r.cap, req.rules)
  /\ ~r.ok /\ r.cap.split.up => r.cap = c

LEMMA AnswerFields ==
    ASSUME NEW c
    PROVE  /\ Done(c).cap = c /\ Done(c).ok = TRUE
           /\ Broken(c).cap = c /\ Broken(c).ok = FALSE
  BY DEF Done, Broken

LEMMA BareStartFails ==
    ASSUME NEW c, NEW req \in CaptureRequests, req.mode = setup.mode,
           NEW d, Bare(d), d.last = req
    PROVE  StartFits(c, req, Broken(d))
  <1>1. CapOK(d)
    BY NothingHeld
  <1>2. ~d.split.up
    BY ConstantsFit DEF Bare
  <1> QED BY Zenon, <1>1, <1>2, AnswerFields DEF StartFits

LEMMA StartSplitFacts ==
    ASSUME setup \in Setups, setup.mode = "split", NEW c, CapOK(c),
           NEW req \in CaptureRequests, req.mode = setup.mode, NEW at
    PROVE  StartFits(c, req, StartSplit(c, req, at))
  <1> DEFINE bare == Replaced(c, req)
             guarded == [bare EXCEPT !.guard = GuardFor("v6")]
             opened == [Absent EXCEPT !.up = TRUE, !.rules = req.rules, !.foreign = req.foreign]
             up == [guarded EXCEPT !.split = opened]
  <1>1. Bare(bare) /\ bare.last = req
    BY ReplacedFacts DEF CapOK
  <1>2. GuardFor("v6") \in {"none", "v6", "adapter"} /\ (GuardFor("v6") # "none") = setup.remote
    BY GuardForFacts
  <1>3. StartFits(c, req, Broken(c))
    BY Zenon, AnswerFields DEF StartFits
  <1>4. StartFits(c, req, Broken(bare))
    BY <1>1, BareStartFails
  <1>5. Bare(guarded) /\ guarded.last = req /\ guarded.guard = GuardFor("v6")
    <2> HIDE DEF bare
    <2> QED BY <1>1, <1>2 DEF Bare, Managers
  <1>6. StartFits(c, req, Broken(guarded))
    BY Zenon, <1>5, BareStartFails
  <1>7. CASE req.rules # NoRules
    <2>1. /\ opened \in Captures /\ opened.up /\ opened.rules = req.rules
      BY Zenon, ConstantsFit, req \in CaptureRequests DEF Captures, CaptureRequests, Absent
    <2>2. /\ up \in Managers /\ up.split = opened /\ up.active = Absent /\ up.rows = {}
          /\ up.last = req /\ up.guard = GuardFor("v6")
      <3> HIDE DEF guarded, opened
      <3> QED BY <1>5, <2>1 DEF Bare, Managers
    <2> HIDE DEF up, opened
    <2>3. RowsOwned(up)
      BY <2>2, ConstantsFit DEF RowsOwned, Rows
    <2>4. GuardHeld(up)
      BY <2>2, <1>2 DEF GuardHeld
    <2>5. OneBackend(up)
      BY <2>1, <2>2, ConstantsFit DEF OneBackend
    <2>6. CapOK(up) /\ Serves(up, req.rules)
      BY <2>1, <2>2, <2>3, <2>4, <2>5, <1>7 DEF CapOK, Serves
    <2>7. StartFits(c, req, Done(up))
      BY Zenon, <2>6, AnswerFields DEF StartFits
    <2> HIDE DEF bare, guarded
    <2>8. \/ StartSplit(c, req, at) = Broken(c) \/ StartSplit(c, req, at) = Broken(bare)
          \/ StartSplit(c, req, at) = Broken(guarded) \/ StartSplit(c, req, at) = Done(up)
      BY DEF StartSplit, up, opened, guarded, bare
    <2> QED BY <2>7, <2>8, <1>3, <1>4, <1>6
  <1>8. CASE req.rules = NoRules
    <2>1. StartSplit(c, req, at) = Broken(c)
      BY <1>8 DEF StartSplit
    <2> QED BY <2>1, <1>3
  <1> QED BY <1>7, <1>8

LEMMA StartAllFacts ==
    ASSUME setup \in Setups, setup.mode = "all", NEW c, CapOK(c),
           NEW req \in CaptureRequests, req.mode = setup.mode, NEW at
    PROVE  StartFits(c, req, StartAll(c, req, at))
  <1> DEFINE bare == Replaced(c, req)
             own == [up |-> TRUE, rules |-> NoRules, routes |-> Own \cup Halves,
                     foreign |-> req.foreign, dns |-> FALSE]
             named == bare.rows \cup req.foreign \cup Own \cup Halves
             routedAll == [bare EXCEPT !.active = own, !.rows = named]
             guarded == [routedAll EXCEPT !.guard = GuardFor("adapter")]
             up == [guarded EXCEPT !.active.dns = setup.remote]
  <1>1. Bare(bare) /\ bare.last = req
    BY ReplacedFacts DEF CapOK
  <1>2. /\ GuardFor("adapter") \in {"none", "v6", "adapter"}
        /\ (GuardFor("adapter") # "none") = setup.remote
    BY GuardForFacts
  <1>3. StartFits(c, req, Broken(c))
    BY Zenon, AnswerFields DEF StartFits
  <1>4. StartFits(c, req, Broken(bare))
    BY <1>1, BareStartFails
  <1>5. /\ own \in Captures /\ own.routes = Own \cup Halves /\ own.foreign = req.foreign /\ own.up
        /\ named = Own \cup Halves \cup req.foreign
        /\ named \subseteq Own \cup Halves \cup Everywhere
    BY <1>1, ConstantsFit, req \in CaptureRequests DEF Captures, CaptureRequests, Bare
  <1> HIDE DEF bare, own, named
  <1>6. /\ routedAll \in Managers /\ routedAll.active = own /\ routedAll.split = Absent
        /\ routedAll.rows = named /\ routedAll.last = req
    BY Zenon, <1>1, <1>5 DEF Bare, Managers
  <1> HIDE DEF routedAll
  <1>7. /\ guarded \in Managers /\ guarded.active = own /\ guarded.split = Absent
        /\ guarded.rows = named /\ guarded.last = req /\ guarded.guard = GuardFor("adapter")
    BY <1>2, <1>6 DEF Managers
  <1> HIDE DEF guarded
  <1>8. /\ up.active = [own EXCEPT !.dns = setup.remote]
        /\ up.split = Absent /\ up.rows = named /\ up.last = req
        /\ up.guard = GuardFor("adapter")
    BY <1>7 DEF Managers
  <1>9. /\ up.active \in Captures /\ up.active.routes = Own \cup Halves
        /\ up.active.foreign = req.foreign /\ up.active.up /\ up.active.dns = setup.remote
    BY <1>5, <1>8 DEF Captures, Setups
  <1>10. up \in Managers
    BY <1>7, <1>9 DEF Managers
  <1> HIDE DEF up
  <1>11. CapOK(up) /\ Serves(up, req.rules)
    <2>1. RowsOwned(up)
      BY <1>5, <1>8, <1>9 DEF RowsOwned, Rows
    <2>2. GuardHeld(up)
      BY <1>2, <1>8 DEF GuardHeld
    <2>3. OneBackend(up)
      BY <1>8, <1>9, ConstantsFit DEF OneBackend
    <2> QED BY <2>1, <2>2, <2>3, <1>9, <1>10 DEF CapOK, Serves
  <1>12. StartFits(c, req, Done(up))
    BY Zenon, <1>11, AnswerFields DEF StartFits
  <1>13. StartFits(c, req, Broken(Teardown(routedAll)))
    <2>1. RowsOwned(routedAll)
      BY <1>5, <1>6 DEF RowsOwned, Rows
    <2>2. Bare(Teardown(routedAll)) /\ Teardown(routedAll).last = req
      BY <2>1, <1>6, TeardownFacts DEF Bare
    <2> QED BY <2>2, BareStartFails
  <1>14. StartFits(c, req, Broken(Teardown(guarded)))
    <2>1. RowsOwned(guarded)
      BY <1>5, <1>7 DEF RowsOwned, Rows
    <2>2. Bare(Teardown(guarded)) /\ Teardown(guarded).last = req
      BY <2>1, <1>7, TeardownFacts DEF Bare
    <2> QED BY <2>2, BareStartFails
  <1>15. \/ StartAll(c, req, at) = Broken(c) \/ StartAll(c, req, at) = Broken(bare)
         \/ StartAll(c, req, at) = Broken(Teardown(routedAll))
         \/ StartAll(c, req, at) = Broken(Teardown(guarded))
         \/ StartAll(c, req, at) = Done(up)
    BY DEF StartAll, up, guarded, routedAll, own, named, bare
  <1> QED BY <1>3, <1>4, <1>12, <1>13, <1>14, <1>15

LEMMA StartFacts ==
    ASSUME setup \in Setups, NEW c, CapOK(c),
           NEW req \in CaptureRequests, req.mode = setup.mode, NEW at
    PROVE  StartFits(c, req, start(c, req, at))
  BY StartSplitFacts, StartAllFacts DEF start, Setups, CaptureModes

(* What a request that keeps the rules may do to the capture.              *)
KeepsRules(c, r) ==
  /\ CapOK(r.cap) /\ r.ok \in BOOLEAN
  /\ c.active.up => r.cap.active.up
  /\ r.cap.split.up => c.split.up /\ r.cap.split.rules = c.split.rules

LEMMA ForeignRoutesFacts ==
    ASSUME setup \in Setups, NEW c, CapOK(c), c.active.up,
           NEW addresses \in SUBSET Everywhere, NEW added \in SUBSET addresses
    PROVE  LET d == set_foreign_routes(c, addresses, added)
           IN  CapOK(d) /\ d.active.up /\ d.split = c.split /\ d.last = c.last
  <1> DEFINE now == (c.active.foreign \cap addresses) \cup added
             rows == (c.rows \ (c.active.foreign \ addresses)) \cup added
             d == [c EXCEPT !.active.foreign = now, !.rows = rows]
             e == [c.active EXCEPT !.foreign = now]
  <1>1. d = set_foreign_routes(c, addresses, added)
    BY DEF set_foreign_routes
  <1>2. c \in Managers /\ RowsOwned(c) /\ GuardHeld(c) /\ OneBackend(c)
    BY DEF CapOK
  <1>3. c.active \in Captures /\ c.rows \subseteq Own \cup Halves \cup Everywhere
    BY <1>2, ManagerFields
  <1>4. now \subseteq Everywhere /\ rows \subseteq Own \cup Halves \cup Everywhere
    BY <1>3 DEF Captures
  <1>5. /\ c.active.routes \cap Everywhere \subseteq Shared
    BY <1>3, CaptureConstants DEF Captures, Shared, Everywhere
  <1>6. rows \subseteq c.active.routes \cup now
    BY <1>2 DEF RowsOwned, Rows
  <1>7. (c.active.routes \cup now) \ Shared \subseteq rows
    BY <1>2, <1>3, <1>5 DEF RowsOwned, Rows, Captures
  <1> HIDE DEF now, rows
  <1>8. /\ e \in Captures /\ e.routes = c.active.routes /\ e.foreign = now
        /\ e.up = c.active.up /\ e.dns = c.active.dns
    BY Zenon, <1>3, <1>4 DEF Captures
  <1>9. /\ d.active = e /\ d.split = c.split /\ d.guard = c.guard /\ d.last = c.last
        /\ d.rows = rows
    BY <1>2 DEF Managers
  <1>10. d \in Managers
    BY Zenon, <1>2, <1>4, <1>8 DEF Managers
  <1> HIDE DEF d, e
  <1>11. RowsOwned(d)
    BY <1>6, <1>7, <1>8, <1>9 DEF RowsOwned, Rows
  <1>12. GuardHeld(d)
    BY Zenon, <1>2, <1>8, <1>9 DEF GuardHeld
  <1>13. OneBackend(d)
    BY Zenon, <1>2, <1>8, <1>9 DEF OneBackend
  <1> QED BY Zenon, <1>1, <1>8, <1>9, <1>10, <1>11, <1>12, <1>13 DEF CapOK

(* Another request remembered, for the same rules and mode.                *)
LEMMA RememberedFacts ==
    ASSUME NEW c, CapOK(c), NEW req \in CaptureRequests, req.mode = setup.mode,
           req.rules = c.last.rules, setup \in Setups
    PROVE  LET d == [c EXCEPT !.last = req]
           IN  CapOK(d) /\ d.active = c.active /\ d.split = c.split
  <1> DEFINE d == [c EXCEPT !.last = req]
  <1>1. c \in Managers /\ RowsOwned(c) /\ GuardHeld(c) /\ OneBackend(c)
    BY DEF CapOK
  <1>2. /\ d \in Managers /\ d.active = c.active /\ d.split = c.split /\ d.guard = c.guard
        /\ d.rows = c.rows /\ d.last = req
    BY <1>1 DEF Managers
  <1> HIDE DEF d
  <1>3. req # NoRequest
    BY Zenon, ConstantsFit DEF Setups, CaptureModes
  <1>4. RowsOwned(d) /\ GuardHeld(d) /\ OneBackend(d)
    BY Zenon, <1>1, <1>2, <1>3 DEF RowsOwned, Rows, GuardHeld, OneBackend
  <1> QED BY Zenon, <1>2, <1>4 DEF CapOK, d

(* A split capture reopened for the request remembered.                    *)
LEMMA ReopenedFacts ==
    ASSUME setup \in Setups, NEW c, CapOK(c), ~c.active.up, c.split.up,
           NEW req \in CaptureRequests, req.mode = setup.mode, req.rules = c.last.rules, NEW at
    PROVE  KeepsRules(c, start(c, req, at))
  <1> DEFINE r == start(c, req, at)
  <1>1. StartFits(c, req, r)
    BY Zenon, StartFacts
  <1>2. setup.mode = "split" /\ c.split.rules = c.last.rules
    BY Zenon DEF CapOK, OneBackend
  <1> HIDE DEF r
  <1>3. r.cap.split.up => r.cap.split.rules = c.split.rules
    BY Zenon, <1>1, <1>2 DEF StartFits, Serves
  <1> QED BY Zenon, <1>1, <1>3 DEF StartFits, KeepsRules, r

LEMMA SameCapFacts ==
    ASSUME NEW c, CapOK(c)
    PROVE  KeepsRules(c, Done(c)) /\ KeepsRules(c, Broken(c))
  BY Zenon, AnswerFields DEF KeepsRules

LEMMA DirectFacts ==
    ASSUME setup \in Setups, NEW c, CapOK(c), NEW at
    PROVE  KeepsRules(c, set_direct(c, at))
  <1>1. CASE c.last # NoRequest /\ ~c.active.up /\ c.split.up
    <2>1. c.last \in CaptureRequests /\ c.last.mode = setup.mode
      BY <1>1, ManagerFields DEF CapOK, OneBackend
    <2> QED BY <1>1, <2>1, ReopenedFacts DEF set_direct
  <1>2. CASE ~(c.last # NoRequest /\ ~c.active.up /\ c.split.up)
    BY <1>2, SameCapFacts DEF set_direct
  <1> QED BY <1>1, <1>2

LEMMA ForeignFacts ==
    ASSUME setup \in Setups, NEW c, CapOK(c), NEW addresses \in SUBSET Everywhere, NEW at
    PROVE  KeepsRules(c, set_foreign_bypass(c, addresses, at))
  <1> DEFINE req == [c.last EXCEPT !.foreign = addresses]
             missing == addresses \ c.active.foreign
             r == set_foreign_bypass(c, addresses, at)
  <1>1. CASE c.last = NoRequest
    BY <1>1, SameCapFacts DEF set_foreign_bypass
  <1>2. CASE c.last # NoRequest
    <2>1. c.last \in CaptureRequests /\ c.last.mode = setup.mode
      BY <1>2, ManagerFields DEF CapOK, OneBackend
    <2>2. req \in CaptureRequests /\ req.mode = setup.mode /\ req.rules = c.last.rules
      BY <2>1 DEF CaptureRequests
    <2>a. KeepsRules(c, Done([c EXCEPT !.last = req]))
      <3> DEFINE g == [c EXCEPT !.last = req]
      <3> HIDE DEF req
      <3>1. CapOK(g) /\ g.active = c.active /\ g.split = c.split
        BY <2>2, RememberedFacts
      <3> HIDE DEF g
      <3>2. KeepsRules(c, Done(g))
        BY Zenon, <3>1, AnswerFields DEF KeepsRules
      <3> QED BY <3>2 DEF g
    <2>3. CASE c.active.up
      <3>1. ASSUME NEW added \in SUBSET missing
            PROVE  /\ KeepsRules(c, Broken(set_foreign_routes(c, addresses, added)))
                   /\ KeepsRules(c, Done([set_foreign_routes(c, addresses, added) EXCEPT !.last = req]))
        <4> DEFINE d == set_foreign_routes(c, addresses, added)
                   f == [d EXCEPT !.last = req]
        <4>1. CapOK(d) /\ d.active.up /\ d.split = c.split /\ d.last = c.last
          BY <2>3, <3>1, ForeignRoutesFacts
        <4> HIDE DEF d, req
        <4>2. CapOK(f) /\ f.active = d.active /\ f.split = d.split
          BY <4>1, <2>2, RememberedFacts
        <4> HIDE DEF f
        <4>3. KeepsRules(c, Broken(d)) /\ KeepsRules(c, Done(f))
          BY ZenonT(60), <4>1, <4>2, AnswerFields DEF KeepsRules
        <4> QED BY <4>3 DEF d, f
      <3>2. CASE at = "route" /\ missing # {}
        BY Zenon, <1>2, <2>3, <3>1, <3>2 DEF set_foreign_bypass
      <3>3. CASE at = "later route" /\ Cardinality(missing) > 1
        <4>1. missing # {}
          <5>1. Cardinality({}) = 0
            BY FS_EmptySet
          <5>2. ASSUME missing = {} PROVE FALSE
            <6>1. Cardinality(missing) = 0
              BY <5>1, <5>2
            <6>2. Cardinality(missing) > 1
              BY <3>3
            <6> HIDE DEF missing
            <6> QED BY <6>1, <6>2
          <5> QED BY <5>2
        <4>2. {CHOOSE a \in missing : TRUE} \in SUBSET missing
          BY <4>1
        <4>3. r = Broken(set_foreign_routes(c, addresses, {CHOOSE a \in missing : TRUE}))
          BY <1>2, <2>3, <3>3 DEF set_foreign_bypass
        <4> QED BY Zenon, <3>1, <4>2, <4>3
      <3>4. CASE at \notin {"route", "later route"}
        <4>1. r = Done([set_foreign_routes(c, addresses, missing) EXCEPT !.last = req])
          BY <1>2, <2>3, <3>4 DEF set_foreign_bypass
        <4> QED BY Zenon, <3>1, <4>1
      <3>5. CASE ~(at = "route" /\ missing # {}) /\ ~(at = "later route" /\ Cardinality(missing) > 1)
                 /\ at \in {"route", "later route"}
        <4>1. r = Done([c EXCEPT !.last = req])
          BY <1>2, <2>3, <3>5 DEF set_foreign_bypass
        <4> QED BY Zenon, <4>1, <2>a
      <3> QED BY <3>2, <3>3, <3>4, <3>5
    <2>4. CASE ~c.active.up /\ c.split.up
      <3>1. r = start(c, req, at)
        BY Zenon, <1>2, <2>4 DEF set_foreign_bypass
      <3> HIDE DEF req, r
      <3>2. KeepsRules(c, start(c, req, at))
        BY Zenon, <2>2, <2>4, ReopenedFacts
      <3> QED BY Zenon, <3>1, <3>2 DEF r
    <2>5. CASE ~c.active.up /\ ~c.split.up
      <3>1. r = Done([c EXCEPT !.last = req])
        BY Zenon, <1>2, <2>5 DEF set_foreign_bypass
      <3> QED BY <3>1, <2>a
    <2>6. c.active.up \in BOOLEAN /\ c.split.up \in BOOLEAN
      BY Zenon, ManagerFields DEF CapOK, Captures
    <2> QED BY <2>3, <2>4, <2>5, <2>6
  <1> QED BY <1>1, <1>2

LEMMA StopFacts ==
    ASSUME NEW c, CapOK(c)
    PROVE  /\ stop(c).ok = TRUE /\ CapOK(stop(c).cap) /\ Clean(stop(c).cap)
  <1> DEFINE t == Teardown(c)
             d == [t EXCEPT !.split = Absent, !.last = NoRequest, !.guard = "none"]
  <1>1. t \in Managers /\ t.active = Absent /\ t.rows = {}
    BY TeardownFacts DEF CapOK
  <1> HIDE DEF t
  <1>2. Bare(d) /\ d.last = NoRequest /\ d.guard = "none"
    BY Zenon, <1>1, ConstantsFit DEF Managers, Bare
  <1>3. stop(c) = Done(d)
    BY Zenon DEF stop, t
  <1> HIDE DEF d
  <1>4. CapOK(d) /\ Clean(d)
    BY Zenon, <1>2, NothingHeld DEF Bare, Clean
  <1> QED BY Zenon, <1>3, <1>4, AnswerFields

(* What one line of the pipe does, whatever fails.                         *)
LEMMA HandleFacts ==
    ASSUME setup \in Setups, NEW c, CapOK(c), NEW m \in Lines, LineFits(m), NEW at
    PROVE  LET r == handle_request(c, m, at)
           IN  /\ CapOK(r.cap) /\ r.ok \in BOOLEAN
               /\ \A w : AsksFor(m, w) /\ r.ok => Serves(r.cap, w)
               /\ Harmless(m) => KeepsRules(c, r)
               /\ m.cmd = "end" => Clean(r.cap)
  <1> DEFINE r == handle_request(c, m, at)
  <1>0. m.cmd \in Commands /\ m.req \in CaptureRequests
    BY Zenon DEF Lines
  <1>1. CASE m.cmd = "start"
    <2>1. r = start(c, m.req, at)
      BY Zenon, <1>1 DEF handle_request
    <2>2. m.req.mode = setup.mode
      BY Zenon, <1>1 DEF LineFits
    <2>3. StartFits(c, m.req, r)
      BY Zenon, <1>0, <2>1, <2>2, StartFacts
    <2> HIDE DEF r
    <2>4. \A w : AsksFor(m, w) => w = m.req.rules
      BY Zenon, <1>1 DEF AsksFor
    <2> QED BY Zenon, <1>1, <2>3, <2>4 DEF StartFits, Harmless, r
  <1>2. CASE m.cmd = "update"
    <2>1. r = update(c, m.req, at)
      BY Zenon, <1>2 DEF handle_request
    <2>2. m.req.mode = setup.mode
      BY Zenon, <1>2 DEF LineFits
    <2>3. StartFits(c, m.req, start(c, m.req, at)) /\ StartFits(c, m.req, Broken(c))
      BY ZenonT(60), <1>0, <2>2, StartFacts, AnswerFields DEF StartFits
    <2>4. StartFits(c, m.req, r)
      BY <2>1, <2>3 DEF update
    <2> HIDE DEF r
    <2>5. \A w : AsksFor(m, w) => w = m.req.rules
      BY <1>2 DEF AsksFor
    <2> QED BY Zenon, <1>2, <2>4, <2>5 DEF StartFits, Harmless, r
  <1>3. CASE m.cmd = "foreign"
    <2>1. r = set_foreign_bypass(c, m.req.foreign, at)
      BY <1>3 DEF handle_request
    <2>2. m.req.foreign \in SUBSET Everywhere
      BY <1>0 DEF CaptureRequests
    <2>3. KeepsRules(c, r)
      BY <2>1, <2>2, ForeignFacts
    <2> HIDE DEF r
    <2> QED BY <1>3, <2>3 DEF KeepsRules, AsksFor, r
  <1>4. CASE m.cmd = "direct"
    <2>1. r = set_direct(c, at)
      BY <1>4 DEF handle_request
    <2>2. KeepsRules(c, r)
      BY <2>1, DirectFacts
    <2> HIDE DEF r
    <2> QED BY <1>4, <2>2 DEF KeepsRules, AsksFor, r
  <1>5. CASE m.cmd \in {"stop", "end"}
    <2>1. r = stop(c)
      BY <1>5 DEF handle_request
    <2>2. r.ok = TRUE /\ CapOK(r.cap) /\ Clean(r.cap)
      BY Zenon, <2>1, StopFacts
    <2> HIDE DEF r
    <2>3. ~r.cap.split.up
      BY <2>2, ConstantsFit DEF Clean
    <2>4. \A w : AsksFor(m, w) => w = NoRules /\ setup.mode = "split"
      BY <1>5 DEF AsksFor
    <2> QED BY Zenon, <1>5, <2>2, <2>3, <2>4 DEF Serves, Harmless, r
  <1> QED BY Zenon, <1>0, <1>1, <1>2, <1>3, <1>4, <1>5 DEF Commands

(* A request that keeps the rules keeps a capture that serves them, unless *)
(* it takes the split capture down.                                        *)
LEMMA ServesStill ==
    ASSUME setup \in Setups, NEW c, NEW r, CapOK(c), KeepsRules(c, r), NEW w, Serves(c, w)
    PROVE  Serves(r.cap, w) \/ (c.split.up /\ ~r.cap.split.up)
  BY DEF KeepsRules, Serves

-----------------------------------------------------------------------------
(* The pipe.                                                               *)
LEMMA AppendFacts ==
    ASSUME NEW S, NEW s \in Seq(S), NEW e \in S
    PROVE  /\ Append(s, e) \in Seq(S) /\ Len(Append(s, e)) = Len(s) + 1
           /\ DOMAIN Append(s, e) = 1..(Len(s) + 1) /\ DOMAIN s = 1..Len(s) /\ Len(s) \in Nat
           /\ Append(s, e) # << >> /\ Append(s, e)[Len(s) + 1] = e
           /\ \A i \in DOMAIN s : Append(s, e)[i] = s[i]
  OBVIOUS

LEMMA EmptyFacts ==
    ASSUME NEW S, NEW s \in Seq(S)
    PROVE  /\ s = << >> <=> Len(s) = 0
           /\ Len(s) \in Nat /\ DOMAIN s = 1..Len(s)
           /\ \A i \in DOMAIN s : s[i] \in S
           /\ s # << >> => Len(s) \in DOMAIN s /\ 1 \in DOMAIN s
  OBVIOUS

LEMMA TailFacts ==
    ASSUME NEW S, NEW s \in Seq(S), s # << >>
    PROVE  /\ Tail(s) \in Seq(S) /\ Len(s) \in Nat \ {0} /\ Len(Tail(s)) = Len(s) - 1
           /\ Head(s) = s[1] /\ Head(s) \in S
           /\ DOMAIN Tail(s) = 1..(Len(s) - 1) /\ DOMAIN s = 1..Len(s)
           /\ \A i \in DOMAIN Tail(s) : Tail(s)[i] = s[i + 1]
           /\ Len(s) = 1 => Tail(s) = << >>
           /\ Len(s) > 1 => Tail(s) # << >> /\ Tail(s)[Len(Tail(s))] = s[Len(s)]
  <1>1. Len(s) \in Nat \ {0} /\ DOMAIN s = 1..Len(s) /\ Head(s) = s[1] /\ Head(s) \in S
    OBVIOUS
  <1>2. Tail(s) \in Seq(S) /\ Len(Tail(s)) = Len(s) - 1
    OBVIOUS
  <1>3. DOMAIN Tail(s) = 1..(Len(s) - 1) /\ \A i \in 1..(Len(s) - 1) : Tail(s)[i] = s[i + 1]
    OBVIOUS
  <1>a. Tail(s) = << >> <=> Len(Tail(s)) = 0
    BY Zenon, <1>2, EmptyFacts
  <1>4. Len(s) = 1 => Tail(s) = << >>
    BY <1>2, <1>a
  <1>5. Len(s) > 1 => Tail(s) # << >>
    BY <1>1, <1>2, <1>a
  <1>6. Len(s) > 1 => Tail(s)[Len(s) - 1] = s[Len(s)]
    BY <1>1, <1>3
  <1> QED BY <1>1, <1>2, <1>3, <1>4, <1>5, <1>6

(* Replies are read from the front, or left.                               *)
Reads == outbox' = outbox \/ (outbox # << >> /\ outbox' = Tail(outbox))

LEMMA ReadsFacts ==
    ASSUME KTyped, IdsInOrder, Reads
    PROVE  /\ outbox' \in Seq(Answers)
           /\ \A i \in DOMAIN outbox' : \E k \in DOMAIN outbox : outbox'[i] = outbox[k]
           /\ \A i, j \in DOMAIN outbox' : i < j => outbox'[i].id < outbox'[j].id
           /\ \A i \in DOMAIN outbox' : outbox'[i].id \in Nat
  <1>0. outbox \in Seq(Answers) /\ \A i \in DOMAIN outbox : outbox[i].id \in Nat
    <2>1. outbox \in Seq(Answers)
      BY Zenon DEF KTyped
    <2>2. \A i \in DOMAIN outbox : outbox[i] \in Answers
      BY Zenon, <2>1, EmptyFacts
    <2> QED BY <2>1, <2>2 DEF Answers
  <1>1. CASE outbox' = outbox
    <2>1. \A i \in DOMAIN outbox : \E k \in DOMAIN outbox : outbox[i] = outbox[k]
      BY Zenon
    <2>2. \A i, j \in DOMAIN outbox : i < j => outbox[i].id < outbox[j].id
      BY Zenon DEF IdsInOrder
    <2> QED BY Zenon, <1>0, <1>1, <2>1, <2>2
  <1>2. CASE outbox # << >> /\ outbox' = Tail(outbox)
    <2> DEFINE t == Tail(outbox)
    <2>1. /\ t \in Seq(Answers) /\ DOMAIN outbox = 1..Len(outbox) /\ Len(outbox) \in Nat
          /\ DOMAIN t = 1..(Len(outbox) - 1) /\ \A i \in DOMAIN t : t[i] = outbox[i + 1]
      BY Zenon, <1>0, <1>2, TailFacts
    <2> HIDE DEF t
    <2>2. \A i \in DOMAIN t : i + 1 \in DOMAIN outbox
      BY <2>1
    <2>3. \A i, j \in DOMAIN t : i < j => t[i].id < t[j].id
      <3> SUFFICES ASSUME NEW i \in DOMAIN t, NEW j \in DOMAIN t, i < j
                   PROVE  t[i].id < t[j].id
        BY Zenon
      <3>1. i + 1 \in DOMAIN outbox /\ j + 1 \in DOMAIN outbox /\ i + 1 < j + 1
        BY <2>1, <2>2
      <3> QED BY Zenon, <3>1, <2>1 DEF IdsInOrder
    <2>4. \A i \in DOMAIN t : \E k \in DOMAIN outbox : t[i] = outbox[k]
      BY Zenon, <2>1, <2>2
    <2>5. \A i \in DOMAIN t : t[i].id \in Nat
      BY Zenon, <2>1, <2>2, <1>0
    <2> QED BY Zenon, <1>2, <2>1, <2>3, <2>4, <2>5 DEF t
  <1> QED BY <1>1, <1>2 DEF Reads

(* EngineProcess::request: the line is the newest of the pipe.             *)
LEMMA RequestFacts ==
    ASSUME KTyped, IdsInOrder, LinesFit, Reads, setup' = setup,
           NEW kind \in OpKinds \ {"none"}, NEW cmd \in Commands,
           NEW req \in CaptureRequests, NEW want \in Rules,
           cmd \in {"start", "update"} => req.mode = setup.mode,
           request(kind, cmd, req, want)
    PROVE  /\ inbox' \in Seq(Lines) /\ nextId' \in Nat
           /\ op' \in [kind : OpKinds, id : Nat, want : Rules]
           /\ op'.kind = kind /\ op'.want = want
           /\ LinesFit' /\ IdsInOrder' /\ Queued'
           /\ inbox'[Len(inbox')].cmd = cmd /\ inbox'[Len(inbox')].req = req
           /\ Harmless([cmd |-> cmd]) /\ (\A i \in DOMAIN inbox : Harmless(inbox[i])) =>
                \A i \in DOMAIN inbox' : Harmless(inbox'[i])
  <1> DEFINE line == [id |-> nextId, cmd |-> cmd, req |-> req]
             n == Len(inbox) + 1
  <1>1. line \in Lines /\ line.id = nextId /\ line.cmd = cmd /\ line.req = req
    BY Zenon DEF Lines, KTyped
  <1>2. inbox' = Append(inbox, line) /\ inbox \in Seq(Lines) /\ nextId \in Nat
    BY Zenon DEF request, KTyped
  <1>3. op' = [kind |-> kind, id |-> nextId, want |-> want] /\ nextId' = nextId + 1
    BY Zenon DEF request
  <1> HIDE DEF line
  <1>4. /\ inbox' \in Seq(Lines) /\ Len(inbox') = n /\ DOMAIN inbox' = 1..n
        /\ DOMAIN inbox = 1..Len(inbox) /\ Len(inbox) \in Nat /\ inbox' # << >> /\ inbox'[n] = line
        /\ \A i \in DOMAIN inbox : inbox'[i] = inbox[i]
    BY <1>1, <1>2, AppendFacts
  <1>5. \A i \in DOMAIN inbox' : i = n \/ i \in DOMAIN inbox
    BY <1>4
  <1>6. \A i \in DOMAIN inbox' : inbox'[i].id \in Nat
    <2>1. \A i \in DOMAIN inbox' : inbox'[i] \in Lines
      BY Zenon, <1>4, EmptyFacts
    <2> QED BY Zenon, <2>1 DEF Lines
  <1>7. op'.kind = kind /\ op'.id = nextId /\ op'.want = want
        /\ op' \in [kind : OpKinds, id : Nat, want : Rules]
    BY Zenon, <1>2, <1>3
  <1>8. Queued'
    BY Zenon, <1>1, <1>4, <1>7 DEF Queued
  <1>9. LinesFit'
    <2>1. line.cmd \in {"start", "update"} => line.req.mode = setup'.mode
      BY Zenon, <1>1
    <2>2. \A i \in DOMAIN inbox : inbox[i].cmd \in {"start", "update"} => inbox[i].req.mode = setup'.mode
      BY Zenon DEF LinesFit, LineFits
    <2>3. \A i \in DOMAIN inbox' : inbox'[i].cmd \in {"start", "update"} => inbox'[i].req.mode = setup'.mode
      BY Zenon, <1>4, <1>5, <2>1, <2>2
    <2> QED BY Zenon, <2>3 DEF LinesFit, LineFits
  <1>10. IdsInOrder'
    <2>0. \A i \in DOMAIN inbox : inbox[i].id < nextId
      BY Zenon DEF IdsInOrder
    <2>1. \A i, j \in DOMAIN inbox' : i < j => inbox'[i].id < inbox'[j].id
      <3> SUFFICES ASSUME NEW i \in DOMAIN inbox', NEW j \in DOMAIN inbox', i < j
                   PROVE  inbox'[i].id < inbox'[j].id
        BY Zenon
      <3>1. i \in DOMAIN inbox
        BY <1>4
      <3>2. CASE j = n
        BY Zenon, <3>1, <3>2, <2>0, <1>1, <1>4
      <3>3. CASE j \in DOMAIN inbox
        BY Zenon, <3>1, <3>3, <1>4 DEF IdsInOrder
      <3> QED BY Zenon, <3>2, <3>3, <1>5
    <2>2. \A i \in DOMAIN outbox', j \in DOMAIN inbox' : outbox'[i].id < inbox'[j].id
      <3> SUFFICES ASSUME NEW i \in DOMAIN outbox', NEW j \in DOMAIN inbox'
                   PROVE  outbox'[i].id < inbox'[j].id
        BY Zenon
      <3>1. PICK k \in DOMAIN outbox : outbox'[i] = outbox[k]
        BY Zenon, ReadsFacts
      <3>2. CASE j = n
        BY Zenon, <3>1, <3>2, <1>1, <1>4 DEF IdsInOrder
      <3>3. CASE j \in DOMAIN inbox
        BY Zenon, <3>1, <3>3, <1>4 DEF IdsInOrder
      <3> QED BY Zenon, <3>2, <3>3, <1>5
    <2>3. \A i \in DOMAIN inbox' : inbox'[i].id < nextId'
      <3> SUFFICES ASSUME NEW i \in DOMAIN inbox'
                   PROVE  inbox'[i].id < nextId'
        BY Zenon
      <3>1. inbox'[i].id \in Nat /\ (inbox'[i].id = nextId \/ inbox'[i].id < nextId)
        BY Zenon, <1>1, <1>4, <1>5, <1>6, <2>0
      <3> QED BY <3>1, <1>2, <1>3
    <2>4. \A i \in DOMAIN outbox' : outbox'[i].id < nextId'
      <3> SUFFICES ASSUME NEW i \in DOMAIN outbox'
                   PROVE  outbox'[i].id < nextId'
        OBVIOUS
      <3>1. outbox'[i].id \in Nat /\ outbox'[i].id < nextId
        BY Zenon, ReadsFacts DEF IdsInOrder
      <3> QED BY <3>1, <1>2, <1>3
    <2> QED BY Zenon, <2>1, <2>2, <2>3, <2>4, <1>3, <1>7, ReadsFacts DEF IdsInOrder
  <1>11. Harmless([cmd |-> cmd]) /\ (\A i \in DOMAIN inbox : Harmless(inbox[i])) =>
           \A i \in DOMAIN inbox' : Harmless(inbox'[i])
    BY Zenon, <1>1, <1>4, <1>5 DEF Harmless
  <1> QED BY <1>1, <1>2, <1>3, <1>4, <1>7, <1>8, <1>9, <1>10, <1>11

(* The slot's holder lets go, or goes on waiting.                          *)
LEMMA KeptOrder ==
    ASSUME KTyped, IdsInOrder, LinesFit, Reads, UNCHANGED <<setup, inbox, nextId>>,
           op'.kind = "none" \/ op' = op
    PROVE  IdsInOrder' /\ LinesFit'
  <1>1. \A i \in DOMAIN outbox', j \in DOMAIN inbox : outbox'[i].id < inbox[j].id
    BY Zenon, ReadsFacts DEF IdsInOrder
  <1>2. \A i \in DOMAIN outbox' : outbox'[i].id < nextId
    BY Zenon, ReadsFacts DEF IdsInOrder
  <1>3. op'.kind # "none" => nextId = op'.id + 1
    BY DEF IdsInOrder
  <1>4. LinesFit'
    BY Zenon DEF LinesFit, LineFits
  <1> QED BY Zenon, <1>1, <1>2, <1>3, <1>4, ReadsFacts DEF IdsInOrder

(* A reply that is not older than the request waited on is its answer.     *)
LEMMA AnswerIsTheLast ==
    ASSUME KTyped, IdsInOrder, op.kind # "none", outbox # << >>,
           ~(Head(outbox).id < op.id), Queued \/ Replied
    PROVE  /\ Replied /\ Len(outbox) = 1 /\ outbox[Len(outbox)] = Head(outbox)
  <1>1. /\ outbox \in Seq(Answers) /\ Head(outbox) = outbox[1] /\ Len(outbox) \in Nat \ {0}
        /\ DOMAIN outbox = 1..Len(outbox) /\ op.id \in Nat /\ inbox \in Seq(Lines)
    BY Zenon, TailFacts DEF KTyped
  <1>2. outbox[1].id \in Nat
    <2>1. outbox[1] \in Answers
      BY Zenon, <1>1, EmptyFacts
    <2> QED BY Zenon, <2>1 DEF Answers
  <1>3. ~Queued
    <2> SUFFICES ASSUME Queued PROVE FALSE
      BY Zenon
    <2>1. Len(inbox) \in DOMAIN inbox
      BY Zenon, <1>1, EmptyFacts DEF Queued
    <2>2. outbox[1].id < op.id
      BY <1>1, <2>1 DEF Queued, IdsInOrder
    <2> QED BY Zenon, <1>1, <2>2
  <1>4. Len(outbox) = 1
    <2> SUFFICES ASSUME Len(outbox) # 1 PROVE FALSE
      BY Zenon
    <2>1. outbox[1].id < outbox[Len(outbox)].id
      BY <1>1 DEF IdsInOrder
    <2> QED BY Zenon, <1>1, <1>3, <2>1 DEF Replied
  <1> QED BY Zenon, <1>1, <1>3, <1>4

-----------------------------------------------------------------------------
(* The steps.  Each keeps the invariant.                                   *)

(* What no request of the service touches.                                 *)
LEMMA UntouchedCap ==
    ASSUME CaptureInv, UNCHANGED <<setup, cap, reopenLost>>
    PROVE  /\ CapOK(cap)' /\ Lost' /\ \A w : Serves(cap, w)' <=> Serves(cap, w)
           /\ Clean(cap)' <=> Clean(cap)
  <1>1. CapOK(cap)'
    BY Zenon DEF CaptureInv, CapOK, RowsOwned, Rows, GuardHeld, OneBackend
  <1>2. Lost'
    BY Zenon DEF CaptureInv, Lost
  <1> QED BY Zenon, <1>1, <1>2 DEF Serves, Clean

(* A request for a rule set: of an edit, or to restore.                    *)
LEMMA AsksForSent ==
    ASSUME setup' = setup, NEW w, Queued',
           \/ inbox'[Len(inbox')].cmd \in {"start", "update"} /\ inbox'[Len(inbox')].req.rules = w
           \/ inbox'[Len(inbox')].cmd = "stop" /\ w = NoRules /\ setup.mode = "split"
    PROVE  (Queued /\ AsksFor(inbox[Len(inbox)], w))'
  BY DEF AsksFor

LEMMA RequestType ==
    ASSUME KTyped, NEW r \in Rules
    PROVE  /\ capture_request(r) \in CaptureRequests /\ capture_request(r).mode = setup.mode
           /\ capture_request(r).rules = r
           /\ \A f \in ForeignSets : [NoRequest EXCEPT !.foreign = f] \in CaptureRequests
  <1>1. \A f \in ForeignSets : f \in SUBSET Everywhere
    BY Zenon DEF Everywhere
  <1> QED BY Zenon, <1>1, ConstantsFit DEF KTyped, capture_request, CaptureRequests, Setups, NoRequest

LEMMA EditRulesStep ==
    ASSUME CaptureInv, NEW r \in Rules, EditRules(r)
    PROVE  CaptureInv'
  <1>1. KTyped /\ IdsInOrder /\ LinesFit /\ PhaseFits /\ op.kind = "none" /\ phase = "connected"
    BY DEF CaptureInv, EditRules, Idle0, Waiting
  <1>2. /\ UNCHANGED <<setup, phase, rules, foreign, outbox, cap, timeouts, failures, unrestored, reopenLost>>
        /\ ruleEdits' = ruleEdits + 1 /\ setup.mode = "split" /\ Reads
    BY DEF EditRules, Editing, Reads
  <1>3. /\ capture_request(r) \in CaptureRequests /\ capture_request(r).mode = setup.mode
        /\ capture_request(r).rules = r /\ NoRequest \in CaptureRequests
    BY Zenon, <1>1, RequestType, ConstantsFit
  <1> DEFINE Sent(kind) ==
               /\ inbox' \in Seq(Lines) /\ nextId' \in Nat
               /\ op' \in [kind : OpKinds, id : Nat, want : Rules]
               /\ op'.kind = kind /\ op'.want = r /\ LinesFit' /\ IdsInOrder'
               /\ Settling(r)'
  <1>4. \E kind \in {"edit", "pause"} : Sent(kind)
    <2>1. CASE r = NoRules /\ ~setup.remote
      <3>1. request("pause", "stop", NoRequest, r)
        BY Zenon, <2>1 DEF EditRules
      <3>2. /\ inbox' \in Seq(Lines) /\ nextId' \in Nat
            /\ op' \in [kind : OpKinds, id : Nat, want : Rules]
            /\ op'.kind = "pause" /\ op'.want = r /\ LinesFit' /\ IdsInOrder' /\ Queued'
            /\ inbox'[Len(inbox')].cmd = "stop"
        BY Zenon, <1>1, <1>2, <1>3, <3>1, RequestFacts DEF OpKinds, Commands
      <3>3. Settling(r)'
        BY Zenon, <1>2, <2>1, <3>2, AsksForSent DEF Settling
      <3> QED BY Zenon, <3>2, <3>3
    <2>2. ASSUME NEW cmd \in {"start", "update"}, request("edit", cmd, capture_request(r), r)
          PROVE  Sent("edit")
      <3>2. /\ inbox' \in Seq(Lines) /\ nextId' \in Nat
            /\ op' \in [kind : OpKinds, id : Nat, want : Rules]
            /\ op'.kind = "edit" /\ op'.want = r /\ LinesFit' /\ IdsInOrder' /\ Queued'
            /\ inbox'[Len(inbox')].cmd = cmd /\ inbox'[Len(inbox')].req = capture_request(r)
        BY <1>1, <1>2, <1>3, <2>2, RequestFacts DEF OpKinds, Commands
      <3>3. Settling(r)'
        BY Zenon, <1>2, <1>3, <3>2, AsksForSent DEF Settling
      <3> QED BY Zenon, <3>2, <3>3
    <2>3. CASE ~(r = NoRules /\ ~setup.remote)
      <3>1. \E cmd \in {"start", "update"} : request("edit", cmd, capture_request(r), r)
        BY Zenon, <2>3 DEF EditRules
      <3> QED BY Zenon, <3>1, <2>2
    <2> QED BY Zenon, <2>1, <2>3
  <1>5. KTyped'
    BY <1>1, <1>2, <1>4 DEF KTyped
  <1>6. PhaseFits'
    BY Zenon, <1>1, <1>2, <1>4 DEF PhaseFits
  <1>7. OpFollowed'
    BY Zenon, <1>4 DEF OpFollowed
  <1>8. EndIsClean'
    BY Zenon, <1>1, <1>2 DEF EndIsClean
  <1>9. CapOK(cap)' /\ Lost'
    BY Zenon, <1>2, UntouchedCap
  <1> QED BY Zenon, <1>4, <1>5, <1>6, <1>7, <1>8, <1>9 DEF CaptureInv

(* A request that asks for no rules, from a session at rest.               *)
LEMMA OtherRequestStep ==
    ASSUME CaptureInv, op.kind = "none", phase = "connected",
           NEW kind \in {"direct", "foreign", "end"}, NEW cmd \in {"direct", "foreign", "end"},
           kind = "end" <=> cmd = "end", NEW req \in CaptureRequests,
           request(kind, cmd, req, rules),
           UNCHANGED <<setup, phase, rules, outbox, cap, timeouts, failures, unrestored, reopenLost>>,
           foreign' \in ForeignSets, ruleEdits' \in Nat
    PROVE  CaptureInv'
  <1>1. KTyped /\ IdsInOrder /\ LinesFit /\ PhaseFits /\ Reads
    BY Zenon DEF CaptureInv, Reads
  <1>2. /\ inbox' \in Seq(Lines) /\ nextId' \in Nat
        /\ op' \in [kind : OpKinds, id : Nat, want : Rules]
        /\ op'.kind = kind /\ op'.want = rules /\ LinesFit' /\ IdsInOrder' /\ Queued'
        /\ inbox'[Len(inbox')].cmd = cmd
        /\ Harmless([cmd |-> cmd]) /\ (\A i \in DOMAIN inbox : Harmless(inbox[i])) =>
             \A i \in DOMAIN inbox' : Harmless(inbox'[i])
    <2>1. kind \in OpKinds \ {"none"} /\ cmd \in Commands
      BY Zenon DEF OpKinds, Commands
    <2>2. cmd \in {"start", "update"} => req.mode = setup.mode
      BY Zenon
    <2>3. rules \in Rules /\ setup' = setup
      BY Zenon, <1>1 DEF KTyped
    <2> QED BY Zenon, <1>1, <2>1, <2>2, <2>3, RequestFacts
  <1>3. KTyped'
    BY Zenon, <1>1, <1>2 DEF KTyped
  <1>4. PhaseFits'
    BY Zenon, <1>1, <1>2 DEF PhaseFits
  <1>5. CapOK(cap)' /\ Lost' /\ EndIsClean'
    BY Zenon, UntouchedCap DEF EndIsClean
  <1>6. OpFollowed'
    <2>1. CASE kind = "end"
      BY Zenon, <1>2, <2>1 DEF OpFollowed
    <2>2. CASE kind # "end"
      <3>1. ~unrestored => Sound
        BY Zenon DEF CaptureInv, OpFollowed
      <3>2. Harmless([cmd |-> cmd])
        BY Zenon, <2>2 DEF Harmless
      <3>3. Sound => Sound'
        BY Zenon, <1>2, <3>2, UntouchedCap DEF Sound
      <3> QED BY Zenon, <1>2, <2>2, <3>1, <3>3 DEF OpFollowed
    <2> QED BY Zenon, <2>1, <2>2
  <1> QED BY Zenon, <1>2, <1>3, <1>4, <1>5, <1>6 DEF CaptureInv

LEMMA RestStep ==
    ASSUME CaptureInv,
           EditDirect \/ (\E f \in ForeignSets : OtherSessionChanges(f)) \/ StopSession
    PROVE  CaptureInv'
  <1>1. KTyped /\ NoRequest \in CaptureRequests
    BY Zenon, ConstantsFit DEF CaptureInv
  <1>2. CASE EditDirect
    <2>1. /\ op.kind = "none" /\ phase = "connected" /\ request("direct", "direct", NoRequest, rules)
          /\ UNCHANGED <<setup, phase, rules, outbox, cap, timeouts, failures, unrestored, reopenLost>>
          /\ foreign' \in ForeignSets /\ ruleEdits' \in Nat
      BY <1>1, <1>2 DEF EditDirect, Idle0, Waiting, Editing, KTyped
    <2> QED BY Zenon, <1>1, <2>1, OtherRequestStep
  <1>3. CASE \E f \in ForeignSets : OtherSessionChanges(f)
    <2>1. PICK f \in ForeignSets : OtherSessionChanges(f)
      BY Zenon, <1>3
    <2> DEFINE req == [NoRequest EXCEPT !.foreign = f]
    <2>2. req \in CaptureRequests
      BY Zenon, <1>1, RequestType DEF KTyped
    <2>3. /\ op.kind = "none" /\ phase = "connected" /\ request("foreign", "foreign", req, rules)
          /\ UNCHANGED <<setup, phase, rules, outbox, cap, timeouts, failures, unrestored, reopenLost>>
          /\ foreign' \in ForeignSets /\ ruleEdits' \in Nat
      BY <1>1, <2>1 DEF OtherSessionChanges, Idle0, Waiting, Editing, KTyped
    <2> HIDE DEF req
    <2> QED BY Zenon, <2>2, <2>3, OtherRequestStep
  <1>4. CASE StopSession
    <2>1. /\ op.kind = "none" /\ phase = "connected" /\ request("end", "end", NoRequest, rules)
          /\ UNCHANGED <<setup, phase, rules, outbox, cap, timeouts, failures, unrestored, reopenLost>>
          /\ foreign' \in ForeignSets /\ ruleEdits' \in Nat
      BY Zenon, <1>1, <1>4 DEF StopSession, Idle0, Waiting, KTyped
    <2> QED BY Zenon, <1>1, <2>1, OtherRequestStep
  <1> QED BY Zenon, <1>2, <1>3, <1>4

(* An operation that ends leaves the pipe as it is.                        *)
LEMMA ReleaseStep ==
    ASSUME CaptureInv, Reads, op' = Waiting, timeouts' \in Nat,
           UNCHANGED <<setup, foreign, inbox, nextId, cap, ruleEdits, failures, reopenLost>>,
           rules' \in Rules, setup.mode = "all" => rules' = NoRules,
           phase' \in {"connected", "ended", "killed"}, unrestored' \in BOOLEAN,
           phase' = "connected" /\ ~unrestored' =>
             (\A i \in DOMAIN inbox : Harmless(inbox[i])) /\ (Serves(cap, rules') \/ reopenLost),
           phase' = "ended" => Clean(cap)
    PROVE  CaptureInv'
  <1>1. KTyped /\ IdsInOrder /\ LinesFit
    BY Zenon DEF CaptureInv
  <1>2. op'.kind = "none" /\ op'.want = NoRules /\ op' \in [kind : OpKinds, id : Nat, want : Rules]
    BY Zenon, ConstantsFit DEF Waiting, OpKinds
  <1>3. outbox' \in Seq(Answers)
    BY Zenon, <1>1, ReadsFacts
  <1>4. KTyped'
    BY Zenon, <1>1, <1>2, <1>3 DEF KTyped
  <1>5. IdsInOrder' /\ LinesFit'
    BY Zenon, <1>1, <1>2, KeptOrder
  <1>6. CapOK(cap)' /\ Lost' /\ EndIsClean'
    BY Zenon, UntouchedCap DEF EndIsClean
  <1>7. PhaseFits'
    BY Zenon, <1>2 DEF PhaseFits
  <1>8. OpFollowed'
    <2>1. phase' = "connected" /\ ~unrestored' => Sound'
      BY Zenon DEF Sound, Serves
    <2> QED BY Zenon, <1>2, <2>1 DEF OpFollowed
  <1> QED BY Zenon, <1>4, <1>5, <1>6, <1>7, <1>8 DEF CaptureInv

(* A request that failed, or was given up on.                              *)
LEMMA RejectedStep ==
    ASSUME CaptureInv, op # Waiting, Rejected, Reads, timeouts' \in Nat,
           UNCHANGED <<setup, foreign, cap, ruleEdits, failures, reopenLost>>
    PROVE  CaptureInv'
  <1>1. KTyped /\ IdsInOrder /\ LinesFit /\ PhaseFits /\ OpFollowed /\ EndIsClean
    BY Zenon DEF CaptureInv
  <1>2. /\ op.kind \in OpKinds \ {"none"} /\ rules \in Rules /\ unrestored \in BOOLEAN
        /\ NoRequest \in CaptureRequests /\ phase \in {"starting", "connected"}
    BY Zenon, <1>1, ConstantsFit DEF KTyped, PhaseFits, OpKinds
  <1>3. /\ capture_request(rules) \in CaptureRequests /\ capture_request(rules).mode = setup.mode
        /\ capture_request(rules).rules = rules
    BY Zenon, <1>1, <1>2, RequestType
  <1>4. CapOK(cap)' /\ Lost'
    BY Zenon, UntouchedCap
  <1>5. outbox' \in Seq(Answers)
    BY Zenon, <1>1, ReadsFacts
  <1>6. ASSUME NEW kind \in {"restore", "end"}, NEW cmd \in Commands, NEW req \in CaptureRequests,
               cmd \in {"start", "update"} => req.mode = setup.mode,
               request(kind, cmd, req, rules), UNCHANGED <<phase, rules, unrestored>>,
               kind = "restore" => phase = "connected"
        PROVE  /\ KTyped' /\ PhaseFits' /\ LinesFit' /\ IdsInOrder' /\ EndIsClean'
               /\ op'.kind = kind /\ Queued'
               /\ inbox'[Len(inbox')].cmd = cmd /\ inbox'[Len(inbox')].req = req
               /\ Harmless([cmd |-> cmd]) /\ (\A i \in DOMAIN inbox : Harmless(inbox[i])) =>
                    \A i \in DOMAIN inbox' : Harmless(inbox'[i])
    <2>1. /\ inbox' \in Seq(Lines) /\ nextId' \in Nat
          /\ op' \in [kind : OpKinds, id : Nat, want : Rules]
          /\ op'.kind = kind /\ op'.want = rules /\ LinesFit' /\ IdsInOrder' /\ Queued'
          /\ inbox'[Len(inbox')].cmd = cmd /\ inbox'[Len(inbox')].req = req
          /\ Harmless([cmd |-> cmd]) /\ (\A i \in DOMAIN inbox : Harmless(inbox[i])) =>
               \A i \in DOMAIN inbox' : Harmless(inbox'[i])
      BY Zenon, <1>1, <1>2, <1>6, RequestFacts DEF OpKinds
    <2>2. KTyped'
      BY Zenon, <1>1, <1>5, <1>6, <2>1 DEF KTyped
    <2>3. PhaseFits'
      BY Zenon, <1>1, <1>2, <1>6, <2>1 DEF PhaseFits
    <2>4. EndIsClean'
      BY Zenon, <1>2, <1>6 DEF EndIsClean
    <2> QED BY Zenon, <2>1, <2>2, <2>3, <2>4
  <1>7. CASE op.kind = "edit"
    <2>1. phase = "connected" /\ setup.mode = "split"
      BY Zenon, <1>1, <1>7 DEF PhaseFits
    <2>2. /\ IF rules = NoRules THEN request("restore", "stop", NoRequest, rules)
             ELSE request("restore", "start", capture_request(rules), rules)
          /\ UNCHANGED <<phase, rules, unrestored>>
      BY Zenon, <1>7 DEF Rejected
    <2>3. /\ KTyped' /\ PhaseFits' /\ LinesFit' /\ IdsInOrder' /\ EndIsClean'
          /\ op'.kind = "restore" /\ Settling(rules)'
      <3>1. CASE rules = NoRules
        <4>1. /\ KTyped' /\ PhaseFits' /\ LinesFit' /\ IdsInOrder' /\ EndIsClean'
              /\ op'.kind = "restore" /\ Queued' /\ inbox'[Len(inbox')].cmd = "stop"
          BY Zenon, <1>2, <1>6, <2>1, <2>2, <3>1 DEF Commands
        <4>2. (Queued /\ AsksFor(inbox[Len(inbox)], rules))'
          BY Zenon, <2>1, <2>2, <3>1, <4>1 DEF AsksFor
        <4> QED BY Zenon, <4>1, <4>2 DEF Settling
      <3>2. CASE rules # NoRules
        <4>1. /\ KTyped' /\ PhaseFits' /\ LinesFit' /\ IdsInOrder' /\ EndIsClean'
              /\ op'.kind = "restore" /\ Queued' /\ inbox'[Len(inbox')].cmd = "start"
              /\ inbox'[Len(inbox')].req = capture_request(rules)
          BY Zenon, <1>2, <1>3, <1>6, <2>1, <2>2, <3>2 DEF Commands
        <4>2. (Queued /\ AsksFor(inbox[Len(inbox)], rules))'
          BY Zenon, <1>3, <2>2, <4>1 DEF AsksFor
        <4> QED BY Zenon, <4>1, <4>2 DEF Settling
      <3> QED BY Zenon, <3>1, <3>2
    <2>4. OpFollowed'
      BY Zenon, <2>3 DEF OpFollowed
    <2> QED BY Zenon, <1>4, <2>3, <2>4 DEF CaptureInv
  <1>8. CASE op.kind = "direct"
    <2>1. phase = "connected"
      BY Zenon, <1>1, <1>8 DEF PhaseFits
    <2>2. request("restore", "direct", NoRequest, rules) /\ UNCHANGED <<phase, rules, unrestored>>
      BY Zenon, <1>8 DEF Rejected
    <2>3. /\ KTyped' /\ PhaseFits' /\ LinesFit' /\ IdsInOrder' /\ EndIsClean'
          /\ op'.kind = "restore"
          /\ Harmless([cmd |-> "direct"]) /\ (\A i \in DOMAIN inbox : Harmless(inbox[i])) =>
               \A i \in DOMAIN inbox' : Harmless(inbox'[i])
      BY Zenon, <1>2, <1>6, <2>1, <2>2 DEF Commands
    <2>4. ~unrestored => Sound
      BY Zenon, <1>1, <1>8, <2>1 DEF OpFollowed
    <2>5. Harmless([cmd |-> "direct"])
      BY Zenon DEF Harmless
    <2>6. Sound => Sound'
      BY Zenon, <2>2, <2>3, <2>5, UntouchedCap DEF Sound
    <2>7. OpFollowed'
      BY Zenon, <2>2, <2>3, <2>4, <2>6 DEF OpFollowed
    <2> QED BY Zenon, <1>4, <2>3, <2>7 DEF CaptureInv
  <1>9. CASE op.kind = "first"
    <2>1. request("end", "end", NoRequest, rules) /\ UNCHANGED <<phase, rules, unrestored>>
      BY Zenon, <1>9 DEF Rejected
    <2>2. /\ KTyped' /\ PhaseFits' /\ LinesFit' /\ IdsInOrder' /\ EndIsClean'
          /\ op'.kind = "end" /\ Queued' /\ inbox'[Len(inbox')].cmd = "end"
      BY Zenon, <1>2, <1>6, <2>1 DEF Commands
    <2>3. OpFollowed'
      BY Zenon, <2>2 DEF OpFollowed
    <2> QED BY Zenon, <1>4, <2>2, <2>3 DEF CaptureInv
  <1>10. CASE op.kind \in {"restore", "pause"}
    <2>1. /\ unrestored' = TRUE /\ op' = Waiting /\ UNCHANGED <<phase, rules, inbox, nextId>>
      BY Zenon, <1>10 DEF Rejected, Release
    <2>2. phase = "connected" /\ (setup.mode = "all" => rules = NoRules)
      BY <1>1, <1>10 DEF PhaseFits
    <2> QED BY Zenon, <1>2, <2>1, <2>2, ReleaseStep
  <1>11. CASE op.kind = "foreign"
    <2>1. /\ op' = Waiting /\ UNCHANGED <<phase, rules, inbox, nextId, unrestored>>
      BY <1>11 DEF Rejected, Release
    <2>2. phase = "connected" /\ (setup.mode = "all" => rules = NoRules)
      BY <1>1, <1>11 DEF PhaseFits
    <2>3. ~unrestored => Sound
      BY Zenon, <1>1, <1>11, <2>2 DEF OpFollowed
    <2> QED BY <1>2, <2>1, <2>2, <2>3, ReleaseStep DEF Sound
  <1>12. CASE op.kind = "end"
    <2>1. /\ phase' = "killed" /\ op' = Waiting /\ UNCHANGED <<rules, inbox, nextId, unrestored>>
      BY Zenon, <1>12 DEF Rejected, Release
    <2>2. setup.mode = "all" => rules = NoRules
      BY Zenon, <1>1 DEF PhaseFits
    <2> QED BY Zenon, <1>2, <2>1, <2>2, ReleaseStep
  <1> QED BY Zenon, <1>2, <1>7, <1>8, <1>9, <1>10, <1>11, <1>12 DEF OpKinds

(* A request answered.                                                     *)
LEMMA SucceededStep ==
    ASSUME CaptureInv, op # Waiting, outbox # << >>, ~(Head(outbox).id < op.id), Head(outbox).ok,
           Succeeded, outbox' = Tail(outbox),
           UNCHANGED <<setup, foreign, cap, ruleEdits, timeouts, failures, reopenLost>>
    PROVE  CaptureInv'
  <1>1. KTyped /\ IdsInOrder /\ LinesFit /\ PhaseFits /\ OpFollowed /\ Reads
    BY Zenon DEF CaptureInv, Reads
  <1>2. /\ op.kind \in OpKinds \ {"none"} /\ op.want \in Rules /\ rules \in Rules
        /\ timeouts' \in Nat /\ unrestored \in BOOLEAN
    BY Zenon, <1>1 DEF KTyped, PhaseFits
  <1>3. ASSUME NEW w, Settling(w)
        PROVE  inbox = << >> /\ Serves(cap, w)
    <2>1. Queued \/ Replied
      BY Zenon, <1>3 DEF Settling
    <2>2. Replied /\ outbox[Len(outbox)] = Head(outbox)
      BY Zenon, <1>1, <1>2, <2>1, AnswerIsTheLast
    <2>3. ~Queued
      BY Zenon, <2>2 DEF Queued, Replied
    <2> QED BY Zenon, <1>3, <2>2, <2>3 DEF Settling, Replied
  <1>4. CASE op.kind \in {"first", "edit", "pause"}
    <2>1. /\ rules' = op.want /\ unrestored' = FALSE /\ op' = Waiting /\ UNCHANGED <<inbox, nextId>>
          /\ phase' = IF phase = "starting" THEN "connected" ELSE phase
      BY Zenon, <1>4 DEF Succeeded, Confirmed, Release
    <2>2. phase' = "connected" /\ (setup.mode = "all" => rules' = NoRules)
      BY <1>1, <1>4, <2>1 DEF PhaseFits
    <2>3. inbox = << >> /\ Serves(cap, rules')
      BY Zenon, <1>1, <1>3, <1>4, <2>1 DEF OpFollowed
    <2>4. \A i \in DOMAIN inbox : Harmless(inbox[i])
      BY <2>3
    <2> QED BY Zenon, <1>1, <1>2, <2>1, <2>2, <2>3, <2>4, ReleaseStep
  <1>5. CASE op.kind \in {"direct", "foreign", "restore"}
    <2>1. op' = Waiting /\ UNCHANGED <<phase, rules, inbox, nextId, unrestored>>
      BY Zenon, <1>5 DEF Succeeded, Release
    <2>2. phase = "connected" /\ (setup.mode = "all" => rules = NoRules)
      BY <1>1, <1>5 DEF PhaseFits
    <2>3. Settling(rules) => Sound
      BY <1>3 DEF Sound
    <2>4. ~unrestored => Sound
      BY <1>1, <1>5, <2>2, <2>3 DEF OpFollowed
    <2> QED BY Zenon, <1>1, <1>2, <2>1, <2>2, <2>4, ReleaseStep DEF Sound
  <1>6. CASE op.kind = "end"
    <2>1. phase' = "ended" /\ op' = Waiting /\ UNCHANGED <<rules, inbox, nextId, unrestored>>
      BY Zenon, <1>6 DEF Succeeded, Release
    <2>2. Queued \/ Replied
      BY Zenon, <1>1, <1>6 DEF OpFollowed
    <2>3. Replied /\ ~Queued
      BY Zenon, <1>1, <1>2, <2>2, AnswerIsTheLast DEF Queued, Replied
    <2>4. Clean(cap)
      BY Zenon, <1>1, <1>6, <2>3 DEF OpFollowed
    <2>5. setup.mode = "all" => rules = NoRules
      BY Zenon, <1>1 DEF PhaseFits
    <2> QED BY <1>1, <1>2, <2>1, <2>4, <2>5, ReleaseStep
  <1> QED BY Zenon, <1>2, <1>4, <1>5, <1>6 DEF OpKinds

(* A reply to a request given up on is skipped.                            *)
LEMMA SkippedStep ==
    ASSUME CaptureInv, outbox # << >>, Head(outbox).id < op.id, outbox' = Tail(outbox),
           UNCHANGED <<setup, foreign, cap, ruleEdits, timeouts, failures, reopenLost, phase, rules,
                       op, inbox, nextId, unrestored>>
    PROVE  CaptureInv'
  <1>1. KTyped /\ IdsInOrder /\ LinesFit /\ PhaseFits /\ OpFollowed /\ Reads /\ EndIsClean
    BY Zenon DEF CaptureInv, Reads
  <1>2. outbox' \in Seq(Answers)
    BY Zenon, <1>1, ReadsFacts
  <1>3. KTyped' /\ PhaseFits'
    BY Zenon, <1>1, <1>2 DEF KTyped, PhaseFits
  <1>4. IdsInOrder' /\ LinesFit'
    BY Zenon, <1>1, KeptOrder
  <1>5. CapOK(cap)' /\ Lost' /\ EndIsClean' /\ \A w : Serves(cap, w)' <=> Serves(cap, w)
    BY Zenon, <1>1, UntouchedCap DEF EndIsClean
  <1>6. Replied => Replied' /\ outbox'[Len(outbox')] = outbox[Len(outbox)]
    <2> SUFFICES ASSUME Replied
                 PROVE  Replied' /\ outbox'[Len(outbox')] = outbox[Len(outbox)]
      BY Zenon
    <2>1. /\ outbox \in Seq(Answers) /\ Len(outbox) \in Nat \ {0} /\ Head(outbox) = outbox[1]
          /\ Len(outbox) > 1 => Tail(outbox) # << >> /\ Tail(outbox)[Len(Tail(outbox))] = outbox[Len(outbox)]
      BY Zenon, <1>1, TailFacts DEF KTyped
    <2>2. Len(outbox) # 1
      <3> SUFFICES ASSUME Len(outbox) = 1 PROVE FALSE
        BY Zenon
      <3>1. Head(outbox).id = op.id /\ op.id \in Nat
        BY Zenon, <1>1, <2>1 DEF Replied, KTyped
      <3> QED BY <3>1
    <2>3. Len(outbox) > 1
      <3>1. Len(outbox) \in Nat \ {0}
        BY Zenon, <2>1
      <3>2. \A n \in Nat \ {0} : n # 1 => n > 1
        OBVIOUS
      <3> QED BY <2>2, <3>1, <3>2, Zenon
    <2> QED BY Zenon, <2>1, <2>3 DEF Replied
  <1>7. Queued => Queued' /\ inbox' = inbox
    BY Zenon DEF Queued
  <1>8. \A w : Settling(w) => Settling(w)'
    BY Zenon, <1>5, <1>6, <1>7 DEF Settling, AsksFor
  <1>9. (Sound => Sound') /\ (Clean(cap) => Clean(cap)')
    BY <1>5 DEF Sound, Clean
  <1>10. OpFollowed'
    <2>1. op.kind \in {"none", "direct", "foreign"} /\ phase = "connected" /\ ~unrestored => Sound'
      BY Zenon, <1>1, <1>9 DEF OpFollowed
    <2>2. op.kind \in {"first", "edit", "pause"} => Settling(op.want)'
      BY Zenon, <1>1, <1>8 DEF OpFollowed
    <2>3. op.kind = "restore" /\ ~unrestored => Sound' \/ Settling(rules)'
      BY Zenon, <1>1, <1>8, <1>9 DEF OpFollowed
    <2>4. op.kind = "end" => (Queued' /\ inbox'[Len(inbox')].cmd = "end") \/ (Replied' /\ Clean(cap)')
      BY Zenon, <1>1, <1>6, <1>7, <1>9 DEF OpFollowed
    <2> QED BY Zenon, <2>1, <2>2, <2>3, <2>4 DEF OpFollowed
  <1> QED BY Zenon, <1>3, <1>4, <1>5, <1>10 DEF CaptureInv

LEMMA AnswerStep ==
    ASSUME CaptureInv, await_response \/ request_timeout
    PROVE  CaptureInv'
  <1>1. CASE await_response
    <2>1. /\ op # Waiting /\ outbox # << >> /\ outbox' = Tail(outbox) /\ Answered(Head(outbox))
          /\ UNCHANGED <<setup, foreign, cap, ruleEdits, timeouts, failures, reopenLost>>
      BY Zenon, <1>1 DEF await_response
    <2>2. Reads /\ timeouts' \in Nat
      BY Zenon, <2>1 DEF Reads, CaptureInv, KTyped
    <2>3. CASE Head(outbox).id < op.id
      BY Zenon, <2>1, <2>3, SkippedStep DEF Answered
    <2>4. CASE ~(Head(outbox).id < op.id) /\ Head(outbox).ok
      BY Zenon, <2>1, <2>4, SucceededStep DEF Answered
    <2>5. CASE ~(Head(outbox).id < op.id) /\ ~Head(outbox).ok
      BY Zenon, <2>1, <2>2, <2>5, RejectedStep DEF Answered
    <2> QED BY Zenon, <2>3, <2>4, <2>5
  <1>2. CASE request_timeout
    BY <1>2, RejectedStep DEF request_timeout, Reads, CaptureInv, KTyped
  <1> QED BY Zenon, <1>1, <1>2

(* One line of the pipe moves to the other end.                            *)
LEMMA PipeFacts ==
    ASSUME KTyped, IdsInOrder, LinesFit, inbox # << >>, NEW ok \in BOOLEAN,
           outbox' = Append(outbox, [id |-> Head(inbox).id, ok |-> ok]), inbox' = Tail(inbox),
           UNCHANGED <<setup, op, nextId>>
    PROVE  /\ inbox' \in Seq(Lines) /\ outbox' \in Seq(Answers)
           /\ IdsInOrder' /\ LinesFit'
           /\ (\A i \in DOMAIN inbox : Harmless(inbox[i])) =>
                Harmless(Head(inbox)) /\ \A i \in DOMAIN inbox' : Harmless(inbox'[i])
           /\ Len(inbox) # 1 => inbox' # << >> /\ inbox'[Len(inbox')] = inbox[Len(inbox)]
           /\ Len(inbox) = 1 =>
                /\ inbox' = << >> /\ outbox' # << >> /\ Head(inbox) = inbox[Len(inbox)]
                /\ outbox'[Len(outbox')] = [id |-> Head(inbox).id, ok |-> ok]
  <1> DEFINE e == [id |-> Head(inbox).id, ok |-> ok]
             n == Len(outbox) + 1
             t == Tail(inbox)
             o == Append(outbox, e)
  <1>1. /\ inbox \in Seq(Lines) /\ outbox \in Seq(Answers) /\ nextId \in Nat
    BY DEF KTyped
  <1>2. /\ t \in Seq(Lines) /\ Len(inbox) \in Nat \ {0} /\ Len(t) = Len(inbox) - 1
        /\ Head(inbox) = inbox[1] /\ Head(inbox) \in Lines
        /\ DOMAIN t = 1..(Len(inbox) - 1) /\ DOMAIN inbox = 1..Len(inbox)
        /\ \A i \in DOMAIN t : t[i] = inbox[i + 1]
        /\ Len(inbox) = 1 => t = << >>
        /\ Len(inbox) > 1 => t # << >> /\ t[Len(t)] = inbox[Len(inbox)]
    BY Zenon, <1>1, TailFacts
  <1>3. e \in Answers /\ e.id = inbox[1].id /\ e.id \in Nat /\ 1 \in DOMAIN inbox
    BY <1>2 DEF Answers, Lines
  <1> HIDE DEF e, t
  <1>4. /\ o \in Seq(Answers) /\ Len(o) = n /\ DOMAIN o = 1..n /\ DOMAIN outbox = 1..Len(outbox)
        /\ Len(outbox) \in Nat /\ o # << >> /\ o[n] = e
        /\ \A i \in DOMAIN outbox : o[i] = outbox[i]
    BY <1>1, <1>3, AppendFacts
  <1> HIDE DEF o
  <1>5. inbox' = t /\ outbox' = o
    BY Zenon DEF t, o, e
  <1>6. \A i \in DOMAIN t : i + 1 \in DOMAIN inbox /\ 1 < i + 1
    BY <1>2
  <1>7. \A i \in DOMAIN o : i = n \/ i \in DOMAIN outbox
    BY <1>4
  <1>8. \A i, j \in DOMAIN t : i < j => t[i].id < t[j].id
    <2> SUFFICES ASSUME NEW i \in DOMAIN t, NEW j \in DOMAIN t, i < j
                 PROVE  t[i].id < t[j].id
      BY Zenon
    <2>1. i + 1 \in DOMAIN inbox /\ j + 1 \in DOMAIN inbox /\ i + 1 < j + 1
      BY <1>2, <1>6
    <2> QED BY Zenon, <1>2, <2>1 DEF IdsInOrder
  <1>9. \A i, j \in DOMAIN o : i < j => o[i].id < o[j].id
    <2> SUFFICES ASSUME NEW i \in DOMAIN o, NEW j \in DOMAIN o, i < j
                 PROVE  o[i].id < o[j].id
      OBVIOUS
    <2>1. i \in DOMAIN outbox
      BY <1>4
    <2>2. CASE j = n
      BY Zenon, <1>3, <1>4, <2>1, <2>2 DEF IdsInOrder
    <2>3. CASE j \in DOMAIN outbox
      BY Zenon, <1>4, <2>1, <2>3 DEF IdsInOrder
    <2> QED BY Zenon, <1>7, <2>2, <2>3
  <1>10. \A i \in DOMAIN o, j \in DOMAIN t : o[i].id < t[j].id
    <2> SUFFICES ASSUME NEW i \in DOMAIN o, NEW j \in DOMAIN t
                 PROVE  o[i].id < t[j].id
      BY Zenon
    <2>1. j + 1 \in DOMAIN inbox /\ 1 < j + 1 /\ t[j] = inbox[j + 1]
      BY Zenon, <1>2, <1>6
    <2>2. CASE i = n
      BY Zenon, <1>3, <1>4, <2>1, <2>2 DEF IdsInOrder
    <2>3. CASE i \in DOMAIN outbox
      BY Zenon, <1>4, <2>1, <2>3 DEF IdsInOrder
    <2> QED BY Zenon, <1>7, <2>2, <2>3
  <1>11. /\ \A i \in DOMAIN t : t[i].id < nextId
         /\ \A i \in DOMAIN o : o[i].id < nextId
    <2>1. \A i \in DOMAIN t : t[i].id < nextId
      BY Zenon, <1>2, <1>6 DEF IdsInOrder
    <2>2. \A i \in DOMAIN o : o[i].id < nextId
      BY Zenon, <1>3, <1>4, <1>7 DEF IdsInOrder
    <2> QED BY Zenon, <2>1, <2>2
  <1>12. IdsInOrder'
    <2>1. op.kind # "none" => nextId = op.id + 1
      BY Zenon DEF IdsInOrder
    <2> QED BY Zenon, <1>5, <1>8, <1>9, <1>10, <1>11, <2>1 DEF IdsInOrder
  <1>13. LinesFit'
    BY <1>2, <1>5, <1>6 DEF LinesFit, LineFits
  <1>14. (\A i \in DOMAIN inbox : Harmless(inbox[i])) =>
           Harmless(Head(inbox)) /\ \A i \in DOMAIN inbox' : Harmless(inbox'[i])
    BY Zenon, <1>2, <1>3, <1>5, <1>6
  <1>15. Len(inbox) # 1 => inbox' # << >> /\ inbox'[Len(inbox')] = inbox[Len(inbox)]
    <2>1. Len(inbox) # 1 => Len(inbox) > 1
      BY <1>2
    <2> QED BY Zenon, <1>2, <1>5, <2>1
  <1>16. Len(inbox) = 1 =>
           /\ inbox' = << >> /\ outbox' # << >> /\ Head(inbox) = inbox[Len(inbox)]
           /\ outbox'[Len(outbox')] = [id |-> Head(inbox).id, ok |-> ok]
    BY Zenon, <1>2, <1>4, <1>5 DEF e
  <1> QED BY Zenon, <1>2, <1>4, <1>5, <1>12, <1>13, <1>14, <1>15, <1>16

LEMMA EngineStep ==
    ASSUME CaptureInv, EngineHandles
    PROVE  CaptureInv'
  <1>1. KTyped /\ IdsInOrder /\ LinesFit /\ PhaseFits /\ OpFollowed /\ EndIsClean /\ CapOK(cap) /\ Lost
    BY Zenon DEF CaptureInv
  <1> DEFINE m == Head(inbox)
  <1>2. PICK at \in Points :
          /\ failures' = IF at = "none" THEN failures ELSE failures + 1
          /\ cap' = handle_request(cap, m, at).cap
          /\ reopenLost' = (/\ ~handle_request(cap, m, at).cap.split.up
                            /\ \/ reopenLost
                               \/ cap.split.up /\ m.cmd \in {"foreign", "direct"})
          /\ outbox' = Append(outbox, [id |-> m.id, ok |-> handle_request(cap, m, at).ok])
    BY Zenon DEF EngineHandles
  <1>3. /\ inbox # << >> /\ phase \notin {"ended", "killed"} /\ inbox' = Tail(inbox)
        /\ UNCHANGED <<setup, phase, rules, foreign, op, nextId, ruleEdits, timeouts, unrestored>>
    BY Zenon DEF EngineHandles
  <1> DEFINE r == handle_request(cap, m, at)
  <1>4. m \in Lines /\ LineFits(m) /\ m = inbox[1] /\ Len(inbox) \in Nat \ {0}
    <2>1. inbox \in Seq(Lines)
      BY Zenon, <1>1 DEF KTyped
    <2>2. m \in Lines /\ m = inbox[1] /\ Len(inbox) \in Nat \ {0} /\ 1 \in DOMAIN inbox
      BY Zenon, <1>3, <2>1, TailFacts, EmptyFacts
    <2>3. LineFits(m)
      BY Zenon, <1>1, <2>2 DEF LinesFit
    <2> QED BY Zenon, <2>2, <2>3
  <1>5. /\ CapOK(r.cap) /\ r.ok \in BOOLEAN
        /\ \A w : AsksFor(m, w) /\ r.ok => Serves(r.cap, w)
        /\ Harmless(m) => KeepsRules(cap, r)
        /\ m.cmd = "end" => Clean(r.cap)
    BY Zenon, <1>1, <1>4, HandleFacts DEF KTyped
  <1>6. /\ cap' = r.cap /\ outbox' = Append(outbox, [id |-> m.id, ok |-> r.ok])
        /\ reopenLost' = (~r.cap.split.up /\ (reopenLost \/ (cap.split.up /\ m.cmd \in {"foreign", "direct"})))
    BY Zenon, <1>2
  <1> HIDE DEF m, r
  <1>7. /\ inbox' \in Seq(Lines) /\ outbox' \in Seq(Answers)
        /\ IdsInOrder' /\ LinesFit'
        /\ (\A i \in DOMAIN inbox : Harmless(inbox[i])) =>
             Harmless(m) /\ \A i \in DOMAIN inbox' : Harmless(inbox'[i])
        /\ Len(inbox) # 1 => inbox' # << >> /\ inbox'[Len(inbox')] = inbox[Len(inbox)]
        /\ Len(inbox) = 1 =>
             /\ inbox' = << >> /\ outbox' # << >> /\ m = inbox[Len(inbox)]
             /\ outbox'[Len(outbox')] = [id |-> m.id, ok |-> r.ok]
    BY Zenon, <1>1, <1>3, <1>5, <1>6, PipeFacts DEF m
  <1>8. KTyped'
    <2>1. failures' \in Nat
      BY <1>1, <1>2 DEF KTyped
    <2>2. reopenLost' \in BOOLEAN
      BY Zenon, <1>6
    <2> QED BY Zenon, <1>1, <1>3, <1>7, <2>1, <2>2 DEF KTyped
  <1>9. PhaseFits' /\ EndIsClean'
    BY Zenon, <1>1, <1>3 DEF PhaseFits, EndIsClean
  <1>10. CapOK(cap)' /\ Lost'
    <2>1. CapOK(cap)'
      BY Zenon, <1>3, <1>5, <1>6 DEF CapOK, RowsOwned, Rows, GuardHeld, OneBackend
    <2> QED BY Zenon, <1>6, <2>1 DEF Lost
  <1>11. \A w : Serves(cap, w)' <=> Serves(r.cap, w)
    BY Zenon, <1>3, <1>6 DEF Serves
  <1>12. Sound => Sound'
    <2> SUFFICES ASSUME Sound PROVE Sound'
      BY Zenon
    <2>1. Harmless(m) /\ \A i \in DOMAIN inbox' : Harmless(inbox'[i])
      BY Zenon, <1>7 DEF Sound
    <2>2. KeepsRules(cap, r) /\ m.cmd \in {"foreign", "direct"}
      BY Zenon, <1>5, <2>1 DEF Harmless
    <2>3. CASE Serves(cap, rules)
      <3>1. Serves(r.cap, rules) \/ (cap.split.up /\ ~r.cap.split.up)
        BY Zenon, <1>1, <2>2, <2>3, ServesStill DEF KTyped
      <3>2. Serves(cap, rules)' \/ reopenLost'
        BY Zenon, <1>3, <1>6, <1>11, <2>2, <3>1
      <3> QED BY Zenon, <2>1, <3>2 DEF Sound
    <2>4. CASE reopenLost
      <3>1. ~cap.split.up
        BY Zenon, <1>1, <2>4 DEF Lost
      <3>2. ~r.cap.split.up
        BY Zenon, <2>2, <3>1 DEF KeepsRules
      <3> QED BY Zenon, <1>6, <2>1, <2>4, <3>2 DEF Sound
    <2> QED BY Zenon, <2>3, <2>4 DEF Sound
  <1>13. Queued => \/ Queued' /\ inbox'[Len(inbox')] = inbox[Len(inbox)]
                   \/ /\ Replied' /\ outbox'[Len(outbox')] = [id |-> m.id, ok |-> r.ok]
                      /\ m = inbox[Len(inbox)]
    <2> SUFFICES ASSUME Queued
                 PROVE  \/ Queued' /\ inbox'[Len(inbox')] = inbox[Len(inbox)]
                        \/ /\ Replied' /\ outbox'[Len(outbox')] = [id |-> m.id, ok |-> r.ok]
                           /\ m = inbox[Len(inbox)]
      BY Zenon
    <2>1. CASE Len(inbox) # 1
      BY <1>3, <1>7, <2>1 DEF Queued
    <2>2. CASE Len(inbox) = 1
      <3>1. /\ inbox' = << >> /\ outbox' # << >> /\ m = inbox[Len(inbox)]
            /\ outbox'[Len(outbox')] = [id |-> m.id, ok |-> r.ok]
        BY Zenon, <1>7, <2>2
      <3>2. outbox'[Len(outbox')].id = op'.id
        BY <1>3, <3>1 DEF Queued
      <3> QED BY Zenon, <3>1, <3>2 DEF Replied
    <2> QED BY Zenon, <2>1, <2>2
  <1>14. ~Replied
    BY Zenon, <1>3 DEF Replied
  <1>15. ASSUME NEW w, Settling(w)
         PROVE  Queued /\ AsksFor(inbox[Len(inbox)], w) /\
                  \/ Queued' /\ AsksFor(inbox'[Len(inbox')], w)
                  \/ Replied' /\ (outbox'[Len(outbox')].ok => Serves(cap, w)')
    <2>1. Queued /\ AsksFor(inbox[Len(inbox)], w)
      BY Zenon, <1>14, <1>15 DEF Settling
    <2>2. CASE Queued' /\ inbox'[Len(inbox')] = inbox[Len(inbox)]
      BY Zenon, <2>1, <2>2
    <2>3. CASE /\ Replied' /\ outbox'[Len(outbox')] = [id |-> m.id, ok |-> r.ok]
               /\ m = inbox[Len(inbox)]
      <3>1. AsksFor(m, w) /\ outbox'[Len(outbox')].ok = r.ok
        BY <2>1, <2>3
      <3> QED BY Zenon, <1>5, <1>11, <2>1, <2>3, <3>1
    <2> QED BY Zenon, <1>13, <2>1, <2>2, <2>3
  <1>16. \A w : Settling(w) => Settling(w)'
    <2>1. setup' = setup
      BY Zenon, <1>3
    <2> QED BY Zenon, <1>15, <2>1 DEF Settling, AsksFor
  <1>17. OpFollowed'
    <2>1. op.kind \in {"none", "direct", "foreign"} /\ phase = "connected" /\ ~unrestored => Sound'
      BY Zenon, <1>1, <1>12 DEF OpFollowed
    <2>2. op.kind \in {"first", "edit", "pause"} => Settling(op.want)'
      BY Zenon, <1>1, <1>3, <1>16 DEF OpFollowed
    <2>3. op.kind = "restore" /\ ~unrestored => Sound' \/ Settling(rules)'
      BY Zenon, <1>1, <1>3, <1>12, <1>16 DEF OpFollowed
    <2>4. op.kind = "end" => (Queued' /\ inbox'[Len(inbox')].cmd = "end") \/ (Replied' /\ Clean(cap)')
      <3> SUFFICES ASSUME op.kind = "end"
                   PROVE  (Queued' /\ inbox'[Len(inbox')].cmd = "end") \/ (Replied' /\ Clean(cap)')
        BY Zenon
      <3>1. Queued /\ inbox[Len(inbox)].cmd = "end"
        BY Zenon, <1>1, <1>14 DEF OpFollowed
      <3>2. Clean(r.cap) => Clean(cap)'
        BY Zenon, <1>6 DEF Clean
      <3> QED BY Zenon, <1>5, <1>13, <3>1, <3>2
    <2> QED BY Zenon, <1>3, <2>1, <2>2, <2>3, <2>4 DEF OpFollowed
  <1> QED BY Zenon, <1>7, <1>8, <1>9, <1>10, <1>17 DEF CaptureInv

(* The engine is asked for the first capture, of a machine without routes. *)
LEMMA CaptureInit == KInit => CaptureInv
  <1> SUFFICES ASSUME KInit PROVE CaptureInv
    BY Zenon
  <1> DEFINE line == [id |-> 1, cmd |-> "start", req |-> capture_request(rules)]
  <1>1. /\ setup \in Setups /\ phase = "starting" /\ rules \in Rules /\ foreign \in ForeignSets
        /\ inbox = << line >> /\ op = [kind |-> "first", id |-> 1, want |-> rules]
        /\ outbox = << >> /\ nextId = 2 /\ cap = Cleared
        /\ ruleEdits = 0 /\ timeouts = 0 /\ failures = 0
        /\ unrestored = FALSE /\ reopenLost = FALSE
        /\ (setup.mode = "all" => rules = NoRules)
    BY Zenon DEF KInit, Setups, CaptureModes
  <1>2. /\ capture_request(rules) \in CaptureRequests /\ capture_request(rules).mode = setup.mode
        /\ capture_request(rules).rules = rules
    <2>1. foreign \in SUBSET Everywhere
      BY Zenon, <1>1 DEF Everywhere
    <2> QED BY Zenon, <1>1, <2>1 DEF capture_request, CaptureRequests, Setups
  <1>3. line \in Lines /\ line.id = 1 /\ line.cmd = "start" /\ line.req = capture_request(rules)
    BY Zenon, <1>2 DEF Lines, Commands
  <1> HIDE DEF line
  <1>4. /\ inbox \in Seq(Lines) /\ Len(inbox) = 1 /\ inbox[1] = line /\ DOMAIN inbox = 1..1
        /\ inbox # << >> /\ outbox \in Seq(Answers) /\ DOMAIN outbox = {}
    BY <1>1, <1>3
  <1>5. op.kind = "first" /\ op.id = 1 /\ op.want = rules /\ op \in [kind : OpKinds, id : Nat, want : Rules]
    BY Zenon, <1>1 DEF OpKinds
  <1>6. KTyped
    BY Zenon, <1>1, <1>4, <1>5 DEF KTyped
  <1>7. PhaseFits
    BY <1>1, <1>5 DEF PhaseFits
  <1>8. LinesFit
    BY <1>2, <1>3, <1>4 DEF LinesFit, LineFits
  <1>9. IdsInOrder
    <2>1. \A i \in DOMAIN inbox : i = 1 /\ inbox[i].id = 1
      BY <1>3, <1>4
    <2>2. \A i, j \in DOMAIN inbox : i < j => inbox[i].id < inbox[j].id
      BY Zenon, <2>1
    <2>3. \A i \in DOMAIN inbox : inbox[i].id < nextId
      BY <1>1, <2>1
    <2>4. nextId = op.id + 1
      BY <1>1, <1>5
    <2>5. DOMAIN outbox = {}
      BY Zenon, <1>4
    <2> QED BY Zenon, <2>2, <2>3, <2>4, <2>5 DEF IdsInOrder
  <1>10. Bare(cap) /\ cap.last = NoRequest
    BY Zenon, <1>1, ConstantsFit DEF Cleared, Bare, Managers
  <1>11. CapOK(cap) /\ Lost
    BY Zenon, <1>1, <1>10, NothingHeld DEF Lost
  <1>12. OpFollowed
    <2>1. Queued /\ AsksFor(inbox[Len(inbox)], op.want)
      BY Zenon, <1>2, <1>3, <1>4, <1>5 DEF Queued, AsksFor
    <2> QED BY Zenon, <1>5, <2>1 DEF OpFollowed, Settling
  <1> QED BY Zenon, <1>1, <1>6, <1>7, <1>8, <1>9, <1>11, <1>12 DEF CaptureInv, EndIsClean

LEMMA CaptureNext == CaptureInv /\ [KNext]_kVars => CaptureInv'
  <1> SUFFICES ASSUME CaptureInv, [KNext]_kVars PROVE CaptureInv'
    BY Zenon
  <1>1. CASE UNCHANGED kVars
    <2> USE DEF CaptureInv
    <2>1. /\ setup' = setup /\ phase' = phase /\ rules' = rules /\ foreign' = foreign /\ op' = op
          /\ inbox' = inbox /\ outbox' = outbox /\ nextId' = nextId /\ cap' = cap
          /\ ruleEdits' = ruleEdits /\ timeouts' = timeouts /\ failures' = failures
          /\ unrestored' = unrestored /\ reopenLost' = reopenLost
      BY Zenon, <1>1 DEF kVars
    <2>2. KTyped'
      BY Zenon, <2>1 DEF KTyped
    <2>3. CapOK(cap)' /\ Lost'
      BY Zenon, <2>1, UntouchedCap
    <2>4. PhaseFits'
      BY Zenon, <2>1 DEF PhaseFits
    <2>5. LinesFit'
      BY Zenon, <2>1 DEF LinesFit, LineFits
    <2>6. IdsInOrder'
      BY Zenon, <2>1 DEF IdsInOrder
    <2>7. EndIsClean'
      BY Zenon, <2>1 DEF EndIsClean
    <2>8. Queued' = Queued /\ Replied' = Replied
      BY Zenon, <2>1 DEF Queued, Replied
    <2>9. Sound' = Sound /\ \A w : Serves(cap, w)' = Serves(cap, w)
      BY Zenon, <2>1 DEF Sound, Serves
    <2>10. \A w : Settling(w)' = Settling(w)
      BY Zenon, <2>1, <2>8, <2>9 DEF Settling, AsksFor
    <2>11. OpFollowed'
      BY Zenon, <2>1, <2>8, <2>9, <2>10 DEF OpFollowed
    <2> QED BY Zenon, <2>2, <2>3, <2>4, <2>5, <2>6, <2>7, <2>11
  <1>2. CASE KNext
    BY Zenon, <1>2, EngineStep, EditRulesStep, RestStep, AnswerStep DEF KNext
  <1> QED BY Zenon, <1>1, <1>2

(* The invariant says what CaptureFollowsTheRules asks for.                *)
LEMMA CaptureInvSuffices == CaptureInv => CaptureFollowsTheRules
  <1> SUFFICES ASSUME CaptureInv PROVE CaptureFollowsTheRules
    BY Zenon
  <1>1. KTyped /\ IdsInOrder /\ CapOK(cap) /\ EndIsClean /\ OpFollowed
    BY Zenon DEF CaptureInv
  <1>2. cap \in Managers
    BY Zenon, <1>1 DEF CapOK
  <1>3. KTypeOK
    <2>1. cap.guard \in {"none", "v6", "adapter"}
      BY Zenon, <1>2, ManagerFields
    <2>2. op.kind \in OpKinds
      BY Zenon, <1>1 DEF KTyped
    <2>3. \A n \in {ruleEdits, timeouts, failures} : n \in Nat
      BY Zenon, <1>1 DEF KTyped
    <2> QED BY Zenon, <1>1, <2>1, <2>2, <2>3 DEF KTypeOK, KTyped, IdsInOrder, OpKinds
  <1>4. phase = "ended" => [cap EXCEPT !.last = NoRequest] = Cleared
    <2> SUFFICES ASSUME phase = "ended" PROVE [cap EXCEPT !.last = NoRequest] = Cleared
      BY Zenon
    <2>1. Clean(cap)
      BY Zenon, <1>1 DEF EndIsClean
    <2> QED BY <1>2, <2>1 DEF Clean, Cleared, Managers
  <1>5. RoutesAreOwned
    <2>1. cap.rows \subseteq Owned /\ Owned \ Shared \subseteq cap.rows
      BY Zenon, <1>1 DEF CapOK, RowsOwned, Rows, Owned
    <2>2. cap.split.up \/ cap.active.up => (cap.guard # "none") = setup.remote
      BY Zenon, <1>1 DEF CapOK, GuardHeld
    <2>3. cap.active.up => cap.active.dns = setup.remote /\ ~cap.split.up
      BY Zenon, <1>1 DEF CapOK, OneBackend
    <2> QED BY Zenon, <1>4, <2>1, <2>2, <2>3 DEF RoutesAreOwned
  <1>6. Quiet /\ ~unrestored /\ ~reopenLost => Serving
    <2> SUFFICES ASSUME Quiet, ~unrestored, ~reopenLost PROVE Serving
      BY Zenon
    <2>1. op.kind = "none" /\ phase = "connected"
      BY Zenon DEF Quiet, Idle0, Waiting
    <2>2. Serves(cap, rules)
      BY Zenon, <1>1, <2>1 DEF OpFollowed, Sound
    <2> QED BY Zenon, <1>1, <2>2 DEF Serves, Serving, KTyped, Setups, CaptureModes
  <1> QED BY Zenon, <1>3, <1>5, <1>6 DEF CaptureFollowsTheRules

(* For any rule sets and addresses and any number of edits, timeouts and   *)
(* failures, late replies and lines carried out late included: whenever    *)
(* nothing of a session is under way the engine captures the rules the     *)
(* service last confirmed, unless a restore was reported failed or a       *)
(* reopened capture was lost; and Windows holds the rows, resolvers and    *)
(* guard of the capture that runs and no others (update_session_rules,     *)
(* await_response, PacketCaptureManager).                                  *)
THEOREM CaptureAlwaysFollowsTheRules == KSpec => []CaptureFollowsTheRules
  <1>1. KInit => CaptureInv
    BY Zenon, CaptureInit
  <1>2. CaptureInv /\ [KNext]_kVars => CaptureInv'
    BY Zenon, CaptureNext
  <1>3. CaptureInv => CaptureFollowsTheRules
    BY CaptureInvSuffices
  <1> QED BY <1>1, <1>2, <1>3, PTL DEF KSpec
=============================================================================
