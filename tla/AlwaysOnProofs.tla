--------------------------- MODULE AlwaysOnProofs ----------------------------
(***************************************************************************)
(* What has to hold for as long as a session or the service runs: the      *)
(* redial logic of a session's paths, and the service's two slots.         *)
(***************************************************************************)
EXTENDS PathRecovery, ServiceSlots, TLAPS

(***************************************************************************)
(* The invariant of the redial logic holds for any set of paths, any       *)
(* thresholds and any number of faults.                                    *)
(***************************************************************************)

(* Nothing is healthy, dead, dialled or taken when the session starts.     *)
LEMMA InitInv == Init => Inv
BY RecoveryAssumption, SMT
   DEF Init, Inv, TypeOK, ProbeTypes, DialTypes, SharedTypes, EnvTypes, MaskExact,
       DeadPathHasAPlan, OneDialPerNode, SlotOwnsThread, CheapOncePerOutage, Running,
       NoDial, DialStates, Phases

(* Every step of a worker, a dial thread, the monitor and the environment  *)
(* preserves the invariant.                                                *)
LEMMA NextKeepsInv == Inv /\ [Next]_vars => Inv'
<1> SUFFICES ASSUME Inv, [Next]_vars PROVE Inv'
  OBVIOUS
<1> USE DEF worker, redial, shared, env
<1>a. ProbeTypes /\ DialTypes /\ SharedTypes /\ EnvTypes
  BY DEF Inv, TypeOK
<1>b. MaskExact /\ DeadPathHasAPlan /\ OneDialPerNode /\ SlotOwnsThread /\ CheapOncePerOutage
  BY DEF Inv
<1>c. THRESHOLD \in Nat /\ THRESHOLD >= 2 /\ FAILURES_BEFORE_DOWN \in Nat /\ MaxFaults \in Nat
  BY RecoveryAssumption
<1>1. ASSUME NEW p \in Paths, DialInstalled(p)
      PROVE  Inv'
  <2>1. ProbeTypes'
    BY <1>1, <1>a, <1>c DEF ProbeTypes, DialInstalled, publish_path_health, NoDial
  <2>2. DialTypes'
    BY <1>1, <1>a DEF DialTypes, DialStates, Phases, DialInstalled, publish_path_health, NoDial
  <2>3. SharedTypes'
    BY Zenon, <1>1, <1>a, <1>c DEF SharedTypes, DialInstalled, publish_path_health, NoDial
  <2>4. EnvTypes'
    BY Zenon, <1>1, <1>a, <1>c DEF EnvTypes, Fault, Excused, DialInstalled, publish_path_health, NoDial
  <2>5. MaskExact'
    BY Zenon, <1>1, <1>a, <1>b, <1>c DEF ProbeTypes, MaskExact, DialInstalled, publish_path_health, NoDial
  <2>6. DeadPathHasAPlan'
    BY <1>1, <1>a, <1>b, <1>c DEF ProbeTypes, DialTypes, DialStates, DeadPathHasAPlan, DialInstalled, publish_path_health, NoDial
  <2>7. OneDialPerNode' /\ SlotOwnsThread'
    BY Zenon, <1>1, <1>a, <1>b DEF DialTypes, DialStates, Phases, Running, OneDialPerNode, SlotOwnsThread, DialInstalled, publish_path_health, NoDial
  <2>8. CheapOncePerOutage'
    BY Zenon, <1>1, <1>a, <1>b DEF DialTypes, CheapOncePerOutage, DialInstalled, publish_path_health, NoDial
  <2> QED
    BY Zenon, <2>1, <2>2, <2>3, <2>4, <2>5, <2>6, <2>7, <2>8 DEF Inv, TypeOK
<1>2. ASSUME NEW p \in Paths, DialFailed(p)
      PROVE  Inv'
  <2>1. ProbeTypes'
    BY <1>2, <1>a, <1>c DEF ProbeTypes, DialFailed, NoDial
  <2>2. DialTypes'
    BY <1>2, <1>a DEF DialTypes, DialStates, Phases, DialFailed, NoDial
  <2>3. SharedTypes'
    BY <1>2, <1>a, <1>c DEF SharedTypes, DialFailed, NoDial
  <2>4. EnvTypes'
    BY Zenon, <1>2, <1>a, <1>c DEF EnvTypes, Fault, Excused, DialFailed, NoDial
  <2>5. MaskExact'
    BY Zenon, <1>2, <1>a, <1>b, <1>c DEF ProbeTypes, MaskExact, DialFailed, NoDial
  <2>6. DeadPathHasAPlan'
    BY Zenon, <1>2, <1>a, <1>b, <1>c DEF ProbeTypes, DialTypes, DialStates, DeadPathHasAPlan, DialFailed, NoDial
  <2>7. OneDialPerNode' /\ SlotOwnsThread'
    BY Zenon, <1>2, <1>a, <1>b DEF DialTypes, DialStates, Phases, Running, OneDialPerNode, SlotOwnsThread, DialFailed, NoDial
  <2>8. CheapOncePerOutage'
    BY Zenon, <1>2, <1>a, <1>b DEF DialTypes, CheapOncePerOutage, DialFailed, NoDial
  <2> QED
    BY <2>1, <2>2, <2>3, <2>4, <2>5, <2>6, <2>7, <2>8 DEF Inv, TypeOK
<1>3. ASSUME NEW p \in Paths, DialDiscarded(p)
      PROVE  Inv'
  <2>1. ProbeTypes'
    BY Zenon, <1>3, <1>a, <1>c DEF ProbeTypes, DialDiscarded, NoDial
  <2>2. DialTypes'
    BY Zenon, <1>3, <1>a DEF DialTypes, DialStates, Phases, DialDiscarded, NoDial
  <2>3. SharedTypes'
    BY Zenon, <1>3, <1>a, <1>c DEF SharedTypes, DialDiscarded, NoDial
  <2>4. EnvTypes'
    BY Zenon, <1>3, <1>a, <1>c DEF EnvTypes, Fault, Excused, DialDiscarded, NoDial
  <2>5. MaskExact'
    BY Zenon, <1>3, <1>a, <1>b, <1>c DEF ProbeTypes, MaskExact, DialDiscarded, NoDial
  <2>6. DeadPathHasAPlan'
    BY Zenon, <1>3, <1>a, <1>b, <1>c DEF ProbeTypes, DialTypes, DialStates, DeadPathHasAPlan, DialDiscarded, NoDial
  <2>7. OneDialPerNode' /\ SlotOwnsThread'
    BY Zenon, <1>3, <1>a, <1>b DEF DialTypes, DialStates, Phases, Running, OneDialPerNode, SlotOwnsThread, DialDiscarded, NoDial
  <2>8. CheapOncePerOutage'
    BY Zenon, <1>3, <1>a, <1>b DEF DialTypes, CheapOncePerOutage, DialDiscarded, NoDial
  <2> QED
    BY <2>1, <2>2, <2>3, <2>4, <2>5, <2>6, <2>7, <2>8 DEF Inv, TypeOK
<1>4. ASSUME NEW p \in Paths, ConsiderRedial(p)
      PROVE  Inv'
  <2>1. ProbeTypes'
    BY Zenon, <1>4, <1>a, <1>c DEF ProbeTypes, ConsiderRedial, common_mode_for, NewDial, NoDial
  <2>a. \/ UNCHANGED <<next_redial, dialing, threads>>
        \/ /\ dialing[p].state = "none"
           /\ next_redial' = [next_redial EXCEPT ![p] = FALSE]
           /\ dialing' = [dialing EXCEPT ![p] = NewDial]
           /\ threads' = [threads EXCEPT ![p]["starting"] = @ + 1]
    BY <1>4 DEF ConsiderRedial
  <2>b. UNCHANGED <<failures, cheap_reopen, cheap_taken>>
    BY <1>4 DEF ConsiderRedial
  <2>c. NewDial \in DialStates /\ NewDial.state = "waiting" /\ ~NewDial.superseded
    BY Zenon DEF NewDial, NoDial, DialStates
  <2>d. /\ dialing' \in [Paths -> DialStates]
        /\ \A q \in Paths : dialing'[q] = dialing[q] \/ (q = p /\ dialing'[q] = NewDial)
        /\ dialing'[p] = dialing[p] => UNCHANGED <<next_redial, threads>>
    <3>1. CASE UNCHANGED <<next_redial, dialing, threads>>
      BY <3>1, <1>a DEF DialTypes
    <3>2. CASE /\ dialing[p].state = "none"
               /\ dialing' = [dialing EXCEPT ![p] = NewDial]
      BY <3>2, <2>c, <1>a DEF DialTypes
    <3> QED
      BY <2>a, <3>1, <3>2
  <2>e. threads' \in [Paths -> [Phases -> Nat]]
    BY <2>a, <1>a DEF DialTypes, Phases
  <2>2. DialTypes'
    BY <2>b, <2>d, <2>e, <1>a DEF DialTypes
  <2>3. SharedTypes'
    BY Zenon, <1>4, <1>a, <1>c DEF SharedTypes, ConsiderRedial, common_mode_for, NewDial, NoDial
  <2>4. EnvTypes'
    BY <1>4, <1>a, <1>c DEF EnvTypes, Fault, Excused, ConsiderRedial, common_mode_for, NewDial, NoDial
  <2>5. MaskExact'
    BY Zenon, <1>4, <1>a, <1>b, <1>c DEF ProbeTypes, MaskExact, ConsiderRedial, common_mode_for, NewDial, NoDial
  <2>6. DeadPathHasAPlan'
    <3> SUFFICES ASSUME NEW q \in Paths, failures[q] >= THRESHOLD
                 PROVE  next_redial'[q] \/ (dialing'[q].state # "none" /\ ~dialing'[q].superseded)
      BY <2>b DEF DeadPathHasAPlan
    <3>1. CASE dialing'[q] = NewDial
      BY Zenon, <3>1, <2>c
    <3>2. CASE dialing'[q] = dialing[q] /\ next_redial'[q] = next_redial[q]
      BY Zenon, <3>2, <1>b DEF DeadPathHasAPlan
    <3>3. q # p => next_redial'[q] = next_redial[q]
      BY Zenon, <2>a, <1>a DEF ProbeTypes
    <3> QED
      BY Zenon, <2>d, <3>1, <3>2, <3>3
  <2>7. OneDialPerNode' /\ SlotOwnsThread'
    <3>1. CASE UNCHANGED <<dialing, threads>>
      BY Zenon, <3>1, <1>b DEF OneDialPerNode, SlotOwnsThread, Running
    <3>2. CASE /\ dialing[p].state = "none"
               /\ dialing' = [dialing EXCEPT ![p] = NewDial]
               /\ threads' = [threads EXCEPT ![p]["starting"] = @ + 1]
      <4>1. \A q \in Paths : Running(q) \in Nat
        BY <1>a DEF DialTypes, Phases, Running
      <4>2. /\ Running(p)' = Running(p) + 1
            /\ \A q \in Paths \ {p} : Running(q)' = Running(q)
        BY <3>2, <1>a DEF DialTypes, Phases, Running
      <4>3. Running(p) = 0
        BY <3>2, <4>1, <1>b DEF OneDialPerNode, SlotOwnsThread
      <4>4. /\ dialing'[p].state = "waiting"
            /\ \A q \in Paths \ {p} : dialing'[q] = dialing[q]
        BY Zenon, <3>2, <2>c, <1>a DEF DialTypes
      <4> QED
        BY <4>1, <4>2, <4>3, <4>4, <1>b DEF OneDialPerNode, SlotOwnsThread
    <3> QED
      BY Zenon, <2>a, <3>1, <3>2
  <2>8. CheapOncePerOutage'
    BY Zenon, <1>4, <1>a, <1>b DEF DialTypes, CheapOncePerOutage, ConsiderRedial, common_mode_for, NewDial, NoDial
  <2> QED
    BY <2>1, <2>2, <2>3, <2>4, <2>5, <2>6, <2>7, <2>8 DEF Inv, TypeOK
<1>5. ASSUME NEW p \in Paths, TransportFailed(p)
      PROVE  Inv'
  <2>1. ProbeTypes'
    BY <1>5, <1>a, <1>c DEF ProbeTypes, TransportFailed, Miss, publish_path_health, schedule_redial
  <2>2. DialTypes'
    BY Zenon, <1>5, <1>a DEF DialTypes, DialStates, Phases, TransportFailed, Miss, publish_path_health, schedule_redial
  <2>3. SharedTypes'
    BY Zenon, <1>5, <1>a, <1>c DEF SharedTypes, TransportFailed, Miss, publish_path_health, schedule_redial
  <2>4. EnvTypes'
    BY Zenon, <1>5, <1>a, <1>c DEF EnvTypes, Fault, Excused, TransportFailed, Miss, publish_path_health, schedule_redial
  <2>5. MaskExact'
    BY <1>5, <1>a, <1>b, <1>c DEF ProbeTypes, MaskExact, TransportFailed, Miss, publish_path_health, schedule_redial
  <2>6. DeadPathHasAPlan'
    BY Zenon, <1>5, <1>a, <1>b, <1>c DEF ProbeTypes, DialTypes, DialStates, DeadPathHasAPlan, TransportFailed, Miss, publish_path_health, schedule_redial
  <2>7. OneDialPerNode' /\ SlotOwnsThread'
    BY Zenon, <1>5, <1>a, <1>b DEF DialTypes, DialStates, Phases, Running, OneDialPerNode, SlotOwnsThread, TransportFailed, Miss, publish_path_health, schedule_redial
  <2>8. CheapOncePerOutage'
    BY Zenon, <1>5, <1>a, <1>b DEF DialTypes, CheapOncePerOutage, TransportFailed, Miss, publish_path_health, schedule_redial
  <2> QED
    BY <2>1, <2>2, <2>3, <2>4, <2>5, <2>6, <2>7, <2>8 DEF Inv, TypeOK
<1>6. ASSUME NEW p \in Paths, SendProbe(p)
      PROVE  Inv'
  <2>1. ProbeTypes'
    BY Zenon, <1>6, <1>a, <1>c DEF ProbeTypes, SendProbe
  <2>2. DialTypes'
    BY Zenon, <1>6, <1>a DEF DialTypes, DialStates, Phases, SendProbe
  <2>3. SharedTypes'
    BY Zenon, <1>6, <1>a, <1>c DEF SharedTypes, SendProbe
  <2>4. EnvTypes'
    BY Zenon, <1>6, <1>a, <1>c DEF EnvTypes, Fault, Excused, SendProbe
  <2>5. MaskExact'
    BY Zenon, <1>6, <1>a, <1>b, <1>c DEF ProbeTypes, MaskExact, SendProbe
  <2>6. DeadPathHasAPlan'
    BY Zenon, <1>6, <1>a, <1>b, <1>c DEF ProbeTypes, DialTypes, DialStates, DeadPathHasAPlan, SendProbe
  <2>7. OneDialPerNode' /\ SlotOwnsThread'
    BY Zenon, <1>6, <1>a, <1>b DEF DialTypes, DialStates, Phases, Running, OneDialPerNode, SlotOwnsThread, SendProbe
  <2>8. CheapOncePerOutage'
    BY Zenon, <1>6, <1>a, <1>b DEF DialTypes, CheapOncePerOutage, SendProbe
  <2> QED
    BY <2>1, <2>2, <2>3, <2>4, <2>5, <2>6, <2>7, <2>8 DEF Inv, TypeOK
<1>7. ASSUME NEW p \in Paths, SendProbeFails(p)
      PROVE  Inv'
  <2>1. ProbeTypes'
    <3>1. failures' \in [Paths -> 0..THRESHOLD]
      BY <1>7, <1>a, <1>c DEF ProbeTypes, SendProbeFails, Miss, OneMore
    <3>2. next_redial' \in [Paths -> BOOLEAN]
      BY Zenon, <1>7, <1>a DEF ProbeTypes, SendProbeFails, Miss, schedule_redial
    <3>3. healthy_mask' \subseteq Paths
      BY <1>7, <1>a DEF ProbeTypes, SendProbeFails, Miss, publish_path_health
    <3> QED
      BY Zenon, <1>7, <1>a, <3>1, <3>2, <3>3 DEF ProbeTypes, SendProbeFails
  <2>2. DialTypes'
    BY <1>7, <1>a DEF DialTypes, DialStates, Phases, SendProbeFails, Miss, OneMore, publish_path_health, schedule_redial
  <2>3. SharedTypes'
    BY <1>7, <1>a, <1>c DEF SharedTypes, SendProbeFails, Miss, OneMore, publish_path_health, schedule_redial
  <2>4. EnvTypes'
    BY <1>7, <1>a, <1>c DEF EnvTypes, Fault, Excused, SendProbeFails, Miss, OneMore, publish_path_health, schedule_redial
  <2>5. MaskExact'
    BY <1>7, <1>a, <1>b, <1>c DEF ProbeTypes, MaskExact, SendProbeFails, Miss, OneMore, publish_path_health, schedule_redial
  <2>6. DeadPathHasAPlan'
    BY <1>7, <1>a, <1>b, <1>c DEF ProbeTypes, DialTypes, DialStates, DeadPathHasAPlan, SendProbeFails, Miss, OneMore, publish_path_health, schedule_redial
  <2>7. OneDialPerNode' /\ SlotOwnsThread'
    BY <1>7, <1>a, <1>b DEF DialTypes, DialStates, Phases, Running, OneDialPerNode, SlotOwnsThread, SendProbeFails, Miss, OneMore, publish_path_health, schedule_redial
  <2>8. CheapOncePerOutage'
    BY <1>7, <1>a, <1>b DEF DialTypes, CheapOncePerOutage, SendProbeFails, Miss, OneMore, publish_path_health, schedule_redial
  <2> QED
    BY <2>1, <2>2, <2>3, <2>4, <2>5, <2>6, <2>7, <2>8 DEF Inv, TypeOK
<1>8. ASSUME NEW p \in Paths, ProbeExpires(p)
      PROVE  Inv'
  <2>1. ProbeTypes'
    <3>1. failures' \in [Paths -> 0..THRESHOLD]
      BY <1>8, <1>a, <1>c DEF ProbeTypes, ProbeExpires, Miss, OneMore
    <3>2. next_redial' \in [Paths -> BOOLEAN]
      BY Zenon, <1>8, <1>a DEF ProbeTypes, ProbeExpires, Miss, schedule_redial
    <3>3. healthy_mask' \subseteq Paths
      BY <1>8, <1>a DEF ProbeTypes, ProbeExpires, Miss, publish_path_health
    <3> QED
      BY Zenon, <1>8, <1>a, <3>1, <3>2, <3>3 DEF ProbeTypes, ProbeExpires
  <2>2. DialTypes'
    BY <1>8, <1>a DEF DialTypes, DialStates, Phases, ProbeExpires, Miss, OneMore, publish_path_health, schedule_redial
  <2>3. SharedTypes'
    BY <1>8, <1>a, <1>c DEF SharedTypes, ProbeExpires, Miss, OneMore, publish_path_health, schedule_redial
  <2>4. EnvTypes'
    BY <1>8, <1>a, <1>c DEF EnvTypes, Fault, Excused, ProbeExpires, Miss, OneMore, publish_path_health, schedule_redial
  <2>5. MaskExact'
    BY <1>8, <1>a, <1>b, <1>c DEF ProbeTypes, MaskExact, ProbeExpires, Miss, OneMore, publish_path_health, schedule_redial
  <2>6. DeadPathHasAPlan'
    BY <1>8, <1>a, <1>b, <1>c DEF ProbeTypes, DialTypes, DialStates, DeadPathHasAPlan, ProbeExpires, Miss, OneMore, publish_path_health, schedule_redial
  <2>7. OneDialPerNode' /\ SlotOwnsThread'
    BY Zenon, <1>8, <1>a, <1>b DEF DialTypes, DialStates, Phases, Running, OneDialPerNode, SlotOwnsThread, ProbeExpires, Miss, OneMore, publish_path_health, schedule_redial
  <2>8. CheapOncePerOutage'
    BY Zenon, <1>8, <1>a, <1>b DEF DialTypes, CheapOncePerOutage, ProbeExpires, Miss, OneMore, publish_path_health, schedule_redial
  <2> QED
    BY <2>1, <2>2, <2>3, <2>4, <2>5, <2>6, <2>7, <2>8 DEF Inv, TypeOK
<1>9. ASSUME NEW p \in Paths, Pong(p)
      PROVE  Inv'
  <2>1. ProbeTypes'
    BY <1>9, <1>a, <1>c DEF ProbeTypes, Pong, publish_path_health, recovered
  <2>2. DialTypes'
    BY Zenon, <1>9, <1>a DEF DialTypes, DialStates, Phases, Pong, publish_path_health, recovered
  <2>3. SharedTypes'
    BY <1>9, <1>a, <1>c DEF SharedTypes, Pong, publish_path_health, recovered
  <2>4. EnvTypes'
    BY <1>9, <1>a, <1>c DEF EnvTypes, Fault, Excused, Pong, publish_path_health, recovered
  <2>5. MaskExact'
    BY <1>9, <1>a, <1>b, <1>c DEF ProbeTypes, MaskExact, Pong, publish_path_health, recovered
  <2>6. DeadPathHasAPlan'
    BY <1>9, <1>a, <1>b, <1>c DEF ProbeTypes, DialTypes, DialStates, DeadPathHasAPlan, Pong, publish_path_health, recovered
  <2>7. OneDialPerNode' /\ SlotOwnsThread'
    BY <1>9, <1>a, <1>b DEF DialTypes, DialStates, Phases, Running, OneDialPerNode, SlotOwnsThread, Pong, publish_path_health, recovered
  <2>8. CheapOncePerOutage'
    BY <1>9, <1>a, <1>b DEF DialTypes, CheapOncePerOutage, Pong, publish_path_health, recovered
  <2> QED
    BY <2>1, <2>2, <2>3, <2>4, <2>5, <2>6, <2>7, <2>8 DEF Inv, TypeOK
<1>10. ASSUME NEW p \in Paths, DialThreadStarts(p)
       PROVE  Inv'
  <2>1. ProbeTypes'
    BY <1>10, <1>a, <1>c DEF ProbeTypes, DialThreadStarts, choose_reopen_effort
  <2>2. DialTypes'
    BY <1>10, <1>a DEF DialTypes, DialStates, Phases, DialThreadStarts, choose_reopen_effort
  <2>3. SharedTypes'
    BY <1>10, <1>a, <1>c DEF SharedTypes, DialThreadStarts, choose_reopen_effort
  <2>4. EnvTypes'
    BY <1>10, <1>a, <1>c DEF EnvTypes, Fault, Excused, DialThreadStarts, choose_reopen_effort
  <2>5. MaskExact'
    BY Zenon, <1>10, <1>a, <1>b, <1>c DEF ProbeTypes, MaskExact, DialThreadStarts, choose_reopen_effort
  <2>6. DeadPathHasAPlan'
    BY Zenon, <1>10, <1>a, <1>b, <1>c DEF ProbeTypes, DialTypes, DialStates, DeadPathHasAPlan, DialThreadStarts, choose_reopen_effort
  <2>7. OneDialPerNode' /\ SlotOwnsThread'
    BY <1>10, <1>a, <1>b DEF DialTypes, DialStates, Phases, Running, OneDialPerNode, SlotOwnsThread, DialThreadStarts, choose_reopen_effort
  <2>8. CheapOncePerOutage'
    BY <1>10, <1>a, <1>b DEF DialTypes, CheapOncePerOutage, DialThreadStarts, choose_reopen_effort
  <2> QED
    BY <2>1, <2>2, <2>3, <2>4, <2>5, <2>6, <2>7, <2>8 DEF Inv, TypeOK
<1>11. ASSUME NEW p \in Paths, NEW effort \in {"Cheap", "Full"},
             NEW result \in {"ok", "err"}, NEW intact \in BOOLEAN,
             DialThreadEnds(p, effort, result, intact)
       PROVE  Inv'
  <2>1. ProbeTypes'
    BY Zenon, <1>11, <1>a, <1>c DEF ProbeTypes, DialThreadEnds
  <2>2. DialTypes'
    <3>1. threads' \in [Paths -> [Phases -> Nat]]
      BY <1>11, <1>a DEF DialTypes, Phases, DialThreadEnds
    <3>2. dialing' \in [Paths -> DialStates]
      BY Zenon, <1>11, <1>a DEF DialTypes, DialStates, DialThreadEnds
    <3> QED
      BY Zenon, <1>11, <1>a, <3>1, <3>2 DEF DialTypes, DialThreadEnds
  <2>3. SharedTypes'
    BY <1>11, <1>a, <1>c DEF SharedTypes, DialThreadEnds
  <2>4. EnvTypes'
    BY <1>11, <1>a, <1>c DEF EnvTypes, Fault, Excused, DialThreadEnds
  <2>5. MaskExact'
    BY <1>11, <1>a, <1>b, <1>c DEF ProbeTypes, MaskExact, DialThreadEnds
  <2>6. DeadPathHasAPlan'
    BY <1>11, <1>a, <1>b, <1>c DEF ProbeTypes, DialTypes, DialStates, DeadPathHasAPlan, DialThreadEnds
  <2>7. OneDialPerNode' /\ SlotOwnsThread'
    BY <1>11, <1>a, <1>b DEF DialTypes, DialStates, Phases, Running, OneDialPerNode, SlotOwnsThread, DialThreadEnds
  <2>8. CheapOncePerOutage'
    BY <1>11, <1>a, <1>b DEF DialTypes, CheapOncePerOutage, DialThreadEnds
  <2> QED
    BY Zenon, <2>1, <2>2, <2>3, <2>4, <2>5, <2>6, <2>7, <2>8 DEF Inv, TypeOK
<1>12. ASSUME NEW reply \in BOOLEAN, UplinkProbe(reply)
       PROVE  Inv'
  <2>1. ProbeTypes'
    BY <1>12, <1>a, <1>c DEF ProbeTypes, UplinkProbe, record
  <2>2. DialTypes'
    BY <1>12, <1>a DEF DialTypes, DialStates, Phases, UplinkProbe, record
  <2>3. SharedTypes'
    BY <1>12, <1>a, <1>c DEF SharedTypes, UplinkProbe, record
  <2>4. EnvTypes'
    BY <1>12, <1>a, <1>c DEF EnvTypes, Fault, Excused, UplinkProbe, record
  <2>5. MaskExact'
    BY Zenon, <1>12, <1>a, <1>b, <1>c DEF ProbeTypes, MaskExact, UplinkProbe, record
  <2>6. DeadPathHasAPlan'
    BY Zenon, <1>12, <1>a, <1>b, <1>c DEF ProbeTypes, DialTypes, DialStates, DeadPathHasAPlan, UplinkProbe, record
  <2>7. OneDialPerNode' /\ SlotOwnsThread'
    BY Zenon, <1>12, <1>a, <1>b DEF DialTypes, DialStates, Phases, Running, OneDialPerNode, SlotOwnsThread, UplinkProbe, record
  <2>8. CheapOncePerOutage'
    BY Zenon, <1>12, <1>a, <1>b DEF DialTypes, CheapOncePerOutage, UplinkProbe, record
  <2> QED
    BY <2>1, <2>2, <2>3, <2>4, <2>5, <2>6, <2>7, <2>8 DEF Inv, TypeOK
<1>13. ASSUME WindowPasses
       PROVE  Inv'
  <2>1. ProbeTypes'
    BY Zenon, <1>13, <1>a, <1>c DEF ProbeTypes, WindowPasses
  <2>2. DialTypes'
    BY Zenon, <1>13, <1>a DEF DialTypes, DialStates, Phases, WindowPasses
  <2>3. SharedTypes'
    BY Zenon, <1>13, <1>a, <1>c DEF SharedTypes, WindowPasses
  <2>4. EnvTypes'
    BY Zenon, <1>13, <1>a, <1>c DEF EnvTypes, Fault, Excused, WindowPasses
  <2>5. MaskExact'
    BY Zenon, <1>13, <1>a, <1>b, <1>c DEF ProbeTypes, MaskExact, WindowPasses
  <2>6. DeadPathHasAPlan'
    BY Zenon, <1>13, <1>a, <1>b, <1>c DEF ProbeTypes, DialTypes, DialStates, DeadPathHasAPlan, WindowPasses
  <2>7. OneDialPerNode' /\ SlotOwnsThread'
    BY Zenon, <1>13, <1>a, <1>b DEF DialTypes, DialStates, Phases, Running, OneDialPerNode, SlotOwnsThread, WindowPasses
  <2>8. CheapOncePerOutage'
    BY Zenon, <1>13, <1>a, <1>b DEF DialTypes, CheapOncePerOutage, WindowPasses
  <2> QED
    BY Zenon, <2>1, <2>2, <2>3, <2>4, <2>5, <2>6, <2>7, <2>8 DEF Inv, TypeOK
<1>14. ASSUME UplinkFails
       PROVE  Inv'
  <2>1. ProbeTypes'
    BY Zenon, <1>14, <1>a, <1>c DEF ProbeTypes, UplinkFails
  <2>2. DialTypes'
    BY Zenon, <1>14, <1>a DEF DialTypes, DialStates, Phases, UplinkFails
  <2>3. SharedTypes'
    BY <1>14, <1>a, <1>c DEF SharedTypes, UplinkFails
  <2>4. EnvTypes'
    <3>1. faults' \in 0..MaxFaults
      BY <1>14, <1>a, <1>c DEF EnvTypes, Fault, UplinkFails
    <3> QED
      BY <1>14, <1>a, <3>1, Zenon DEF EnvTypes, UplinkFails
  <2>5. MaskExact'
    BY Zenon, <1>14, <1>a, <1>b, <1>c DEF ProbeTypes, MaskExact, UplinkFails
  <2>6. DeadPathHasAPlan'
    BY Zenon, <1>14, <1>a, <1>b, <1>c DEF ProbeTypes, DialTypes, DialStates, DeadPathHasAPlan, UplinkFails
  <2>7. OneDialPerNode' /\ SlotOwnsThread'
    BY Zenon, <1>14, <1>a, <1>b DEF DialTypes, DialStates, Phases, Running, OneDialPerNode, SlotOwnsThread, UplinkFails
  <2>8. CheapOncePerOutage'
    BY Zenon, <1>14, <1>a, <1>b DEF DialTypes, CheapOncePerOutage, UplinkFails
  <2> QED
    BY <2>1, <2>2, <2>3, <2>4, <2>5, <2>6, <2>7, <2>8 DEF Inv, TypeOK
<1>15. ASSUME UplinkReturns
       PROVE  Inv'
  <2>1. ProbeTypes'
    BY Zenon, <1>15, <1>a, <1>c DEF ProbeTypes, UplinkReturns
  <2>2. DialTypes'
    BY Zenon, <1>15, <1>a DEF DialTypes, DialStates, Phases, UplinkReturns
  <2>3. SharedTypes'
    BY Zenon, <1>15, <1>a, <1>c DEF SharedTypes, UplinkReturns
  <2>4. EnvTypes'
    BY Zenon, <1>15, <1>a, <1>c DEF EnvTypes, Fault, Excused, UplinkReturns
  <2>5. MaskExact'
    BY Zenon, <1>15, <1>a, <1>b, <1>c DEF ProbeTypes, MaskExact, UplinkReturns
  <2>6. DeadPathHasAPlan'
    BY Zenon, <1>15, <1>a, <1>b, <1>c DEF ProbeTypes, DialTypes, DialStates, DeadPathHasAPlan, UplinkReturns
  <2>7. OneDialPerNode' /\ SlotOwnsThread'
    BY Zenon, <1>15, <1>a, <1>b DEF DialTypes, DialStates, Phases, Running, OneDialPerNode, SlotOwnsThread, UplinkReturns
  <2>8. CheapOncePerOutage'
    BY Zenon, <1>15, <1>a, <1>b DEF DialTypes, CheapOncePerOutage, UplinkReturns
  <2> QED
    BY <2>1, <2>2, <2>3, <2>4, <2>5, <2>6, <2>7, <2>8 DEF Inv, TypeOK
<1>16. ASSUME NEW nodes \in SUBSET Paths, TransportBreaks(nodes)
       PROVE  Inv'
  <2>1. ProbeTypes'
    BY Zenon, <1>16, <1>a, <1>c DEF ProbeTypes, TransportBreaks
  <2>2. DialTypes'
    BY Zenon, <1>16, <1>a DEF DialTypes, DialStates, Phases, TransportBreaks
  <2>3. SharedTypes'
    BY Zenon, <1>16, <1>a, <1>c DEF SharedTypes, TransportBreaks
  <2>4. EnvTypes'
    BY <1>16, <1>a, <1>c DEF EnvTypes, Fault, Excused, TransportBreaks
  <2>5. MaskExact'
    BY Zenon, <1>16, <1>a, <1>b, <1>c DEF ProbeTypes, MaskExact, TransportBreaks
  <2>6. DeadPathHasAPlan'
    BY Zenon, <1>16, <1>a, <1>b, <1>c DEF ProbeTypes, DialTypes, DialStates, DeadPathHasAPlan, TransportBreaks
  <2>7. OneDialPerNode' /\ SlotOwnsThread'
    BY Zenon, <1>16, <1>a, <1>b DEF DialTypes, DialStates, Phases, Running, OneDialPerNode, SlotOwnsThread, TransportBreaks
  <2>8. CheapOncePerOutage'
    BY Zenon, <1>16, <1>a, <1>b DEF DialTypes, CheapOncePerOutage, TransportBreaks
  <2> QED
    BY Zenon, <2>1, <2>2, <2>3, <2>4, <2>5, <2>6, <2>7, <2>8 DEF Inv, TypeOK
<1>17. CASE UNCHANGED vars
  BY <1>17 DEF vars, Inv, TypeOK, ProbeTypes, DialTypes, SharedTypes, EnvTypes, MaskExact,
       DeadPathHasAPlan, OneDialPerNode, SlotOwnsThread, CheapOncePerOutage, Running
<1> QED
  BY <1>1, <1>2, <1>3, <1>4, <1>5, <1>6, <1>7, <1>8, <1>9, <1>10, <1>11, <1>12, <1>13, <1>14, <1>15, <1>16, <1>17, Zenon
     DEF Next, Steps, WorkerStep, DialStep

(* In every reachable state a path is in the dispatcher's mask exactly     *)
(* when its current transport has answered and fewer than THRESHOLD checks *)
(* have failed since; a dead path has a redial armed or running; a node    *)
(* has at most one dial thread, owned by its worker's slot; and an outage  *)
(* gets at most one cheap reopen.                                          *)
THEOREM InvHolds == Spec => []Inv
<1>1. Init => Inv
  BY InitInv
<1>2. Inv /\ [Next]_vars => Inv'
  BY Zenon, NextKeepsInv
<1> QED
  BY <1>1, <1>2, PTL DEF Spec

-----------------------------------------------------------------------------
(***************************************************************************)
(* The service's two slots agree with each other and with what they        *)
(* published, for any requests, addresses and numbers of starts.           *)
(*                                                                         *)
(* SlotsAgree speaks of slots nobody works on.  The inductive invariant    *)
(* also says what holds under the lock: Own, what the slot itself is at    *)
(* each of its holder's steps; Knows, that with no reconciliation waiting  *)
(* what the holder has read of the other slot still stands; Alone, that    *)
(* with none waiting no VPN is on its way up beside a game that carries    *)
(* all traffic.                                                            *)
(***************************************************************************)

Confs == [mode : {"", "all", "split"}, app : BOOLEAN, native : BOOLEAN]
Tolds == [active : BOOLEAN, bypass : Bypasses \cup {{}}, app : BOOLEAN, up : BOOLEAN]
Places == {"free", "begun", "checked", "published", "dialling", "captured", "failed", "torn",
           "telling"}

(* Each slot has one other. *)
LEMMA OtherSlot ==
    ASSUME NEW s \in Slots
    PROVE  /\ other(s) \in Slots /\ other(s) # s
           /\ \A u \in Slots : u = s \/ u = other(s)
           /\ other(other(s)) = s
  BY Zenon DEF Slots, other

LEMMA ConstantTypes ==
    /\ Idle \in Summaries /\ NoConf \in Confs /\ Nothing \in Tolds
    /\ \A s \in Slots : Requests(s) \subseteq Confs
  <1>1. Idle \in Summaries /\ NoConf \in Confs /\ Nothing \in Tolds
    BY DEF Idle, Summaries, NoConf, Confs, Nothing, Tolds
  <1>2. GameRequests \subseteq Confs /\ VpnRequests \subseteq Confs
    BY SlotsAssumption, ZenonT(40) DEF Confs
  <1> QED BY Zenon, <1>1, <1>2 DEF Requests, Slots

(* What is made of a summary, or into one, is of its type. *)
LEMMA ToldType ==
    ASSUME NEW x \in Summaries
    PROVE  Told(x) \in Tolds
  <1> DEFINE a == is_active(x)
  <1>1. a \in BOOLEAN
    BY DEF is_active
  <1>2. x.bypass \in Bypasses \cup {{}} /\ x.app \in BOOLEAN
    BY ZenonT(40) DEF Summaries
  <1>3. Told(x) = [active |-> a, bypass |-> x.bypass, app |-> x.app, up |-> TRUE]
    BY DEF Told
  <1> HIDE DEF a
  <1> QED BY <1>1, <1>2, <1>3 DEF Tolds

LEMMA SummaryRecord ==
    ASSUME NEW st \in {"idle", "starting", "connected"}, NEW m \in {"", "all", "split"},
           NEW b \in Bypasses \cup {{}}, NEW a \in BOOLEAN
    PROVE  [status |-> st, mode |-> m, bypass |-> b, app |-> a] \in Summaries
  BY ZenonT(40) DEF Summaries

LEMMA SummaryType ==
    ASSUME NEW c \in Confs, NEW st \in {"idle", "starting", "connected"},
           NEW addresses \in Bypasses \cup {{}}, NEW rules \in BOOLEAN
    PROVE  summary_of(c, st, addresses, rules) \in Summaries
  <1> DEFINE a == (c.mode = "all" \/ (rules /\ c.app))
  <1>1. c.mode \in {"", "all", "split"} /\ c.app \in BOOLEAN
    BY ZenonT(40) DEF Confs
  <1>2. a \in BOOLEAN
    BY <1>1, ZenonT(40)
  <1>3. summary_of(c, st, addresses, rules) = [status |-> st, mode |-> c.mode, bypass |-> addresses, app |-> a]
    BY DEF summary_of
  <1> DEFINE m == c.mode
  <1>4. m \in {"", "all", "split"}
    BY <1>1, ZenonT(40)
  <1>5. summary_of(c, st, addresses, rules) = [status |-> st, mode |-> m, bypass |-> addresses, app |-> a]
    BY Zenon, <1>3
  <1> HIDE DEF a, m
  <1> QED BY <1>2, <1>4, <1>5, SummaryRecord, ZenonT(40)

LEMMA RetoldType ==
    ASSUME SlotsTypeOK, NEW s \in Slots
    PROVE  /\ Retold(s) \in Tolds
           /\ Retold(s).active = is_active(snap[s])
           /\ s = "vpn" /\ ~(conf[s].native /\ conf[s].mode = "split") =>
                 Retold(s).bypass = snap[s].bypass
           /\ Retold(s).up = told[s].up
  <1> DEFINE a == is_active(snap[s])
             p == IF s = "game" \/ conf[s].native THEN snap[s].app ELSE told[s].app
             b == IF s = "vpn" /\ ~(conf[s].native /\ conf[s].mode = "split")
                  THEN snap[s].bypass ELSE told[s].bypass
  <1>1. told[s] \in Tolds /\ snap[s] \in Summaries
    BY ZenonT(40) DEF SlotsTypeOK, Tolds
  <1>2. a \in BOOLEAN
    BY DEF is_active
  <1>3. p \in BOOLEAN
    BY <1>1, ZenonT(40) DEF Tolds, Summaries
  <1>4. b \in Bypasses \cup {{}}
    BY <1>1, ZenonT(40) DEF Tolds, Summaries
  <1>5. Retold(s) = [told[s] EXCEPT !.active = a, !.app = p, !.bypass = b]
    BY Zenon DEF Retold
  <1>6. s = "vpn" /\ ~(conf[s].native /\ conf[s].mode = "split") => b = snap[s].bypass
    OBVIOUS
  <1> HIDE DEF a, p, b
  <1>7. Retold(s) = [active |-> a, bypass |-> b, app |-> p, up |-> told[s].up]
    BY <1>1, <1>5, ZenonT(40) DEF Tolds
  <1>8. told[s].up \in BOOLEAN
    BY Zenon, <1>1 DEF Tolds
  <1> QED BY <1>2, <1>3, <1>4, <1>6, <1>7, <1>8 DEF Tolds, a

(* SlotsTypeOK, with names for its sets. *)
Typed ==
    /\ pc \in [Slots -> Places] /\ status \in [Slots -> {"idle", "connected"}]
    /\ conf \in [Slots -> Confs] /\ told \in [Slots -> Tolds]
    /\ lease \in [Slots -> {"none", "ahead", "past"}]
    /\ summary \in [Slots -> Summaries] /\ snap \in [Slots -> Summaries]
    /\ pending \in [Slots -> Nat] /\ watchdog \in [Slots -> {"watching", "expiring"}]
    /\ edit \in [Slots -> Summaries \cup {NoEdit}] /\ behind \in [Slots -> BOOLEAN]
    /\ starts \in [Slots -> Nat] /\ edits \in Nat /\ slotFaults \in Nat

LEMMA TypedIsTypeOK == Typed <=> SlotsTypeOK
  BY Zenon DEF Typed, SlotsTypeOK, Places, Confs, Tolds

(* The parts several actions share. *)
LEMMA TeardownTypes ==
    ASSUME Typed, NEW s \in Slots, teardown(s)
    PROVE  /\ status' \in [Slots -> {"idle", "connected"}] /\ conf' \in [Slots -> Confs]
           /\ told' \in [Slots -> Tolds] /\ lease' \in [Slots -> {"none", "ahead", "past"}]
           /\ behind' \in [Slots -> BOOLEAN]
  <1>1. NoConf \in Confs /\ Nothing \in Tolds
    BY Zenon, ConstantTypes
  <1>2. status' \in [Slots -> {"idle", "connected"}] /\ lease' \in [Slots -> {"none", "ahead", "past"}]
    BY Zenon DEF Typed, teardown
  <1>3. conf' \in [Slots -> Confs] /\ told' \in [Slots -> Tolds]
    BY Zenon, <1>1 DEF Typed, teardown
  <1>4. behind' \in [Slots -> BOOLEAN]
    BY Zenon DEF Typed, teardown
  <1> QED BY Zenon, <1>2, <1>3, <1>4

LEMMA PublishTypes ==
    ASSUME Typed, NEW s \in Slots, NEW new \in Summaries, publish(s, new)
    PROVE  /\ summary' \in [Slots -> Summaries] /\ pending' \in [Slots -> Nat]
           /\ summary'[s] = new /\ summary'[other(s)] = summary[other(s)]
           /\ pending'[s] = pending[s]
           /\ pending'[other(s)] = pending[other(s)] + (IF needs_update(s, summary[s], new) THEN 1 ELSE 0)
  <1> DEFINE n == IF needs_update(s, summary[s], new) THEN 1 ELSE 0
  <1>1. /\ summary' = [summary EXCEPT ![s] = new]
        /\ pending' = [pending EXCEPT ![other(s)] = @ + n]
    BY DEF publish
  <1>2. n \in Nat
    BY Zenon
  <1>3. summary \in [Slots -> Summaries] /\ pending \in [Slots -> Nat]
    BY Zenon DEF Typed
  <1>4. other(s) \in Slots /\ other(s) # s
    BY Zenon, OtherSlot
  <1> HIDE DEF n
  <1>5. pending' \in [Slots -> Nat] /\ pending'[s] = pending[s] /\ pending'[other(s)] = pending[other(s)] + n
    BY <1>1, <1>2, <1>3, <1>4
  <1>6. /\ summary' \in [Slots -> Summaries]
        /\ summary'[s] = new /\ summary'[other(s)] = summary[other(s)]
    BY Zenon, <1>1, <1>3, <1>4
  <1> QED BY Zenon, <1>5, <1>6 DEF n

LEMMA GotoTypes ==
    ASSUME Typed, NEW s \in Slots, NEW to \in Places, Goto(s, to)
    PROVE  /\ pc' \in [Slots -> Places] /\ pc'[s] = to /\ pc'[other(s)] = pc[other(s)]
  BY Zenon, OtherSlot DEF Goto, Typed

LEMMA TypedStep ==
    ASSUME Typed, [SlotsNext]_slotsVars
    PROVE  Typed'
  <1> SUFFICES ASSUME NEW s \in Slots,
                      \/ StartLocks(s) \/ StartChecks(s) \/ StartPublishes(s) \/ StartReadsOther(s)
                      \/ StartCaptures(s) \/ StartBreaks(s) \/ StartConnected(s) \/ StartFailed(s)
                      \/ StopLocks(s) \/ StopPublishes(s) \/ Status(s) \/ LeaseRunsOut(s)
                      \/ WatchdogLooks(s) \/ expire_lease(s)
                      \/ ReconcileReads(s) \/ ReconcileTells(s) \/ EditReads(s) \/ EditLocks(s)
               PROVE  Typed'
    <2>1. CASE UNCHANGED slotsVars
      BY Zenon, <2>1 DEF Typed, slotsVars
    <2> QED BY Zenon, <2>1 DEF SlotsNext
  <1> USE ConstantTypes
  <1>o. other(s) \in Slots
    BY Zenon, OtherSlot
  <1>p. {"free", "begun", "checked", "published", "dialling", "captured", "failed", "torn", "telling"} \subseteq Places
    BY Zenon DEF Places
  <1>1. CASE StartLocks(s)
    <2>1. starts' \in [Slots -> Nat]
      BY <1>1 DEF StartLocks, Typed
    <2>2. pc' \in [Slots -> Places]
      BY Zenon, <1>1, <1>p, GotoTypes DEF StartLocks
    <2> QED BY Zenon, <1>1, <2>1, <2>2, TeardownTypes DEF StartLocks, Typed
  <1>2. CASE StartChecks(s)
    <2>1. pc' \in [Slots -> Places]
      BY Zenon, <1>2, <1>p, GotoTypes DEF StartChecks
    <2> QED BY Zenon, <1>2, <2>1 DEF StartChecks, Typed
  <1>3. CASE StartPublishes(s)
    <2>1. PICK r \in Requests(s) : /\ conf' = [conf EXCEPT ![s] = r]
                                   /\ publish(s, summary_of(r, "starting", {}, FALSE))
      BY <1>3, ZenonT(40) DEF StartPublishes
    <2>2. r \in Confs
      OBVIOUS
    <2>3. summary_of(r, "starting", {}, FALSE) \in Summaries
      BY <2>2, SummaryType, ZenonT(40)
    <2>4. summary' \in [Slots -> Summaries] /\ pending' \in [Slots -> Nat]
      BY <2>1, <2>3, PublishTypes, ZenonT(40)
    <2>5. conf' \in [Slots -> Confs]
      BY Zenon, <2>1, <2>2 DEF Typed
    <2>6. pc' \in [Slots -> Places]
      BY Zenon, <1>3, <1>p, GotoTypes DEF StartPublishes
    <2> QED BY Zenon, <1>3, <2>4, <2>5, <2>6 DEF StartPublishes, Typed
  <1>4. CASE StartReadsOther(s)
    <2>1. pc' \in [Slots -> Places]
      BY Zenon, <1>4, <1>p, GotoTypes DEF StartReadsOther
    <2>2. snap' \in [Slots -> Summaries]
      BY Zenon, <1>4, <1>o DEF StartReadsOther, Typed
    <2> QED BY Zenon, <1>4, <2>1, <2>2 DEF StartReadsOther, Typed
  <1>5. CASE StartCaptures(s)
    <2>1. pc' \in [Slots -> Places]
      BY Zenon, <1>5, <1>p, GotoTypes DEF StartCaptures
    <2>2. snap' \in [Slots -> Summaries]
      BY <1>5 DEF StartCaptures, Typed
    <2>3. told' \in [Slots -> Tolds]
      <3> DEFINE x == Told(summary[other(s)])
                 b == snap[s].bypass
      <3>1. x \in Tolds /\ Told(snap[s]) \in Tolds
        BY <1>o, ToldType DEF Typed
      <3>2. b \in Bypasses \cup {{}}
        BY ZenonT(40) DEF Typed, Summaries
      <3>3. told' = [told EXCEPT ![s] = IF conf[s].native THEN [x EXCEPT !.bypass = b] ELSE Told(snap[s])]
        BY <1>5 DEF StartCaptures
      <3> HIDE DEF x, b
      <3>4. [x EXCEPT !.bypass = b] \in Tolds
        BY Zenon, <3>1, <3>2 DEF Tolds
      <3> QED BY Zenon, <3>1, <3>3, <3>4 DEF Typed
    <2> QED BY Zenon, <1>5, <2>1, <2>2, <2>3 DEF StartCaptures, Typed
  <1>6. CASE StartBreaks(s)
    <2>1. pc' \in [Slots -> Places]
      BY Zenon, <1>6, <1>p, GotoTypes DEF StartBreaks
    <2>2. snap' \in [Slots -> Summaries]
      BY Zenon, <1>6 DEF StartBreaks, Typed
    <2> QED BY Zenon, <1>6, <2>1, <2>2 DEF StartBreaks, Typed
  <1>7. CASE StartConnected(s)
    <2>1. PICK a \in Bypasses : publish(s, summary_of(conf[s], "connected", a, TRUE))
      BY <1>7, ZenonT(40) DEF StartConnected
    <2>2. conf[s] \in Confs
      BY DEF Typed
    <2>3. summary_of(conf[s], "connected", a, TRUE) \in Summaries
      BY <2>2, SummaryType, ZenonT(40)
    <2>4. summary' \in [Slots -> Summaries] /\ pending' \in [Slots -> Nat]
      BY <2>1, <2>3, PublishTypes, ZenonT(40)
    <2>5. pc' \in [Slots -> Places]
      BY <1>7, <1>p, GotoTypes, ZenonT(40) DEF StartConnected
    <2>6. status' \in [Slots -> {"idle", "connected"}] /\ lease' \in [Slots -> {"none", "ahead", "past"}]
      BY Zenon, <1>7 DEF StartConnected, Typed
    <2> QED BY <1>7, <2>4, <2>5, <2>6 DEF StartConnected, Typed
  <1>8. CASE StartFailed(s)
    <2>1. pc' \in [Slots -> Places]
      BY Zenon, <1>8, <1>p, GotoTypes DEF StartFailed
    <2>2. summary' \in [Slots -> Summaries] /\ pending' \in [Slots -> Nat]
      BY <1>8, PublishTypes, ZenonT(40) DEF StartFailed
    <2> QED BY Zenon, <1>8, <2>1, <2>2, TeardownTypes DEF StartFailed, Typed
  <1>9. CASE StopLocks(s)
    <2>1. pc' \in [Slots -> Places]
      BY Zenon, <1>9, <1>p, GotoTypes DEF StopLocks
    <2> QED BY Zenon, <1>9, <2>1, TeardownTypes DEF StopLocks, Typed
  <1>10. CASE StopPublishes(s)
    <2>1. pc' \in [Slots -> Places]
      BY Zenon, <1>10, <1>p, GotoTypes DEF StopPublishes
    <2>2. summary' \in [Slots -> Summaries] /\ pending' \in [Slots -> Nat]
      BY Zenon, <1>10, PublishTypes DEF StopPublishes
    <2> QED BY Zenon, <1>10, <2>1, <2>2 DEF StopPublishes, Typed
  <1>11. CASE Status(s) \/ LeaseRunsOut(s)
    <2>1. lease' \in [Slots -> {"none", "ahead", "past"}]
      BY <1>11 DEF Status, LeaseRunsOut, Typed
    <2> QED BY Zenon, <1>11, <2>1 DEF Status, LeaseRunsOut, Typed
  <1>12. CASE WatchdogLooks(s)
    <2>1. watchdog' \in [Slots -> {"watching", "expiring"}]
      BY Zenon, <1>12 DEF WatchdogLooks, Typed
    <2> QED BY Zenon, <1>12, <2>1 DEF WatchdogLooks, Typed
  <1>13. CASE expire_lease(s)
    <2>1. watchdog' \in [Slots -> {"watching", "expiring"}]
      BY Zenon, <1>13 DEF expire_lease, Typed
    <2>2. CASE teardown(s) /\ Goto(s, "torn")
      <3>1. pc' \in [Slots -> Places]
        BY Zenon, <2>2, <1>p, GotoTypes
      <3> QED BY Zenon, <1>13, <2>1, <2>2, <3>1, TeardownTypes DEF expire_lease, Typed
    <2>3. CASE UNCHANGED <<pc, status, conf, told, lease, behind>>
      BY Zenon, <1>13, <2>1, <2>3 DEF expire_lease, Typed
    <2> QED BY Zenon, <1>13, <2>2, <2>3 DEF expire_lease
  <1>14. CASE ReconcileReads(s)
    <2>1. pending' \in [Slots -> Nat]
      BY <1>14 DEF ReconcileReads, Typed
    <2>2. CASE teardown(s) /\ Goto(s, "torn") /\ UNCHANGED snap
      <3>1. pc' \in [Slots -> Places]
        BY Zenon, <2>2, <1>p, GotoTypes
      <3> QED BY Zenon, <1>14, <2>1, <2>2, <3>1, TeardownTypes DEF ReconcileReads, Typed
    <2>3. CASE /\ snap' = [snap EXCEPT ![s] = IF status[s] = "connected" THEN summary[other(s)] ELSE @]
               /\ Goto(s, IF status[s] = "connected" THEN "telling" ELSE "free")
               /\ UNCHANGED <<status, conf, told, lease, behind>>
      <3>1. pc' \in [Slots -> Places]
        BY <2>3, <1>p, GotoTypes, ZenonT(40)
      <3>2. snap' \in [Slots -> Summaries]
        BY Zenon, <2>3, <1>o DEF Typed
      <3> QED BY Zenon, <1>14, <2>1, <2>3, <3>1, <3>2 DEF ReconcileReads, Typed
    <2> QED BY Zenon, <1>14, <2>2, <2>3 DEF ReconcileReads
  <1>15. CASE ReconcileTells(s)
    <2>1. pc' \in [Slots -> Places]
      BY Zenon, <1>15, <1>p, GotoTypes DEF ReconcileTells
    <2>2. snap' \in [Slots -> Summaries]
      BY Zenon, <1>15 DEF ReconcileTells, Typed
    <2>3. told' \in [Slots -> Tolds]
      <3>1. Retold(s) \in Tolds
        BY RetoldType, TypedIsTypeOK, ZenonT(40)
      <3> QED BY <1>15, <3>1 DEF ReconcileTells, Typed
    <2>4. behind' \in [Slots -> BOOLEAN]
      BY <1>15, ZenonT(40) DEF ReconcileTells, Typed
    <2>5. slotFaults' \in Nat
      BY <1>15 DEF ReconcileTells, Typed
    <2> QED BY Zenon, <1>15, <2>1, <2>2, <2>3, <2>4, <2>5 DEF ReconcileTells, Typed
  <1>16. CASE EditReads(s)
    <2>1. edit' \in [Slots -> Summaries \cup {NoEdit}]
      BY Zenon, <1>16, <1>o DEF EditReads, Typed
    <2>2. edits' \in Nat
      BY <1>16 DEF EditReads, Typed
    <2> QED BY Zenon, <1>16, <2>1, <2>2 DEF EditReads, Typed
  <1>17. CASE EditLocks(s)
    <2>1. edit' \in [Slots -> Summaries \cup {NoEdit}]
      BY Zenon, <1>17 DEF EditLocks, Typed
    <2>2. CASE /\ status[s] = "connected" /\ conf[s].mode = "split"
               /\ \E t \in EditOutcomes(s), accepted \in BOOLEAN, rules \in BOOLEAN :
                     /\ accepted /\ t = Nothing => ~rules
                     /\ told' = [told EXCEPT ![s] = t]
                     /\ conf' = [conf EXCEPT ![s].app = IF accepted THEN rules ELSE @]
                     /\ lease' = [lease EXCEPT ![s] = IF accepted THEN "ahead" ELSE @]
               /\ behind' = [behind EXCEPT ![s] = @ \/ ~conf[s].native]
      <3>1. PICK t \in EditOutcomes(s), accepted \in BOOLEAN, rules \in BOOLEAN :
                /\ told' = [told EXCEPT ![s] = t]
                /\ conf' = [conf EXCEPT ![s].app = IF accepted THEN rules ELSE @]
                /\ lease' = [lease EXCEPT ![s] = IF accepted THEN "ahead" ELSE @]
        BY <2>2, ZenonT(40)
      <3>2. t \in Tolds
        <4>1. edit[s] \in Summaries
          BY <1>17 DEF EditLocks, Typed
        <4> QED BY <4>1, ToldType DEF EditOutcomes, Typed
      <3>3. told' \in [Slots -> Tolds]
        BY Zenon, <3>1, <3>2 DEF Typed
      <3>4. lease' \in [Slots -> {"none", "ahead", "past"}]
        BY Zenon, <3>1 DEF Typed
      <3>5. conf' \in [Slots -> Confs]
        <4> DEFINE c == conf[s]
                   a == IF accepted THEN rules ELSE c.app
        <4>1. c \in Confs
          BY DEF Typed
        <4>2. a \in BOOLEAN
          BY <4>1, ZenonT(40) DEF Confs
        <4>3. conf' = [conf EXCEPT ![s] = [c EXCEPT !.app = a]]
          BY <3>1
        <4> HIDE DEF c, a
        <4>4. [c EXCEPT !.app = a] \in Confs
          BY <4>1, <4>2, ZenonT(40) DEF Confs
        <4> QED BY Zenon, <4>3, <4>4 DEF Typed
      <3>6. behind' \in [Slots -> BOOLEAN]
        <4> DEFINE b == behind[s] \/ ~conf[s].native
        <4>1. b \in BOOLEAN
          BY Zenon
        <4>2. behind' = [behind EXCEPT ![s] = b]
          BY Zenon, <2>2
        <4> HIDE DEF b
        <4> QED BY Zenon, <4>1, <4>2 DEF Typed
      <3> QED BY Zenon, <1>17, <2>1, <3>3, <3>4, <3>5, <3>6 DEF EditLocks, Typed
    <2>3. CASE UNCHANGED <<told, conf, lease, behind>>
      BY Zenon, <1>17, <2>1, <2>3 DEF EditLocks, Typed
    <2> QED BY Zenon, <1>17, <2>2, <2>3 DEF EditLocks
  <1> QED BY Zenon, <1>1, <1>2, <1>3, <1>4, <1>5, <1>6, <1>7, <1>8, <1>9, <1>10, <1>11, <1>12,
             <1>13, <1>14, <1>15, <1>16, <1>17

-----------------------------------------------------------------------------
(* What a slot is at each place of its lock's holder. *)
Own(s) ==
    /\ pc[s] \in {"free", "telling"} =>
          /\ summary[s].status = status[s] /\ summary[s].mode = conf[s].mode
          /\ (lease[s] # "none") <=> (status[s] = "connected")
    /\ pc[s] \notin {"free", "telling"} => status[s] = "idle"
    /\ pc[s] = "torn" => conf[s] = NoConf /\ lease[s] = "none"
    /\ told[s].up => status[s] = "connected" \/ pc[s] = "captured"

(* The game's addresses matter to the capture of the slot. *)
Avoids(s) == s = "vpn" /\ ~(conf[s].native /\ conf[s].mode = "split")

(* What the holder has read of the other slot stands while no reconciliation
   waits, and so does what the capture was told. *)
Knows(s) ==
    pending[s] = 0 =>
      /\ pc[s] \in {"dialling", "telling"} =>
            /\ is_active(snap[s]) <=> is_active(summary[other(s)])
            /\ s = "vpn" => snap[s].bypass = summary[other(s)].bypass
      /\ told[s].up /\ ~behind[s] /\ pc[s] # "telling" =>
            /\ told[s].active <=> is_active(summary[other(s)])
            /\ Avoids(s) => told[s].bypass = summary[other(s)].bypass

(* No VPN is up, or past its check, beside a game that carries all traffic,
   unless a reconciliation waits. *)
Alone ==
    pending["vpn"] = 0 /\ owns_all_traffic(summary["game"]) =>
        pc["vpn"] \in {"free", "begun", "failed", "torn"} /\ status["vpn"] = "idle"

SlotsInv == Typed /\ (\A s \in Slots : Own(s) /\ Knows(s)) /\ Alone

(* A step of slot s leaves the other slot's own state as it is. *)
Still(o) ==
    /\ pc'[o] = pc[o] /\ status'[o] = status[o] /\ conf'[o] = conf[o] /\ told'[o] = told[o]
    /\ lease'[o] = lease[o] /\ snap'[o] = snap[o] /\ behind'[o] = behind[o]

(* What it shows of itself is unchanged, or published. *)
Shows(s) ==
    \/ summary' = summary /\ pending'[other(s)] = pending[other(s)]
    \/ \E new \in Summaries : publish(s, new)

(* A publication keeps what the other slot knows, or leaves it a
   reconciliation. *)
LEMMA OtherKeeps ==
    ASSUME SlotsInv, Typed', NEW s \in Slots, Still(other(s)), Shows(s)
    PROVE  /\ Own(other(s))' /\ Knows(other(s))'
           /\ s = "game" => Alone'
  <1> DEFINE o == other(s)
  <1>1. o \in Slots /\ o # s /\ other(o) = s /\ (s = "game" => o = "vpn") /\ (s = "vpn" => o = "game")
    BY Zenon, OtherSlot DEF other
  <1>2. Own(o) /\ Knows(o) /\ Alone /\ Typed
    BY Zenon, <1>1 DEF SlotsInv
  <1>3. Still(o)
    BY Zenon
  <1>4. CASE summary' = summary /\ pending'[o] = pending[o]
    <2>1. Own(o)'
      BY Zenon, <1>2, <1>3, <1>4 DEF Own, Still
    <2>2. Knows(o)'
      BY <1>2, <1>3, <1>4, ZenonT(40) DEF Knows, Still, Avoids
    <2>3. s = "game" => Alone'
      BY Zenon, <1>1, <1>2, <1>3, <1>4 DEF Alone, Still
    <2> QED BY Zenon, <2>1, <2>2, <2>3
  <1>5. CASE \E new \in Summaries : publish(s, new)
    <2>1. PICK new \in Summaries : publish(s, new)
      BY Zenon, <1>5
    <2>2. /\ summary'[s] = new /\ summary'[o] = summary[o]
          /\ pending'[o] = pending[o] + (IF needs_update(s, summary[s], new) THEN 1 ELSE 0)
      BY Zenon, <1>2, <2>1, PublishTypes
    <2>3. Own(o)'
      BY Zenon, <1>2, <1>3, <2>2 DEF Own, Still
    <2>4. pending[o] \in Nat
      BY Zenon, <1>1, <1>2 DEF Typed
    <2>5. pending'[o] = 0 => pending[o] = 0 /\ ~needs_update(s, summary[s], new)
      <3>1. CASE needs_update(s, summary[s], new)
        <4>1. pending'[o] = pending[o] + 1
          BY Zenon, <2>2, <3>1
        <4> QED BY <4>1, <2>4
      <3>2. CASE ~needs_update(s, summary[s], new)
        <4>1. pending'[o] = pending[o] + 0
          BY Zenon, <2>2, <3>2
        <4> QED BY <4>1, <2>4, <3>2
      <3> QED BY Zenon, <3>1, <3>2
    <2>6. ~needs_update(s, summary[s], new) =>
             /\ is_active(summary[s]) <=> is_active(new)
             /\ s = "game" => /\ summary[s].bypass = new.bypass
                              /\ owns_all_traffic(summary[s]) <=> owns_all_traffic(new)
      BY Zenon DEF needs_update, is_active, owns_all_traffic
    <2>7. Knows(o)'
      <3> SUFFICES ASSUME pending'[o] = 0
                   PROVE  /\ pc[o] \in {"dialling", "telling"} =>
                                /\ is_active(snap[o]) <=> is_active(new)
                                /\ o = "vpn" => snap[o].bypass = new.bypass
                          /\ told[o].up /\ ~behind[o] /\ pc[o] # "telling" =>
                                /\ told[o].active <=> is_active(new)
                                /\ Avoids(o) => told[o].bypass = new.bypass
        BY Zenon, <1>1, <1>3, <2>2 DEF Knows, Still, Avoids
      <3>1. /\ pc[o] \in {"dialling", "telling"} =>
                                /\ is_active(snap[o]) <=> is_active(summary[s])
                                /\ o = "vpn" => snap[o].bypass = summary[s].bypass
            /\ told[o].up /\ ~behind[o] /\ pc[o] # "telling" =>
                                /\ told[o].active <=> is_active(summary[s])
                                /\ Avoids(o) => told[o].bypass = summary[s].bypass
        BY <1>1, <1>2, <2>5, ZenonT(40) DEF Knows
      <3>2. o = "vpn" => s = "game"
        BY Zenon, <1>1 DEF Slots
      <3> QED BY Zenon, <3>1, <3>2, <2>5, <2>6 DEF Avoids
    <2>8. s = "game" => Alone'
      <3> SUFFICES ASSUME s = "game", pending'["vpn"] = 0, owns_all_traffic(new)
                   PROVE  pc["vpn"] \in {"free", "begun", "failed", "torn"} /\ status["vpn"] = "idle"
        BY Zenon, <1>1, <1>3, <2>2 DEF Alone, Still
      <3> QED BY Zenon, <1>1, <1>2, <2>5, <2>6 DEF Alone
    <2> QED BY Zenon, <2>3, <2>7, <2>8
  <1> QED BY Zenon, <1>4, <1>5 DEF Shows

(* What a step of slot s has to keep of the slot itself. *)
Keeps(s) == Still(other(s)) /\ Shows(s) /\ Own(s)' /\ Knows(s)' /\ (s = "vpn" => Alone')

(* What teardown and publish come to, slot by slot. *)
LEMMA TeardownFacts ==
    ASSUME Typed, NEW s \in Slots, teardown(s)
    PROVE  /\ status'[s] = "idle" /\ conf'[s] = NoConf /\ told'[s] = Nothing
           /\ lease'[s] = "none" /\ behind'[s] = FALSE /\ ~told'[s].up
           /\ status'[other(s)] = status[other(s)] /\ conf'[other(s)] = conf[other(s)]
           /\ told'[other(s)] = told[other(s)] /\ lease'[other(s)] = lease[other(s)]
           /\ behind'[other(s)] = behind[other(s)]
  <1>1. other(s) # s /\ other(s) \in Slots
    BY Zenon, OtherSlot
  <1>2. ~Nothing.up
    BY Zenon DEF Nothing
  <1> QED BY Zenon, <1>1, <1>2 DEF teardown, Typed

(* The steps of a start. *)
LEMMA StartKeeps ==
    ASSUME SlotsInv, NEW s \in Slots,
           \/ StartLocks(s) \/ StartChecks(s) \/ StartPublishes(s) \/ StartReadsOther(s)
           \/ StartCaptures(s) \/ StartBreaks(s) \/ StartConnected(s) \/ StartFailed(s)
    PROVE  Keeps(s)
  <1> DEFINE o == other(s)
  <1>o. o \in Slots /\ o # s /\ (s = "vpn" => o = "game")
    BY Zenon, OtherSlot DEF other
  <1>i. Typed /\ Own(s) /\ Knows(s) /\ Alone
    BY Zenon DEF SlotsInv
  <1>p. {"free", "begun", "checked", "published", "dialling", "captured", "failed", "torn", "telling"} \subseteq Places
    BY Zenon DEF Places
  <1>t. status \in [Slots -> {"idle", "connected"}] /\ snap \in [Slots -> Summaries]
        /\ conf \in [Slots -> Confs] /\ lease \in [Slots -> {"none", "ahead", "past"}]
        /\ told \in [Slots -> Tolds]
    BY Zenon, <1>i DEF Typed
  <1>1. CASE StartLocks(s)
    <2>1. pc'[s] = "begun" /\ pc'[o] = pc[o]
      BY Zenon, <1>1, <1>i, <1>p, GotoTypes DEF StartLocks
    <2>2. teardown(s) /\ UNCHANGED <<summary, snap, pending>>
      BY Zenon, <1>1 DEF StartLocks
    <2>3. Still(o) /\ Shows(s)
      BY <1>i, <2>1, <2>2, TeardownFacts, ZenonT(40) DEF Still, Shows
    <2>4. Own(s)'
      BY <1>i, <2>1, <2>2, TeardownFacts, ZenonT(40) DEF Own
    <2>5. Knows(s)'
      BY <1>i, <2>1, <2>2, TeardownFacts, ZenonT(40) DEF Knows
    <2>6. s = "vpn" => Alone'
      BY <1>i, <2>1, <2>2, TeardownFacts, ZenonT(40) DEF Alone
    <2> QED BY Zenon, <2>3, <2>4, <2>5, <2>6 DEF Keeps
  <1>2. CASE StartChecks(s)
    <2>1. /\ pc[s] = "begun" /\ pc'[o] = pc[o]
          /\ \/ pc'[s] = "checked" /\ (s = "vpn" => ~owns_all_traffic(summary["game"]))
             \/ pc'[s] = "failed"
      BY Zenon, <1>2, <1>i, <1>p, GotoTypes DEF StartChecks
    <2>2. UNCHANGED <<status, conf, told, lease, summary, snap, pending, behind>>
      BY Zenon, <1>2 DEF StartChecks
    <2>3. Still(o) /\ Shows(s)
      BY Zenon, <2>1, <2>2 DEF Still, Shows
    <2>4. Own(s)'
      BY Zenon, <1>i, <2>1, <2>2 DEF Own
    <2>5. Knows(s)'
      BY Zenon, <1>i, <2>1, <2>2 DEF Knows, Avoids
    <2>6. s = "vpn" => Alone'
      BY Zenon, <1>i, <2>1, <2>2 DEF Alone
    <2> QED BY <2>3, <2>4, <2>5, <2>6 DEF Keeps
  <1>3. CASE StartPublishes(s)
    <2>1. PICK r \in Requests(s) : /\ conf' = [conf EXCEPT ![s] = r]
                                   /\ publish(s, summary_of(r, "starting", {}, FALSE))
      BY <1>3, ZenonT(40) DEF StartPublishes
    <2> DEFINE new == summary_of(r, "starting", {}, FALSE)
    <2>2. r \in Confs
      BY Zenon, ConstantTypes
    <2>3. new \in Summaries
      BY <2>2, SummaryType, ZenonT(40)
    <2>4. publish(s, new)
      BY <2>1, ZenonT(40)
    <2> HIDE DEF new
    <2>5. summary'[o] = summary[o] /\ pending'[s] = pending[s]
      BY Zenon, <1>i, <2>3, <2>4, PublishTypes
    <2>6. pc[s] = "checked" /\ pc'[s] = "published" /\ pc'[o] = pc[o]
      BY Zenon, <1>3, <1>i, <1>p, GotoTypes DEF StartPublishes
    <2>7. UNCHANGED <<status, told, lease, snap, behind>> /\ conf'[o] = conf[o]
      BY Zenon, <1>3, <1>o, <1>t, <2>1 DEF StartPublishes
    <2>8. Still(o) /\ Shows(s)
      BY <2>3, <2>4, <2>6, <2>7, ZenonT(40) DEF Still, Shows
    <2>9. status[s] = "idle" /\ ~told[s].up
      BY <1>i, <2>6, ZenonT(40) DEF Own
    <2>10. Own(s)'
      BY <2>6, <2>7, <2>9, ZenonT(40) DEF Own
    <2>11. Knows(s)'
      BY Zenon, <2>6, <2>7, <2>9 DEF Knows
    <2>12. s = "vpn" => Alone'
      BY Zenon, <1>i, <1>o, <2>5, <2>6, <2>7 DEF Alone
    <2> QED BY Zenon, <2>8, <2>10, <2>11, <2>12 DEF Keeps
  <1>4. CASE StartReadsOther(s)
    <2>1. pc[s] = "published" /\ pc'[s] = "dialling" /\ pc'[o] = pc[o]
      BY Zenon, <1>4, <1>i, <1>p, GotoTypes DEF StartReadsOther
    <2>2. UNCHANGED <<status, conf, told, lease, summary, pending, behind>>
      BY Zenon, <1>4 DEF StartReadsOther
    <2>3. snap'[s] = summary[o] /\ snap'[o] = snap[o]
      BY Zenon, <1>4, <1>o, <1>t DEF StartReadsOther
    <2>4. status[s] = "idle" /\ ~told[s].up
      BY Zenon, <1>i, <2>1 DEF Own
    <2>5. Still(o) /\ Shows(s)
      BY Zenon, <2>1, <2>2, <2>3 DEF Still, Shows
    <2>6. Own(s)'
      BY Zenon, <2>1, <2>2, <2>4 DEF Own
    <2>7. Knows(s)'
      BY Zenon, <2>1, <2>2, <2>3, <2>4 DEF Knows
    <2>8. s = "vpn" => Alone'
      BY Zenon, <1>i, <2>1, <2>2 DEF Alone
    <2> QED BY <2>5, <2>6, <2>7, <2>8 DEF Keeps
  <1>5. CASE StartCaptures(s)
    <2>1. pc[s] = "dialling" /\ pc'[s] = "captured" /\ pc'[o] = pc[o]
      BY Zenon, <1>5, <1>i, <1>p, GotoTypes DEF StartCaptures
    <2>2. UNCHANGED <<status, conf, lease, summary, pending, behind>>
      BY Zenon, <1>5 DEF StartCaptures
    <2>3. snap'[o] = snap[o] /\ told'[o] = told[o]
      BY Zenon, <1>5, <1>o, <1>t DEF StartCaptures
    <2>4. told'[s] = IF conf[s].native
                     THEN [Told(summary[o]) EXCEPT !.bypass = snap[s].bypass]
                     ELSE Told(snap[s])
      BY Zenon, <1>5, <1>t DEF StartCaptures
    <2>5. \/ told'[s].active <=> is_active(summary[o])
          \/ told'[s].active <=> is_active(snap[s])
      BY <2>4 DEF Told
    <2>6. told'[s].bypass = snap[s].bypass
      BY <2>4 DEF Told
    <2>7. Still(o) /\ Shows(s)
      BY Zenon, <2>1, <2>2, <2>3 DEF Still, Shows
    <2>8. Own(s)'
      BY Zenon, <1>i, <2>1, <2>2 DEF Own
    <2>9. Knows(s)'
      <3>1. pending[s] = 0 => /\ is_active(snap[s]) <=> is_active(summary[o])
                              /\ s = "vpn" => snap[s].bypass = summary[o].bypass
        BY <1>i, <2>1, ZenonT(40) DEF Knows
      <3> QED BY <3>1, <2>1, <2>2, <2>5, <2>6, ZenonT(40) DEF Knows, Avoids
    <2>10. s = "vpn" => Alone'
      BY Zenon, <1>i, <2>1, <2>2 DEF Alone
    <2> QED BY <2>7, <2>8, <2>9, <2>10 DEF Keeps
  <1>6. CASE StartBreaks(s)
    <2>1. pc[s] \in {"published", "dialling"} /\ pc'[s] = "failed" /\ pc'[o] = pc[o]
      BY Zenon, <1>6, <1>i, <1>p, GotoTypes DEF StartBreaks
    <2>2. UNCHANGED <<status, conf, told, lease, summary, pending, behind>>
      BY Zenon, <1>6 DEF StartBreaks
    <2>3. snap'[o] = snap[o]
      BY <1>6, <1>o, <1>t DEF StartBreaks
    <2>4. status[s] = "idle" /\ ~told[s].up
      BY <1>i, <2>1, ZenonT(40) DEF Own
    <2>5. Still(o) /\ Shows(s)
      BY <2>1, <2>2, <2>3, ZenonT(40) DEF Still, Shows
    <2>6. Own(s)'
      BY <2>1, <2>2, <2>4, ZenonT(40) DEF Own
    <2>7. Knows(s)'
      BY Zenon, <2>1, <2>2, <2>4 DEF Knows
    <2>8. s = "vpn" => Alone'
      BY Zenon, <1>i, <2>1, <2>2 DEF Alone
    <2> QED BY <2>5, <2>6, <2>7, <2>8 DEF Keeps
  <1>7. CASE StartConnected(s)
    <2>1. PICK a \in Bypasses : publish(s, summary_of(conf[s], "connected", a, TRUE))
      BY <1>7, ZenonT(40) DEF StartConnected
    <2> DEFINE new == summary_of(conf[s], "connected", a, TRUE)
    <2>2. new \in Summaries
      BY <1>t, SummaryType, ZenonT(40)
    <2>3. publish(s, new) /\ new.status = "connected" /\ new.mode = conf[s].mode
      BY <2>1, ZenonT(40) DEF summary_of
    <2> HIDE DEF new
    <2>4. summary'[s] = new /\ summary'[o] = summary[o] /\ pending'[s] = pending[s]
      BY Zenon, <1>i, <2>2, <2>3, PublishTypes
    <2>5. pc[s] = "captured" /\ pc'[s] = "free" /\ pc'[o] = pc[o]
      BY <1>7, <1>i, <1>p, GotoTypes, ZenonT(40) DEF StartConnected
    <2>6. UNCHANGED <<conf, told, snap, behind>>
      BY <1>7, ZenonT(40) DEF StartConnected
    <2>7. /\ status'[s] = "connected" /\ status'[o] = status[o]
          /\ lease'[s] = "ahead" /\ lease'[o] = lease[o]
      BY <1>7, <1>o, <1>t DEF StartConnected
    <2>8. Still(o) /\ Shows(s)
      BY <2>2, <2>3, <2>5, <2>6, <2>7, ZenonT(40) DEF Still, Shows
    <2>9. Own(s)'
      BY <2>3, <2>4, <2>5, <2>6, <2>7, ZenonT(40) DEF Own
    <2>10. Knows(s)'
      BY Zenon, <1>i, <2>4, <2>5, <2>6 DEF Knows, Avoids
    <2>11. s = "vpn" => Alone'
      BY Zenon, <1>i, <1>o, <2>4, <2>5 DEF Alone
    <2> QED BY Zenon, <2>8, <2>9, <2>10, <2>11 DEF Keeps
  <1>8. CASE StartFailed(s)
    <2>1. pc[s] = "failed" /\ pc'[s] = "free" /\ pc'[o] = pc[o]
      BY Zenon, <1>8, <1>i, <1>p, GotoTypes DEF StartFailed
    <2>2. teardown(s) /\ publish(s, Idle) /\ UNCHANGED snap
      BY <1>8 DEF StartFailed
    <2>3. Idle \in Summaries /\ Idle.status = "idle" /\ Idle.mode = NoConf.mode
      BY ConstantTypes, ZenonT(40) DEF Idle, NoConf
    <2>4. summary'[s] = Idle /\ summary'[o] = summary[o] /\ pending'[s] = pending[s]
      BY Zenon, <1>i, <2>2, <2>3, PublishTypes
    <2>5. Still(o) /\ Shows(s)
      BY <1>i, <2>1, <2>2, <2>3, TeardownFacts, ZenonT(40) DEF Still, Shows
    <2>6. Own(s)'
      BY <1>i, <2>1, <2>2, <2>3, <2>4, TeardownFacts, ZenonT(40) DEF Own
    <2>7. Knows(s)'
      BY <1>i, <2>1, <2>2, TeardownFacts, ZenonT(40) DEF Knows
    <2>8. s = "vpn" => Alone'
      BY <1>i, <2>1, <2>2, TeardownFacts, ZenonT(40) DEF Alone
    <2> QED BY <2>5, <2>6, <2>7, <2>8 DEF Keeps
  <1> QED BY Zenon, <1>1, <1>2, <1>3, <1>4, <1>5, <1>6, <1>7, <1>8

(* A slot torn down under the lock, to be published as its holder's last step. *)
LEMMA TearingKeeps ==
    ASSUME SlotsInv, NEW s \in Slots, teardown(s), Goto(s, "torn"),
           summary' = summary, snap' = snap, pending'[other(s)] = pending[other(s)]
    PROVE  Keeps(s)
  <1> DEFINE o == other(s)
  <1>i. Typed
    BY Zenon DEF SlotsInv
  <1>1. "torn" \in Places
    BY Zenon DEF Places
  <1>2. pc'[s] = "torn" /\ pc'[o] = pc[o]
    BY Zenon, <1>1, <1>i, GotoTypes
  <1>3. Still(o) /\ Shows(s)
    BY <1>i, <1>2, TeardownFacts, ZenonT(40) DEF Still, Shows
  <1>4. Own(s)'
    BY <1>i, <1>2, TeardownFacts, ZenonT(40) DEF Own
  <1>5. Knows(s)'
    BY <1>i, <1>2, TeardownFacts, ZenonT(40) DEF Knows
  <1>6. s = "vpn" => Alone'
    BY <1>i, <1>2, TeardownFacts, ZenonT(40) DEF Alone
  <1> QED BY Zenon, <1>3, <1>4, <1>5, <1>6 DEF Keeps

(* A step that changes neither the holder's place nor what the capture knows;
   a lease is set, or runs out, of a connected slot alone. *)
LEMMA LeaseKeeps ==
    ASSUME SlotsInv, NEW s \in Slots,
           UNCHANGED <<pc, status, conf, told, summary, snap, pending, behind>>,
           lease'[other(s)] = lease[other(s)],
           lease'[s] = "none" <=> lease[s] = "none"
    PROVE  Keeps(s)
  <1>i. Own(s) /\ Knows(s) /\ Alone
    BY Zenon DEF SlotsInv
  <1>1. Still(other(s)) /\ Shows(s)
    BY Zenon DEF Still, Shows
  <1>2. Own(s)'
    BY Zenon, <1>i DEF Own
  <1>3. Knows(s)' /\ Alone'
    BY Zenon, <1>i DEF Knows, Avoids, Alone
  <1> QED BY Zenon, <1>1, <1>2, <1>3 DEF Keeps

(* The steps of the stop, the client, the watchdog, the reconciliation and the
   live edit. *)
LEMMA OthersKeep ==
    ASSUME SlotsInv, NEW s \in Slots,
           \/ StopLocks(s) \/ StopPublishes(s) \/ Status(s) \/ LeaseRunsOut(s)
           \/ WatchdogLooks(s) \/ expire_lease(s)
           \/ ReconcileReads(s) \/ ReconcileTells(s) \/ EditReads(s) \/ EditLocks(s)
    PROVE  Keeps(s)
  <1> DEFINE o == other(s)
  <1>o. o \in Slots /\ o # s /\ (s = "vpn" => o = "game")
    BY Zenon, OtherSlot DEF other
  <1>i. Typed /\ Own(s) /\ Knows(s) /\ Alone
    BY Zenon DEF SlotsInv
  <1>p. {"free", "begun", "checked", "published", "dialling", "captured", "failed", "torn", "telling"} \subseteq Places
    BY Zenon DEF Places
  <1>t. status \in [Slots -> {"idle", "connected"}] /\ snap \in [Slots -> Summaries]
        /\ conf \in [Slots -> Confs] /\ lease \in [Slots -> {"none", "ahead", "past"}]
        /\ told \in [Slots -> Tolds] /\ pending \in [Slots -> Nat] /\ pc \in [Slots -> Places]
        /\ behind \in [Slots -> BOOLEAN]
    BY Zenon, <1>i DEF Typed
  <1>1. CASE StopLocks(s)
    BY Zenon, <1>1, TearingKeeps DEF StopLocks
  <1>2. CASE StopPublishes(s)
    <2>1. pc[s] = "torn" /\ pc'[s] = "free" /\ pc'[o] = pc[o]
      BY Zenon, <1>2, <1>i, <1>p, GotoTypes DEF StopPublishes
    <2>2. publish(s, Idle) /\ UNCHANGED <<status, conf, told, lease, snap, behind>>
      BY <1>2 DEF StopPublishes
    <2>3. Idle \in Summaries /\ Idle.status = "idle" /\ Idle.mode = NoConf.mode
      BY ConstantTypes, ZenonT(40) DEF Idle, NoConf
    <2>4. summary'[s] = Idle /\ summary'[o] = summary[o] /\ pending'[s] = pending[s]
      BY <1>i, <2>2, <2>3, PublishTypes, ZenonT(40)
    <2>5. status[s] = "idle" /\ ~told[s].up /\ conf[s] = NoConf /\ lease[s] = "none"
      BY <1>i, <2>1, ZenonT(40) DEF Own
    <2>6. Still(o) /\ Shows(s)
      BY <2>1, <2>2, <2>3, ZenonT(40) DEF Still, Shows
    <2>7. Own(s)'
      BY Zenon, <2>1, <2>2, <2>3, <2>4, <2>5 DEF Own
    <2>8. Knows(s)'
      BY Zenon, <2>1, <2>2, <2>5 DEF Knows
    <2>9. s = "vpn" => Alone'
      BY Zenon, <2>1, <2>2, <2>5 DEF Alone
    <2> QED BY Zenon, <2>6, <2>7, <2>8, <2>9 DEF Keeps
  <1>3. CASE Status(s)
    <2>1. lease[s] # "none"
      BY Zenon, <1>3, <1>i DEF Status, Own
    <2>2. lease'[s] = "ahead" /\ lease'[o] = lease[o]
      BY Zenon, <1>3, <1>o, <1>t DEF Status
    <2> QED BY Zenon, <1>3, <2>1, <2>2, LeaseKeeps DEF Status
  <1>4. CASE LeaseRunsOut(s)
    <2>1. lease[s] = "ahead" /\ lease'[s] = "past" /\ lease'[o] = lease[o]
      BY <1>4, <1>o, <1>t DEF LeaseRunsOut
    <2> QED BY Zenon, <1>4, <2>1, LeaseKeeps DEF LeaseRunsOut
  <1>5. CASE WatchdogLooks(s) \/ EditReads(s)
    BY <1>5, LeaseKeeps, ZenonT(40) DEF WatchdogLooks, EditReads
  <1>6. CASE expire_lease(s)
    <2>1. CASE teardown(s) /\ Goto(s, "torn")
      BY <1>6, <2>1, TearingKeeps, ZenonT(40) DEF expire_lease
    <2>2. CASE UNCHANGED <<pc, status, conf, told, lease, behind>>
      BY Zenon, <1>6, <2>2, LeaseKeeps DEF expire_lease
    <2> QED BY <1>6, <2>1, <2>2, ZenonT(40) DEF expire_lease
  <1>7. CASE ReconcileReads(s)
    <2>1. /\ pc[s] = "free" /\ pending'[o] = pending[o] /\ summary' = summary
      BY Zenon, <1>7, <1>o, <1>t DEF ReconcileReads
    <2>2. CASE teardown(s) /\ Goto(s, "torn") /\ UNCHANGED snap
      BY Zenon, <2>1, <2>2, TearingKeeps
    <2>3. CASE /\ ~(s = "vpn" /\ owns_all_traffic(summary["game"]))
               /\ snap' = [snap EXCEPT ![s] = IF status[s] = "connected" THEN summary[o] ELSE @]
               /\ Goto(s, IF status[s] = "connected" THEN "telling" ELSE "free")
               /\ UNCHANGED <<status, conf, told, lease, behind>>
      <3>1. /\ status[s] = "connected" => pc'[s] = "telling" /\ snap'[s] = summary[o]
            /\ status[s] # "connected" => pc'[s] = "free"
            /\ snap'[o] = snap[o] /\ pc'[o] = pc[o]
        <4>1. snap'[o] = snap[o] /\ (status[s] = "connected" => snap'[s] = summary[o])
          BY Zenon, <2>3, <1>o, <1>t
        <4>2. pc'[s] = (IF status[s] = "connected" THEN "telling" ELSE "free") /\ pc'[o] = pc[o]
          BY Zenon, <2>3, <1>o, <1>t DEF Goto
        <4> QED BY Zenon, <4>1, <4>2
      <3>2. Still(o) /\ Shows(s)
        BY <2>1, <2>3, <3>1, ZenonT(40) DEF Still, Shows
      <3>3. Own(s)'
        BY <1>i, <2>1, <2>3, <3>1, ZenonT(40) DEF Own
      <3>4. Knows(s)'
        <4>1. CASE status[s] = "connected"
          BY <4>1, <2>1, <3>1, ZenonT(40) DEF Knows
        <4>2. CASE status[s] # "connected"
          <5>1. ~told[s].up
            BY <4>2, <1>i, <2>1, ZenonT(40) DEF Own
          <5> QED BY <4>2, <5>1, <2>3, <3>1, ZenonT(40) DEF Knows
        <4> QED BY <4>1, <4>2
      <3>5. s = "vpn" => Alone'
        BY Zenon, <2>1, <2>3 DEF Alone
      <3> QED BY <3>2, <3>3, <3>4, <3>5 DEF Keeps
    <2> QED BY Zenon, <1>7, <2>2, <2>3 DEF ReconcileReads
  <1>8. CASE ReconcileTells(s)
    <2>1. pc[s] = "telling" /\ pc'[s] = "free" /\ pc'[o] = pc[o]
      BY Zenon, <1>8, <1>i, <1>p, GotoTypes DEF ReconcileTells
    <2>2. snap'[o] = snap[o] /\ UNCHANGED <<status, conf, lease, summary, pending>>
      BY Zenon, <1>8, <1>o, <1>t DEF ReconcileTells
    <2>3. told'[o] = told[o] /\ behind'[o] = behind[o]
      BY Zenon, <1>8, <1>o, <1>t DEF ReconcileTells
    <2>4. \/ told'[s] = IF told[s].up THEN Retold(s) ELSE told[s]
          \/ told'[s] = told[s] /\ behind'[s] = TRUE
      BY Zenon, <1>8, <1>t DEF ReconcileTells
    <2>5. /\ Retold(s).active = is_active(snap[s]) /\ Retold(s).up = told[s].up
          /\ Avoids(s) => Retold(s).bypass = snap[s].bypass
      BY Zenon, <1>i, TypedIsTypeOK, RetoldType DEF Avoids
    <2>6. told'[s].up => told[s].up
      BY <2>4, <2>5, ZenonT(40)
    <2>7. Still(o) /\ Shows(s)
      BY Zenon, <2>1, <2>2, <2>3 DEF Still, Shows
    <2>8. Own(s)'
      BY <1>i, <2>1, <2>2, <2>6, ZenonT(40) DEF Own
    <2>9. Knows(s)'
      <3> SUFFICES ASSUME pending[s] = 0, told'[s].up, ~behind'[s]
                   PROVE  /\ told'[s].active <=> is_active(summary[o])
                          /\ Avoids(s) => told'[s].bypass = summary[o].bypass
        BY Zenon, <2>1, <2>2 DEF Knows, Avoids
      <3>1. /\ is_active(snap[s]) <=> is_active(summary[o])
            /\ s = "vpn" => snap[s].bypass = summary[o].bypass
        BY <1>i, <2>1, ZenonT(40) DEF Knows
      <3>2. told'[s] = Retold(s)
        BY <2>4, <2>6, ZenonT(40)
      <3> QED BY <3>1, <3>2, <2>5, ZenonT(40) DEF Avoids
    <2>10. s = "vpn" => Alone'
      BY Zenon, <1>i, <2>1, <2>2 DEF Alone
    <2> QED BY <2>7, <2>8, <2>9, <2>10 DEF Keeps
  <1>9. CASE EditLocks(s)
    <2>1. pc[s] = "free" /\ UNCHANGED <<pc, status, summary, snap, pending>>
      BY Zenon, <1>9 DEF EditLocks
    <2>2. CASE UNCHANGED <<told, conf, lease, behind>>
      BY Zenon, <2>1, <2>2, LeaseKeeps
    <2>3. CASE /\ status[s] = "connected" /\ conf[s].mode = "split"
               /\ \E t \in EditOutcomes(s), accepted \in BOOLEAN, rules \in BOOLEAN :
                     /\ accepted /\ t = Nothing => ~rules
                     /\ told' = [told EXCEPT ![s] = t]
                     /\ conf' = [conf EXCEPT ![s].app = IF accepted THEN rules ELSE @]
                     /\ lease' = [lease EXCEPT ![s] = IF accepted THEN "ahead" ELSE @]
               /\ behind' = [behind EXCEPT ![s] = @ \/ ~conf[s].native]
      <3>1. PICK t \in EditOutcomes(s), accepted \in BOOLEAN, rules \in BOOLEAN :
                /\ told' = [told EXCEPT ![s] = t]
                /\ conf' = [conf EXCEPT ![s].app = IF accepted THEN rules ELSE @]
                /\ lease' = [lease EXCEPT ![s] = IF accepted THEN "ahead" ELSE @]
        BY <2>3, ZenonT(40)
      <3>2. told'[s] = t /\ told'[o] = told[o]
        BY Zenon, <3>1, <1>o, <1>t
      <3>3. lease'[o] = lease[o] /\ lease'[s] \in {"ahead", lease[s]}
        BY Zenon, <3>1, <1>o, <1>t
      <3>4. conf'[o] = conf[o] /\ conf'[s].mode = conf[s].mode /\ conf'[s].native = conf[s].native
        <4> DEFINE c == conf[s]
                   a == IF accepted THEN rules ELSE c.app
        <4>1. c \in Confs
          BY <1>t
        <4>2. conf' = [conf EXCEPT ![s] = [c EXCEPT !.app = a]]
          BY <3>1
        <4> HIDE DEF c, a
        <4>3. conf'[o] = conf[o] /\ conf'[s] = [c EXCEPT !.app = a]
          BY Zenon, <4>2, <1>o, <1>t
        <4>4. [c EXCEPT !.app = a].mode = c.mode /\ [c EXCEPT !.app = a].native = c.native
          BY <4>1, ZenonT(40) DEF Confs
        <4> QED BY Zenon, <4>3, <4>4 DEF c
      <3>5. behind'[o] = behind[o] /\ (behind'[s] <=> behind[s] \/ ~conf[s].native)
        BY <2>3, <1>o, <1>t, ZenonT(40)
      <3>6. Still(o) /\ Shows(s)
        BY Zenon, <2>1, <3>2, <3>3, <3>4, <3>5 DEF Still, Shows
      <3>7. Own(s)'
        BY Zenon, <1>i, <2>1, <2>3, <3>3, <3>4 DEF Own
      <3>8. Knows(s)'
        <4>1. CASE conf[s].native
          <5>1. told'[s] = told[s]
            BY <4>1, <3>2, ZenonT(40) DEF EditOutcomes
          <5> QED BY <5>1, <1>i, <2>1, <3>4, <3>5, ZenonT(40) DEF Knows, Avoids
        <4>2. CASE ~conf[s].native
          BY <4>2, <2>1, <3>5, ZenonT(40) DEF Knows
        <4> QED BY <4>1, <4>2
      <3>9. s = "vpn" => Alone'
        BY Zenon, <1>i, <2>1 DEF Alone
      <3> QED BY Zenon, <3>6, <3>7, <3>8, <3>9 DEF Keeps
    <2> QED BY Zenon, <1>9, <2>2, <2>3 DEF EditLocks
  <1> QED BY Zenon, <1>1, <1>2, <1>3, <1>4, <1>5, <1>6, <1>7, <1>8, <1>9

(* Every step of either slot keeps the invariant. *)
LEMMA SlotsStep ==
    ASSUME SlotsInv, [SlotsNext]_slotsVars
    PROVE  SlotsInv'
  <1>1. Typed'
    BY Zenon, TypedStep DEF SlotsInv
  <1>2. CASE UNCHANGED slotsVars
    BY Zenon, <1>1, <1>2 DEF slotsVars, SlotsInv, Own, Knows, Alone, Avoids
  <1>3. CASE SlotsNext
    <2>1. PICK s \in Slots : Keeps(s)
      BY Zenon, <1>3, StartKeeps, OthersKeep DEF SlotsNext
    <2>2. Own(s)' /\ Knows(s)' /\ Own(other(s))' /\ Knows(other(s))'
      BY Zenon, <1>1, <2>1, OtherKeeps DEF Keeps
    <2>3. Alone'
      <3>1. s = "game" \/ s = "vpn"
        BY Zenon DEF Slots
      <3> QED BY Zenon, <1>1, <2>1, <3>1, OtherKeeps DEF Keeps
    <2>4. \A u \in Slots : u = s \/ u = other(s)
      BY Zenon, OtherSlot
    <2> QED BY <1>1, <2>2, <2>3, <2>4 DEF SlotsInv
  <1> QED BY Zenon, <1>2, <1>3

(* Two idle slots satisfy it. *)
LEMMA InitSlots == SlotsInit => SlotsInv
  <1> SUFFICES ASSUME SlotsInit PROVE SlotsInv
    BY Zenon
  <1>1. Typed
    BY Zenon, ConstantTypes DEF SlotsInit, Typed, Places
  <1>2. \A s \in Slots : /\ pc[s] = "free" /\ status[s] = "idle" /\ told[s] = Nothing
                         /\ summary[s] = Idle /\ lease[s] = "none" /\ conf[s] = NoConf
    BY Zenon DEF SlotsInit
  <1>3. ~Nothing.up /\ Idle.status = "idle" /\ Idle.mode = NoConf.mode
    BY Zenon DEF Nothing, Idle, NoConf
  <1>4. \A s \in Slots : Own(s)
    BY Zenon, <1>2, <1>3 DEF Own
  <1>5. \A s \in Slots : Knows(s)
    BY Zenon, <1>2, <1>3 DEF Knows
  <1>6. Alone
    BY <1>2 DEF Alone, Slots
  <1> QED BY Zenon, <1>1, <1>4, <1>5, <1>6 DEF SlotsInv

(* With nobody at work, the invariant is SlotsAgree. *)
LEMMA InvAgrees == SlotsInv => SlotsAgree
  <1> SUFFICES ASSUME SlotsInv PROVE SlotsAgree
    BY Zenon
  <1>1. SummaryIsTrue
    BY Zenon, TypedIsTypeOK DEF SlotsInv, Own, SummaryIsTrue
  <1>2. NoVpnBesideAllTraffic
    BY Zenon DEF SlotsInv, Alone, NoVpnBesideAllTraffic, Settled
  <1>3. "vpn" \in Slots /\ "game" \in Slots /\ other("vpn") = "game" /\ other("game") = "vpn"
    BY Zenon DEF Slots, other
  <1>4. told["vpn"].active \in BOOLEAN /\ told["game"].active \in BOOLEAN
    <2>1. told["vpn"] \in Tolds /\ told["game"] \in Tolds
      BY ZenonT(60), <1>3 DEF SlotsInv, Typed
    <2> QED BY Zenon, <2>1 DEF Tolds
  <1>5. is_active(summary["game"]) \in BOOLEAN /\ is_active(summary["vpn"]) \in BOOLEAN
    BY DEF is_active
  <1>6. Settled("vpn") /\ told["vpn"].up /\ ~behind["vpn"] =>
           /\ told["vpn"].active <=> is_active(summary["game"])
           /\ ~(conf["vpn"].native /\ conf["vpn"].mode = "split") =>
                 told["vpn"].bypass = summary["game"].bypass
    BY Zenon, <1>3 DEF SlotsInv, Knows, Settled, Avoids
  <1>7. Settled("game") /\ told["game"].up /\ ~behind["game"] =>
           told["game"].active <=> is_active(summary["vpn"])
    BY Zenon, <1>3 DEF SlotsInv, Knows, Settled
  <1>8. SessionsKnowEachOther
    BY Zenon, <1>4, <1>5, <1>6, <1>7 DEF SessionsKnowEachOther
  <1> QED BY Zenon, <1>1, <1>2, <1>8 DEF SlotsAgree

(* However the starts, stops, edits, expiries and reconciliations of the two
   slots overlap, a slot at rest has published what it is, and once nothing
   waits the sessions know of each other and no VPN runs beside a game that
   carries all traffic. *)
THEOREM SlotsAlwaysAgree == SlotsSpec => []SlotsAgree
  <1>1. SlotsInv /\ [SlotsNext]_slotsVars => SlotsInv'
    BY SlotsStep
  <1> QED BY <1>1, InitSlots, InvAgrees, PTL DEF SlotsSpec

(* expire_lease looks at the lease again under the lock: a session renewed
   after the watchdog looked stays. *)
THEOREM LiveSessionIsAlwaysKept == SlotsSpec => LiveSessionIsKept
  <1>1. SlotsInv /\ [SlotsNext]_slotsVars => SlotsInv'
    BY SlotsStep
  <1>2. SlotsInv /\ [SlotsNext]_slotsVars =>
           [\A s \in Slots : watchdog[s] = "expiring" /\ watchdog'[s] = "watching"
                /\ status[s] = "connected" /\ status'[s] = "idle" => lease[s] = "past"]_slotsVars
    <2> SUFFICES ASSUME SlotsInv, SlotsNext, NEW u \in Slots, watchdog[u] = "expiring",
                        watchdog'[u] = "watching", status[u] = "connected", status'[u] = "idle"
                 PROVE  lease[u] = "past"
      OBVIOUS
    <2>1. PICK s \in Slots :
            \/ StartLocks(s) \/ StartChecks(s) \/ StartPublishes(s) \/ StartReadsOther(s)
            \/ StartCaptures(s) \/ StartBreaks(s) \/ StartConnected(s) \/ StartFailed(s)
            \/ StopLocks(s) \/ StopPublishes(s) \/ Status(s) \/ LeaseRunsOut(s)
            \/ WatchdogLooks(s) \/ expire_lease(s)
            \/ ReconcileReads(s) \/ ReconcileTells(s) \/ EditReads(s) \/ EditLocks(s)
      BY ZenonT(40) DEF SlotsNext
    <2>2. watchdog' # watchdog
      BY Zenon
    <2>3. watchdog \in [Slots -> {"watching", "expiring"}] /\ status \in [Slots -> {"idle", "connected"}]
      BY Zenon DEF SlotsInv, Typed
    <2>4. ~WatchdogLooks(s)
      BY Zenon, <2>3 DEF WatchdogLooks
    <2>5. expire_lease(s)
      BY <2>1, <2>2, <2>4, ZenonT(40) DEF StartLocks, StartChecks, StartPublishes, StartReadsOther, StartCaptures,
           StartBreaks, StartConnected, StartFailed, StopLocks, StopPublishes, Status, LeaseRunsOut,
           ReconcileReads, ReconcileTells, EditReads, EditLocks
    <2>6. u = s
      BY <2>3, <2>5 DEF expire_lease
    <2> QED BY Zenon, <2>5, <2>6 DEF expire_lease
  <1> QED BY <1>1, <1>2, InitSlots, PTL DEF SlotsSpec, LiveSessionIsKept
=============================================================================
