---------------------------- MODULE ReturnPaths ----------------------------
(***************************************************************************)
(* Which of a client's addresses the relay answers to.  Every path worker  *)
(* of a client session announces whether its path carries traffic          *)
(* (engine/src/session/relay_worker.rs, engine/src/path_policy.rs); the    *)
(* relay learns addresses from authenticated frames and selects among them *)
(* by the newest announcement of each path (relay/src/endpoints.rs, the    *)
(* handler in relay/src/main.rs).                                          *)
(*                                                                         *)
(* The network loses, delays, reorders and duplicates: every frame ever    *)
(* sent may arrive at any later moment, any number of times, or never.     *)
(* Instants are kept only as an order: `older` gives, for each known       *)
(* address, those last heard before it.                                    *)
(***************************************************************************)
EXTENDS Integers, Sequences, FiniteSets, TLC

CONSTANTS Paths,        \* the paths of the client session
          Addresses,    \* source addresses the paths' packets may come from
          CAPACITY,     \* endpoints the relay remembers (8 in the code)
          MaxFrames,    \* bound on the frames the client sends
          MaxMoves      \* bound on health changes, decisions, rebinds and lost sessions

ASSUME ReturnAssumption ==
  /\ IsFiniteSet(Paths) /\ "none" \notin Paths /\ IsFiniteSet(Addresses)
  /\ CAPACITY \in Nat \ {0} /\ MaxFrames \in Nat /\ MaxMoves \in Nat

NoPolicy == [path |-> "none", selected |-> FALSE]
Policies == {NoPolicy} \cup [path : Paths, selected : BOOLEAN]

VARIABLES
  address,     \* client: where each path's packets come from
  healthy_mask,  \* client: the paths that are up
  decision_mask, \* client: the scheduler's published decision
  sent,        \* the frames sent so far; a frame's sequence is its index
  session,     \* relay: it holds a session with this id
  endpoints,   \* relay: Endpoints of that session
  accepted,    \* relay: sequences its replay window has accepted
  moves        \* environment steps taken

clientVars == <<address, healthy_mask, decision_mask, sent>>
relayVars == <<session, endpoints, accepted>>
vars == <<clientVars, relayVars, moves>>

-----------------------------------------------------------------------------
(* Endpoints: entries maps each known address to its policy and health,    *)
(* older gives the addresses heard before each, and fresh holds those      *)
(* heard within REPAIR_FRESHNESS.  policy_sequences is 0 for a path that   *)
(* has applied nothing.                                                    *)

EndpointsDefault ==
  [entries |-> [a \in {} |-> NoPolicy], older |-> [a \in {} |-> {}], fresh |-> {},
   policy_sequences |-> [p \in Paths |-> 0], selective |-> FALSE]

(* The address heard longest ago, and the one heard last.                  *)
Oldest(e) == {a \in DOMAIN e.entries : e.older[a] = {}}
Newest(e) == {a \in DOMAIN e.entries : e.older[a] = DOMAIN e.entries \ {a}}

(* The endpoints without the addresses that fail `keep`.                   *)
retain(e, keep) ==
  [e EXCEPT !.entries = [a \in DOMAIN e.entries \cap keep |-> e.entries[a]],
            !.older = [a \in DOMAIN e.entries \cap keep |-> e.older[a] \cap keep],
            !.fresh = e.fresh \cap keep]

(* An address the relay already knows is only refreshed; a new one takes   *)
(* the place of the least recently heard when the table is full.           *)
observe(e, from) ==
  LET room == IF from \notin DOMAIN e.entries /\ Cardinality(DOMAIN e.entries) >= CAPACITY
              THEN retain(e, Addresses \ Oldest(e))
              ELSE e
      entry == IF from \in DOMAIN e.entries THEN e.entries[from]
               ELSE [policy |-> NoPolicy, healthy |-> TRUE]
      known == DOMAIN room.entries \cup {from}
  IN [room EXCEPT
        !.entries = [a \in known |-> IF a = from THEN entry ELSE room.entries[a]],
        !.older = [a \in known |-> IF a = from THEN known \ {from} ELSE room.older[a] \ {from}],
        !.fresh = room.fresh \cup {from}]

(* The newest announcement of a path moves the path to the address it came *)
(* from; an older one is ignored.                                          *)
apply(e, from, policy, is_healthy, sequence) ==
  LET others == {a \in DOMAIN e.entries :
                   a = from \/ e.entries[a].policy.path # policy.path}
  IN IF sequence <= e.policy_sequences[policy.path] THEN e
     ELSE [observe(retain(e, others), from) EXCEPT
             !.policy_sequences[policy.path] = sequence,
             !.selective = TRUE,
             !.entries[from] = [policy |-> policy, healthy |-> is_healthy]]

Selected(e) == {a \in DOMAIN e.entries :
                  ~e.selective \/ e.entries[a].policy.selected}

(* Mutant: only the most recently heard selected address is answered.      *)
targets_newest_only(e) ==
  LET chosen == {a \in Selected(e) : Selected(e) \ {a} \subseteq e.older[a]}
  IN IF chosen # {} THEN chosen ELSE Newest(e)

(* Where a reply goes: the selected addresses, or only the most recently   *)
(* heard one when none is selected.                                        *)
targets(e) ==
  IF Selected(e) # {} THEN Selected(e) ELSE Newest(e)

(* The addresses a repair may take as its turn goes round: fresh, healthy  *)
(* announced paths, those not carrying replies first; failing that one of  *)
(* the reply targets.  Empty stands for None, sent like any other reply.   *)
repair_target(e) ==
  LET usable == {a \in e.fresh : /\ e.entries[a].healthy
                                 /\ e.entries[a].policy # NoPolicy}
      spare == {a \in usable : ~e.entries[a].policy.selected}
  IN IF ~e.selective THEN {}
     ELSE IF spare # {} THEN spare
     ELSE IF usable # {} THEN usable
     ELSE targets(e)

-----------------------------------------------------------------------------
(* The client.                                                             *)

selected_paths(dec, ok) ==
  IF dec \cap ok # {} THEN dec \cap ok ELSE IF ok # {} THEN ok ELSE dec

Carrying == selected_paths(decision_mask, healthy_mask)

Send(frame) == Len(sent) < MaxFrames /\ sent' = Append(sent, frame)

(* A worker announces when the selection differs from what it announced    *)
(* last, and again whenever the refresh is due, so it may at any pass.     *)
Announce(p) ==
  /\ Send([kind |-> "policy", from |-> {address[p]}, path |-> p,
           selected |-> p \in Carrying, healthy |-> p \in healthy_mask])
  /\ UNCHANGED <<address, healthy_mask, decision_mask, relayVars, moves>>

(* One game packet: a single frame, a copy of it on every carrying path.   *)
SendData ==
  /\ Carrying # {}
  /\ Send([kind |-> "data", from |-> {address[p] : p \in Carrying}])
  /\ UNCHANGED <<address, healthy_mask, decision_mask, relayVars, moves>>

SendProbe(p) ==
  /\ Send([kind |-> "probe", from |-> {address[p]}])
  /\ UNCHANGED <<address, healthy_mask, decision_mask, relayVars, moves>>

Move == moves < MaxMoves /\ moves' = moves + 1

(* A worker publishes that its path came up or went down.                  *)
publish_path_health(p) ==
  /\ Move
  /\ healthy_mask' = IF p \in healthy_mask THEN healthy_mask \ {p} ELSE healthy_mask \cup {p}
  /\ UNCHANGED <<address, decision_mask, sent, relayVars>>

(* The scheduler publishes another decision.                               *)
Decide ==
  /\ Move
  /\ \E d \in (SUBSET Paths) \ {{}, decision_mask} : decision_mask' = d
  /\ UNCHANGED <<address, healthy_mask, sent, relayVars>>

(* A NAT rebinds path p, or its transport is redialled.                    *)
Rebind(p) ==
  /\ Move
  /\ \E a \in Addresses \ {address[q] : q \in Paths} :
       address' = [address EXCEPT ![p] = a]
  /\ UNCHANGED <<healthy_mask, decision_mask, sent, relayVars>>

-----------------------------------------------------------------------------
(* The relay.                                                              *)

(* A copy of frame n arrives from one of the addresses it was sent from.   *)
(* A probe for a session the relay does not hold is answered without       *)
(* creating one; any other frame admits the session.  The address is       *)
(* learnt before the replay window turns a duplicate away.                 *)
Receive(n, from) ==
  /\ n \in DOMAIN sent /\ from \in sent[n].from
  /\ session \/ sent[n].kind # "probe"
  /\ session' = TRUE
  /\ accepted' = accepted \cup {n}
  /\ LET known == observe(endpoints, from) IN
     endpoints' =
       IF n \notin accepted /\ sent[n].kind = "policy"
       THEN apply(known, from, [path |-> sent[n].path, selected |-> sent[n].selected],
                  sent[n].healthy, n)
       ELSE known
  /\ UNCHANGED <<clientVars, moves>>

(* Time passes: the address heard longest ago stops being fresh, then is   *)
(* pruned.  Every operation prunes first, so when it happens is not seen.  *)
GrowStale ==
  /\ \E a \in endpoints.fresh :
       /\ endpoints.older[a] \cap endpoints.fresh = {}
       /\ endpoints' = [endpoints EXCEPT !.fresh = @ \ {a}]
  /\ UNCHANGED <<clientVars, session, accepted, moves>>

prune ==
  /\ \E a \in Oldest(endpoints) :
       /\ a \notin endpoints.fresh
       /\ endpoints' = retain(endpoints, Addresses \ {a})
  /\ UNCHANGED <<clientVars, session, accepted, moves>>

(* The relay restarts, or expires or evicts the session: its endpoints and *)
(* its replay window go with it.                                           *)
SessionLost ==
  /\ session /\ Move
  /\ session' = FALSE /\ endpoints' = EndpointsDefault /\ accepted' = {}
  /\ UNCHANGED clientVars

-----------------------------------------------------------------------------

Init ==
  /\ address \in [Paths -> Addresses]
  /\ \A p, q \in Paths : p # q => address[p] # address[q]
  /\ healthy_mask = {} /\ decision_mask \in (SUBSET Paths) \ {{}}
  /\ sent = <<>> /\ session = FALSE /\ endpoints = EndpointsDefault
  /\ accepted = {} /\ moves = 0

Next ==
  \/ \E p \in Paths : Announce(p) \/ SendProbe(p) \/ Rebind(p)
                       \/ publish_path_health(p)
  \/ SendData \/ Decide
  \/ \E n \in 1..MaxFrames : \E from \in Addresses : Receive(n, from)
  \/ GrowStale \/ prune \/ SessionLost

Spec == Init /\ [][Next]_vars

-----------------------------------------------------------------------------

TypeOK ==
  /\ endpoints.entries \in
       [DOMAIN endpoints.entries -> [policy : Policies, healthy : BOOLEAN]]
  /\ endpoints.policy_sequences \in [Paths -> 0..Len(sent)]
  /\ endpoints.selective \in BOOLEAN /\ session \in BOOLEAN
  /\ accepted \subseteq DOMAIN sent

(* The recency order is a total order of exactly the entries, and the      *)
(* table stays within its capacity (endpoints.rs, observe).                *)
TableWellFormed ==
  LET D == DOMAIN endpoints.entries
      older == endpoints.older
  IN /\ older \in [D -> SUBSET D] /\ endpoints.fresh \subseteq D
     /\ Cardinality(D) <= CAPACITY
     /\ \A a \in D : a \notin older[a] /\ \A b \in older[a] : older[b] \subseteq older[a]
     /\ \A a, b \in D : a = b \/ a \in older[b] \/ b \in older[a]

Entries(p) == {a \in DOMAIN endpoints.entries : endpoints.entries[a].policy.path = p}

(* A path has at most one return destination, however late the packets of *)
(* an address it has left arrive ("Its delayed packets must not leave a    *)
(* second return destination alive for 45 s", endpoints.rs apply), and the *)
(* entry says what the newest announcement applied for the path said, at   *)
(* the address that announcement came from: nothing an overtaken, repeated *)
(* or data frame does changes it.                                          *)
EntryIsNewestAnnouncement ==
  /\ TypeOK /\ TableWellFormed
  /\ \A p \in Paths : Cardinality(Entries(p)) <= 1
  /\ \A p \in Paths : \A a \in Entries(p) :
       LET n == endpoints.policy_sequences[p] IN
       /\ n > 0 /\ sent[n].kind = "policy" /\ sent[n].path = p
       /\ a \in sent[n].from
       /\ endpoints.entries[a].policy.selected = sent[n].selected
       /\ endpoints.entries[a].healthy = sent[n].healthy

(* While the relay knows any address, a reply and a repair have somewhere  *)
(* to go, and when nothing is selected a reply goes to one address only    *)
(* ("rather than blackholing replies or multiplying them onto every node", *)
(* endpoints.rs, targets).                                                 *)
HaveSomewhereToGo ==
  DOMAIN endpoints.entries # {} =>
    /\ targets(endpoints) # {}
    /\ endpoints.selective => repair_target(endpoints) # {}
    /\ endpoints.selective /\ (\A a \in DOMAIN endpoints.entries :
                                 ~endpoints.entries[a].policy.selected)
         => Cardinality(targets(endpoints)) = 1

(* Once the relay has applied each path's latest announcement, and that    *)
(* announcement still describes the path, replies go to exactly the        *)
(* carrying paths' current addresses, whatever else is still in flight; at *)
(* any time each path's entry is its newest announcement's, and replies    *)
(* have somewhere to go.                                                   *)
Announcements(p) == {n \in DOMAIN sent : sent[n].kind = "policy" /\ sent[n].path = p}

UpToDate(p) ==
  LET n == endpoints.policy_sequences[p] IN
  /\ n > 0 /\ \A k \in Announcements(p) : k <= n
  /\ sent[n].from = {address[p]} /\ sent[n].selected = (p \in Carrying)
  /\ Entries(p) # {}

RepliesFollowTheClient ==
  EntryIsNewestAnnouncement /\ HaveSomewhereToGo /\
  ((\A p \in Paths : UpToDate(p)) =>
    targets(endpoints) = {address[p] : p \in Carrying})

(* For TLC.  Nothing orders or singles out a path or an address, and only  *)
(* invariants are checked, so permuting them is sound.                     *)
Symmetry == Permutations(Paths) \cup Permutations(Addresses)
=============================================================================
