---------------------------- MODULE NameLookups -----------------------------
(***************************************************************************)
(* Name resolution beside Windows: who answers a lookup, and the flushes   *)
(* of the resolver cache.                                                  *)
(***************************************************************************)
EXTENDS Naturals, FiniteSets

(***************************************************************************)
(* Who answers a name lookup while a game session and a VPN session come   *)
(* and go: each engine's split capture or DNS guard (engine/src/           *)
(* dns_guard.rs, dns_policy.rs, capture.rs) decides with what it was last  *)
(* told of the other session, the game's handles seeing every packet       *)
(* before the VPN's.                                                       *)
(***************************************************************************)

CONSTANTS
  GameKinds, VpnKinds  \* subsets of "split", "all", "native split", "native all"

Role == {"game", "vpn"}
Beside(s) == IF s = "game" THEN "vpn" ELSE "game"
(* Who may ask: Windows' resolver, an application of one session's rules,  *)
(* another application, or an engine and the lookups of its own nodes.     *)
Originators == {"windows", "game app", "vpn app", "other app", "own"}

VARIABLES
  lookSlots,   \* per session: phase, kind, remote, apps (it has application rules)
  toldOf,        \* per engine: what it holds of the other: active, apps
  untold,      \* sessions the service has yet to tell of the other's change
  name_lookup       \* the lookup in flight, or NoLookup

lookVars == <<lookSlots, toldOf, untold, name_lookup>>

NoLookup == [at |-> "none"]
Down == [phase |-> "off", kind |-> "split", remote |-> FALSE, apps |-> FALSE]
Active(s) == lookSlots[s].phase # "off"

(* summary_of's app_dns_rules and is_active, as the other engine is told.  *)
Summary(s) ==
  [active |-> Active(s),
   apps |-> Active(s) /\ (lookSlots[s].kind \in {"all", "native all"} \/ lookSlots[s].apps)]

LInit ==
  /\ lookSlots = [s \in Role |-> Down]
  /\ toldOf = [s \in Role |-> [active |-> FALSE, apps |-> FALSE]]
  /\ untold = {} /\ name_lookup = NoLookup

-----------------------------------------------------------------------------
(* The decisions.                                                          *)

(* dns_policy::route *)
RouteRemote(ownAppsOnly, yields, selected, application, bootstrap) ==
  /\ ~bootstrap
  /\ selected \/ (~ownAppsOnly /\ ~(yields /\ application))

IsApplication(q) == q.known /\ q.by \in {"game app", "vpn app", "other app"}
Selects(s, q) ==
  q.known /\ \/ s = "game" /\ q.by = "game app"
             \/ s = "vpn" /\ q.by = "vpn app" /\ lookSlots[s].apps

OwnAppsOnly(s) == s = "vpn" /\ toldOf[s].active
(* yields_foreign_lookups, and the guard's third argument.                 *)
Yields(s) == s = "game" /\ toldOf[s].active /\ toldOf[s].apps

(* The DNS branch of run_selected_capture: IPv4, on whatever interface.    *)
SplitDecides(s, q) ==
  IF ~lookSlots[s].remote THEN "pass"
  ELSE IF OwnAppsOnly(s) /\ ~q.known /\ q.by # "own" THEN "dropped"
  ELSE IF RouteRemote(OwnAppsOnly(s), Yields(s), Selects(s, q), IsApplication(q), q.by = "own")
  THEN s ELSE "pass"

(* The guard's thread: what it does not pass is dropped, for Windows to    *)
(* retry on the tunnel's adapter.                                          *)
GuardDecides(s, q) ==
  LET all == lookSlots[s].kind \in {"all", "native all"}
      selected == Selects(s, q) \/ (all /\ IsApplication(q))
  IN CASE ~q.known /\ q.by # "own" /\ OwnAppsOnly(s) -> "dropped"
       [] OTHER -> IF RouteRemote(OwnAppsOnly(s), Yields(s), selected,
                                  IsApplication(q), q.by = "own")
                     THEN "dropped" ELSE "pass"

(* guard_filter: every interface but the tunnel's, or IPv6 beside a split  *)
(* capture; everything while a capture is being replaced.                  *)
Guards(s, q) ==
  /\ lookSlots[s].remote
  /\ \/ lookSlots[s].phase = "replacing"
     \/ lookSlots[s].phase = "on"
        /\ IF lookSlots[s].kind = "split" THEN q.family = 6 ELSE q.via # s

Decides(s, q) ==
  IF lookSlots[s].phase = "on" /\ lookSlots[s].kind = "split" /\ q.family = 4
    THEN SplitDecides(s, q)
    ELSE IF Guards(s, q) THEN GuardDecides(s, q) ELSE "pass"

-----------------------------------------------------------------------------
(* A lookup leaves by the physical interface, or by a tunnel's adapter.    *)
(* It counts as disturbed when a session, or what an engine was told of    *)
(* one, changed under way.                                                 *)
Disturb == IF name_lookup.at \in Role THEN [name_lookup EXCEPT !.disturbed = TRUE] ELSE NoLookup

LookupLeaves == \E by \in Originators, family \in {4, 6}, known \in BOOLEAN,
                   via \in {"physical"} \cup {s \in Role : lookSlots[s].phase = "on"
                             /\ lookSlots[s].kind \in {"all", "native all"}} :
  /\ name_lookup.at = "none"
  /\ by = "vpn app" => lookSlots["vpn"].apps
  /\ family = 6 => via = "physical"
  /\ name_lookup' = [at |-> "game", by |-> by, family |-> family, known |-> known, via |-> via,
                disturbed |-> untold # {}]
  /\ UNCHANGED <<lookSlots, toldOf, untold>>

(* What leaves by a tunnel's adapter is that session's to answer.          *)
LookupMeets(s) ==
  /\ name_lookup.at = s
  /\ LET decision == Decides(s, name_lookup)
     IN name_lookup' = IF decision = "pass" /\ s = "game"
                    THEN [name_lookup EXCEPT !.at = "vpn"]
                    ELSE [at |-> "ended", asked |-> name_lookup,
                          by |-> IF decision = "pass" THEN name_lookup.via ELSE decision]
  /\ UNCHANGED <<lookSlots, toldOf, untold>>

-----------------------------------------------------------------------------
(* The sessions.  A start publishes itself, reads the other's summary, and *)
(* opens its capture with it much later; the service tells the other       *)
(* session of every change once it is connected (reconcile_other_session). *)
LookStarts(s) == \E kind \in IF s = "game" THEN GameKinds ELSE VpnKinds,
                    answers \in BOOLEAN, apps \in IF s = "game" THEN {TRUE} ELSE BOOLEAN :
  /\ lookSlots[s].phase = "off"
  /\ kind = "all" /\ s = "game" => ~Active("vpn")
  /\ s = "vpn" => ~(Active("game") /\ lookSlots["game"].kind = "all")
  /\ lookSlots' = [lookSlots EXCEPT ![s] =
       [phase |-> "starting", kind |-> kind, remote |-> answers, apps |-> apps]]
  /\ toldOf' = [toldOf EXCEPT ![s] = Summary(Beside(s))]
  /\ untold' = (untold \ {s}) \cup {Beside(s)}
  /\ name_lookup' = Disturb

LookCaptures(s) ==
  /\ lookSlots[s].phase \in {"starting", "replacing"}
  /\ lookSlots' = [lookSlots EXCEPT ![s].phase = "on"]
  /\ name_lookup' = Disturb
  /\ UNCHANGED <<toldOf, untold>>

LookStops(s) ==
  /\ lookSlots[s].phase \in {"starting", "on"}
  /\ lookSlots' = [lookSlots EXCEPT ![s] = Down]
  /\ untold' = (untold \ {s}) \cup {Beside(s)}
  /\ name_lookup' = Disturb
  /\ UNCHANGED toldOf

(* set-other-session-active for the game and a native VPN; for a split VPN *)
(* set-foreign-bypass, which reopens the capture with the new flag; for an *)
(* all-traffic VPN set-foreign-bypass only swaps host routes.              *)
LookIsTold(s) ==
  LET kind == lookSlots[s].kind
      now == Summary(Beside(s))
  IN /\ s \in untold /\ lookSlots[s].phase \in {"off", "on"}
     /\ untold' = untold \ {s}
     /\ name_lookup' = Disturb
     /\ CASE lookSlots[s].phase = "off" \/ (s = "vpn" /\ kind = "all") ->
               UNCHANGED <<toldOf, lookSlots>>
          [] lookSlots[s].phase = "on" /\ s = "vpn" /\ kind = "split" ->
               /\ toldOf' = [toldOf EXCEPT ![s].active = now.active]
               /\ lookSlots' = [lookSlots EXCEPT ![s].phase = "replacing"]
          [] OTHER -> toldOf' = [toldOf EXCEPT ![s] = now] /\ UNCHANGED lookSlots

(* A live rule edit of a split session reopens its capture.                *)
LookIsEdited(s) ==
  /\ lookSlots[s].phase = "on" /\ lookSlots[s].kind = "split"
  /\ toldOf' = [toldOf EXCEPT ![s] = Summary(Beside(s))]
  /\ lookSlots' = [lookSlots EXCEPT ![s].phase = "replacing"]
  /\ name_lookup' = Disturb
  /\ UNCHANGED untold

LNext ==
  \/ LookupLeaves
  \/ \E s \in Role : LookupMeets(s) \/ LookStarts(s) \/ LookCaptures(s) \/ LookStops(s)
                     \/ LookIsTold(s) \/ LookIsEdited(s)

LSpec == LInit /\ [][LNext]_lookVars

-----------------------------------------------------------------------------
LTypeOK ==
  /\ \A s \in Role : lookSlots[s].phase \in {"off", "starting", "on", "replacing"}
  /\ untold \subseteq Role
  /\ name_lookup.at \in {"none", "game", "vpn", "ended"}

Serves(s) == lookSlots[s].phase \in {"on", "replacing"} /\ lookSlots[s].remote
Current(s) == toldOf[s].active = Active(Beside(s))

(* "shared Windows DNS follows the game"; "Identifiable app-owned DNS      *)
(* follows its game rule first, otherwise its selected VPN rule"           *)
(* (README.md): a lookup no change overtook, between engines whose flags   *)
(* are current, is never answered outside the session it is assigned to,   *)
(* and an identifiable IPv4 lookup between split sessions is not lost      *)
(* between the two engines' decisions either (dns_policy::route, the       *)
(* guard, the priorities of the two engines' handles).                     *)
LookupsAreAssigned ==
  /\ LTypeOK
  /\ name_lookup.at = "ended" /\ ~name_lookup.asked.disturbed =>
       LET q == name_lookup.asked
           to == name_lookup.by
           vpnOwns == q.by = "vpn app" \/ (q.by # "own" /\ ~Active("game"))
       IN /\ q.by \in {"windows", "game app"} /\ Serves("game") /\ q.via = "physical"
               => to \in {"game", "dropped"}
          /\ q.known /\ vpnOwns /\ Serves("vpn") /\ Current("vpn") /\ q.via = "physical"
               /\ (Active("game") => toldOf["game"].apps)
               => to \in {"vpn", "dropped"}
          /\ q.by = "own" => to \in {"physical", q.via}
          /\ /\ q.known /\ q.family = 4
             /\ \A s \in Role : lookSlots[s].phase # "replacing"
                               /\ (lookSlots[s].phase = "on" => lookSlots[s].kind = "split")
             => to # "dropped"

-----------------------------------------------------------------------------
(***************************************************************************)
(* flush_dns_cache (engine/src/netconfig.rs): callers ask for a flush of   *)
(* the resolver cache without waiting for it, one thread at a time makes   *)
(* the call, and the two flags RUNNING and AGAIN decide who does.  Each    *)
(* access to a flag is a step of its own.                                  *)
(***************************************************************************)

CONSTANTS
  Askers,       \* threads that ask for a flush, once each
  MaxUnspawned  \* bound: flush threads Windows refuses to start

VARIABLES
  yRunning, yAgain,  \* the two flags
  yAsker,            \* per caller: "fresh", "asked", "spawning", "unspawned" or "done"
  yThreads,          \* the flush threads and where they stand, as a set of <<owner, place>>
  yOwed,             \* callers whose request no flush has begun after
  yUnspawned         \* flush threads that did not start

yVars == <<yRunning, yAgain, yAsker, yThreads, yOwed, yUnspawned>>

YInit ==
  /\ yRunning = FALSE /\ yAgain = FALSE
  /\ yAsker = [a \in Askers |-> "fresh"]
  /\ yThreads = {} /\ yOwed = {} /\ yUnspawned = 0

(* AGAIN.store(true) *)
Ask(a) ==
  /\ yAsker[a] = "fresh"
  /\ yAgain' = TRUE /\ yOwed' = yOwed \cup {a}
  /\ yAsker' = [yAsker EXCEPT ![a] = "asked"]
  /\ UNCHANGED <<yRunning, yThreads, yUnspawned>>

(* RUNNING.swap(true): a set flag means a thread is there to see AGAIN.    *)
Claim(a) ==
  /\ yAsker[a] = "asked"
  /\ yRunning' = TRUE
  /\ yAsker' = [yAsker EXCEPT ![a] = IF yRunning THEN "done" ELSE "spawning"]
  /\ UNCHANGED <<yAgain, yThreads, yOwed, yUnspawned>>

Spawn(a) ==
  /\ yAsker[a] = "spawning"
  /\ \/ /\ yThreads' = yThreads \cup {<<a, "look">>}
        /\ yAsker' = [yAsker EXCEPT ![a] = "done"]
        /\ UNCHANGED yUnspawned
     \/ /\ yUnspawned < MaxUnspawned /\ yUnspawned' = yUnspawned + 1
        /\ yAsker' = [yAsker EXCEPT ![a] = "unspawned"]
        /\ UNCHANGED yThreads
  /\ UNCHANGED <<yRunning, yAgain, yOwed>>

Unclaim(a) ==
  /\ yAsker[a] = "unspawned"
  /\ yRunning' = FALSE
  /\ yAsker' = [yAsker EXCEPT ![a] = "done"]
  /\ UNCHANGED <<yAgain, yThreads, yOwed, yUnspawned>>

Move(a, from, to) == yThreads' = (yThreads \ {<<a, from>>}) \cup {<<a, to>>}

(* AGAIN.swap(false), and the flush it asks for.                           *)
Look(a) ==
  /\ <<a, "look">> \in yThreads
  /\ yAgain' = FALSE
  /\ Move(a, "look", IF yAgain THEN "flush" ELSE "release")
  /\ UNCHANGED <<yRunning, yAsker, yOwed, yUnspawned>>

(* DnsFlushResolverCache begins after every request made so far.           *)
Flush(a) ==
  /\ <<a, "flush">> \in yThreads
  /\ Move(a, "flush", "look") /\ yOwed' = {}
  /\ UNCHANGED <<yRunning, yAgain, yAsker, yUnspawned>>

Release2(a) ==
  /\ <<a, "release">> \in yThreads
  /\ yRunning' = FALSE /\ Move(a, "release", "recheck")
  /\ UNCHANGED <<yAgain, yAsker, yOwed, yUnspawned>>

(* A request that found RUNNING set after the last look is taken here.     *)
(* Mutant: the thread ends without looking again. *)
Recheck_skipped(a) ==
  /\ <<a, "recheck">> \in yThreads
  /\ yThreads' = yThreads \ {<<a, "recheck">>}
  /\ UNCHANGED <<yRunning, yAgain, yAsker, yOwed, yUnspawned>>

Recheck(a) ==
  /\ <<a, "recheck">> \in yThreads
  /\ IF yAgain THEN Move(a, "recheck", "reclaim") ELSE yThreads' = yThreads \ {<<a, "recheck">>}
  /\ UNCHANGED <<yRunning, yAgain, yAsker, yOwed, yUnspawned>>

Reclaim(a) ==
  /\ <<a, "reclaim">> \in yThreads
  /\ yRunning' = TRUE
  /\ IF yRunning THEN yThreads' = yThreads \ {<<a, "reclaim">>} ELSE Move(a, "reclaim", "look")
  /\ UNCHANGED <<yAgain, yAsker, yOwed, yUnspawned>>

YNext == \E a \in Askers :
  Ask(a) \/ Claim(a) \/ Spawn(a) \/ Unclaim(a) \/ Look(a) \/ Flush(a)
  \/ Release2(a) \/ Recheck(a) \/ Reclaim(a)

YSpec == YInit /\ [][YNext]_yVars

-----------------------------------------------------------------------------
YTypeOK ==
  /\ yRunning \in BOOLEAN /\ yAgain \in BOOLEAN /\ yOwed \subseteq Askers
  /\ yThreads \subseteq Askers \X {"look", "flush", "release", "recheck", "reclaim"}

(* "A flush asked for while one runs is done again once it returns": when  *)
(* every caller has returned and no flush thread is left, each request was *)
(* followed by a flush, unless a thread could not be started; and never do *)
(* two threads flush at once (flush_dns_cache).                            *)
FlushesAreKept ==
  /\ YTypeOK
  /\ Cardinality({t \in yThreads : t[2] \in {"look", "flush", "release"}}) <= 1
  /\ (\A a \in Askers : yAsker[a] \in {"fresh", "done"}) /\ yThreads = {} /\ yUnspawned = 0
       => yOwed = {} /\ ~yRunning
=============================================================================
