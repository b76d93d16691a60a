---------------------------- MODULE DirectRoutes ----------------------------
(***************************************************************************)
(* The VPN's direct list under all traffic: the ranges and names that are  *)
(* routed around the tunnel (engine/src/direct_list.rs) and the Windows    *)
(* routes kept for them (engine/src/direct_routes.rs).  A list is          *)
(* installed by a background thread, replaced by edits, extended by the    *)
(* addresses two readers learn from DNS replies, and removed at the end; a *)
(* killed engine leaves its rows for the next start to sweep.              *)
(*                                                                         *)
(* An address is a number of WIDTH bits and a name the sequence of its     *)
(* labels.                                                                 *)
(***************************************************************************)
EXTENDS Integers, FiniteSets, Sequences, SequencesExt

CONSTANTS
  WIDTH,        \* bits of an address
  MIN_PREFIX,   \* the widest network a list may name
  MAX_LEARNED,  \* addresses learned from replies
  Specs,        \* lists a user may ask for: networks and domains
  Replies,      \* DNS replies: the question, every name of the chain, addresses
  Protected,    \* the tunnel's resolvers
  MaxReplaces,  \* bound: edits of the list in one engine
  MaxReplies,   \* bound: replies read
  MaxRefusals,  \* bound: routes Windows refuses
  MaxEngines    \* bound: engines started, the first included

VARIABLES
  xRows,      \* the direct routes Windows holds
  xList,      \* DirectRouter.list
  xInstalled, \* DirectRouter.installed
  xLearned,   \* DirectRouter.learned: the question each address was learned for
  xGen,       \* DirectRouter.generation
  xStopped,   \* DirectRouter.stopped
  xInstaller, \* the installing thread
  xReader,    \* per reader, the addresses it has yet to learn, and for which name
  xObserver,  \* the observer runs
  xControl,   \* where replace or drop stands
  xSpec,      \* the list replace is putting in
  xCount      \* replaces, replies, refusals and engines so far

xVars == <<xRows, xList, xInstalled, xLearned, xGen, xStopped, xInstaller,
           xReader, xObserver, xControl, xSpec, xCount>>

Readers == {"downlink", "observer"}
RouteAddresses == 0 .. 2^WIDTH - 1

-----------------------------------------------------------------------------
(* direct_list.rs *)

(* parse_network: the range a network names, host bits cleared; a network  *)
(* wider than MIN_PREFIX is left out.                                      *)
parse_network(n) ==
  LET size == 2^(WIDTH - n.prefix)
      first == (n.address \div size) * size
  IN <<first, first + size - 1>>

(* merge: sorted ranges, each joined to the last when it touches it.       *)
merge(ranges) ==
  LET Ordered(r, s) == r[1] < s[1] \/ (r[1] = s[1] /\ r[2] < s[2])
      Join(merged, r) ==
        IF merged # << >> /\ r[1] <= Last(merged)[2] + 1
        THEN [merged EXCEPT ![Len(merged)][2] = IF r[2] > @ THEN r[2] ELSE @]
        ELSE Append(merged, r)
  IN FoldLeft(Join, << >>, SetToSortSeq(ranges, Ordered))

contains(list, a) == \E i \in DOMAIN list.ranges :
  list.ranges[i][1] <= a /\ a <= list.ranges[i][2]

(* exclude: the range that holds the address is cut around it.             *)
exclude(ranges, a) ==
  LET Pieces(r) ==
        IF a < r[1] \/ a > r[2] THEN << r >>
        ELSE (IF r[1] < a THEN << <<r[1], a - 1>> >> ELSE << >>)
             \o (IF a < r[2] THEN << <<a + 1, r[2]>> >> ELSE << >>)
  IN FlattenSeq([i \in DOMAIN ranges |-> Pieces(ranges[i])])

compile(spec) ==
  LET kept == {n \in spec.networks : n.prefix >= MIN_PREFIX}
      merged == merge({parse_network(n) : n \in kept})
  IN [ranges |-> FoldLeft(exclude, merged, SetToSeq(Protected)),
      exact |-> spec.exact, suffixes |-> spec.suffixes]

has_domains(list) == list.exact # {} \/ list.suffixes # {}

(* matches_name: listed as it is, or any of its endings listed as suffix.  *)
matches_name(list, name) ==
  \/ name \in list.exact
  \/ \E i \in DOMAIN name : SubSeq(name, i, Len(name)) \in list.suffixes

(* prefixes: from the start of each range, the largest aligned block that  *)
(* still fits, again and again.                                            *)
prefixes(list) ==
  LET Bits(start, end) ==
        CHOOSE b \in 0 .. WIDTH :
          /\ start % 2^b = 0 /\ start + 2^b - 1 <= end
          /\ \A c \in b + 1 .. WIDTH : start % 2^c # 0 \/ start + 2^c - 1 > end
      Blocks[start \in 0 .. 2^WIDTH, end \in RouteAddresses] ==
        IF start > end THEN {}
        ELSE LET b == Bits(start, end)
             IN {<<start, WIDTH - b>>} \cup Blocks[start + 2^b, end]
  IN UNION {Blocks[list.ranges[i][1], list.ranges[i][2]] : i \in DOMAIN list.ranges}

(* answered_addresses: any name of the chain is enough.                    *)
answered_addresses(list, reply) ==
  IF has_domains(list) /\ \E n \in reply.names : matches_name(list, n)
  THEN reply.addresses ELSE {}

-----------------------------------------------------------------------------
(* direct_routes.rs *)

NoInstall == [gen |-> 0, stale |-> {}, todo |-> {}, at |-> "done"]
NoReading == [addresses |-> {}, question |-> << >>]
Begun(gen) == [gen |-> gen, stale |-> {}, todo |-> {}, at |-> "begin"]

(* start: the sweep by metric, then refresh of a fresh router.             *)
ListStarted(spec) ==
  /\ xList' = compile(spec)
  /\ xInstalled' = {} /\ xLearned' = << >> /\ xGen' = 1 /\ xStopped' = FALSE
  /\ xInstaller' = Begun(1)
  /\ xReader' = [r \in Readers |-> NoReading]
  /\ xObserver' = has_domains(compile(spec))
  /\ xControl' = "idle" /\ xSpec' = spec

XInit ==
  /\ xRows = {} /\ xList = [ranges |-> << >>, exact |-> {}, suffixes |-> {}]
  /\ xInstalled = {} /\ xLearned = << >> /\ xGen = 0 /\ xStopped = TRUE
  /\ xInstaller = NoInstall /\ xReader = [r \in Readers |-> NoReading]
  /\ xObserver = FALSE /\ xControl = "off"
  /\ xSpec = [networks |-> {}, exact |-> {}, suffixes |-> {}]
  /\ xCount = [replaces |-> 0, replies |-> 0, refusals |-> 0, engines |-> 0]

Sweep(spec) ==
  /\ xControl = "off" /\ xCount.engines < MaxEngines
  /\ ListStarted(spec) /\ xRows' = {}
  /\ xCount' = [xCount EXCEPT !.engines = @ + 1]

(* add_route_via: an existing row is deleted before it is created again,   *)
(* so a refusal may cost it.                                               *)
AddRow(p, refused) ==
  /\ refused => xCount.refusals < MaxRefusals
  /\ xRows' = IF refused THEN xRows \ {p} ELSE xRows \cup {p}
  /\ xCount' = IF refused THEN [xCount EXCEPT !.refusals = @ + 1] ELSE xCount

(* learn: the list is read once, and each address is then taken under the  *)
(* lock of the learned ones.                                               *)
ReadReply(r, reply) ==
  /\ xControl # "off" /\ xReader[r] = NoReading /\ xCount.replies < MaxReplies
  /\ r = "observer" => xObserver /\ xControl # "joining observer"
  /\ r = "downlink" => ~xStopped
  /\ LET fresh == {a \in answered_addresses(xList, reply) : ~contains(xList, a) /\ a \notin Protected}
     IN fresh # {} /\ xReader' = [xReader EXCEPT ![r] = [addresses |-> fresh, question |-> reply.question]]
  /\ xCount' = [xCount EXCEPT !.replies = @ + 1]
  /\ UNCHANGED <<xRows, xList, xInstalled, xLearned, xGen, xStopped, xInstaller, xObserver, xControl, xSpec>>

Learn(r, a, refused) ==
  /\ xControl # "off" /\ a \in xReader[r].addresses
  /\ xReader' = [xReader EXCEPT ![r] =
       IF @.addresses = {a} THEN NoReading ELSE [@ EXCEPT !.addresses = @ \ {a}]]
  /\ IF xStopped \/ a \in DOMAIN xLearned \/ Cardinality(DOMAIN xLearned) >= MAX_LEARNED
     THEN ~refused /\ UNCHANGED <<xLearned, xRows, xCount>>
     ELSE /\ AddRow(<<a, WIDTH>>, refused)
          /\ xLearned' = IF refused THEN xLearned
                         ELSE [b \in DOMAIN xLearned \cup {a} |->
                                 IF b = a THEN xReader[r].question ELSE xLearned[b]]
  /\ UNCHANGED <<xList, xInstalled, xGen, xStopped, xInstaller, xObserver, xControl, xSpec>>

(* install *)
InstallBegins ==
  /\ xInstaller.at = "begin"
  /\ LET wanted == prefixes(xList)
     IN xInstaller' = [xInstaller EXCEPT !.stale = xInstalled \ wanted, !.todo = wanted, !.at = "remove"]
  /\ UNCHANGED <<xRows, xList, xInstalled, xLearned, xGen, xStopped, xReader, xObserver, xControl, xSpec, xCount>>

RemoveStale ==
  /\ xInstaller.at = "remove"
  /\ IF xInstaller.stale = {}
     THEN xInstaller' = [xInstaller EXCEPT !.at = "add"] /\ UNCHANGED <<xRows, xInstalled>>
     ELSE LET p == CHOOSE q \in xInstaller.stale : TRUE
          IN /\ xRows' = xRows \ {p} /\ xInstalled' = xInstalled \ {p}
             /\ xInstaller' = [xInstaller EXCEPT !.stale = @ \ {p}]
  /\ UNCHANGED <<xList, xLearned, xGen, xStopped, xReader, xObserver, xControl, xSpec, xCount>>

(* The generation is read before each route, and the route added after.    *)
NextPrefix == CHOOSE q \in xInstaller.todo : TRUE

CheckGeneration ==
  /\ xInstaller.at = "add"
  /\ xInstaller' =
       CASE xInstaller.todo = {} \/ xGen # xInstaller.gen ->
              [xInstaller EXCEPT !.at = "done", !.todo = {}]
         [] xInstaller.todo # {} /\ xGen = xInstaller.gen /\ NextPrefix \in xInstalled ->
              [xInstaller EXCEPT !.todo = @ \ {NextPrefix}]
         [] OTHER -> [xInstaller EXCEPT !.at = "adding"]
  /\ UNCHANGED <<xRows, xList, xInstalled, xLearned, xGen, xStopped, xReader, xObserver, xControl, xSpec, xCount>>

InstallOne(refused) ==
  /\ xInstaller.at = "adding"
  /\ xInstaller' = [xInstaller EXCEPT !.at = "add", !.todo = @ \ {NextPrefix}]
  /\ AddRow(NextPrefix, refused)
  /\ xInstalled' = IF refused THEN xInstalled ELSE xInstalled \cup {NextPrefix}
  /\ UNCHANGED <<xList, xLearned, xGen, xStopped, xReader, xObserver, xControl, xSpec>>

(* replace: the learned addresses the new list drops, then the list, then  *)
(* refresh, which stops and joins the installer of the old one.            *)
Replace(spec) ==
  /\ xControl = "idle" /\ xCount.replaces < MaxReplaces /\ spec # xSpec
  /\ LET list == compile(spec)
         kept == {a \in DOMAIN xLearned : matches_name(list, xLearned[a]) /\ ~contains(list, a)}
     IN /\ xLearned' = [a \in kept |-> xLearned[a]]
        /\ xRows' = xRows \ {<<a, WIDTH>> : a \in DOMAIN xLearned \ kept}
  /\ xSpec' = spec /\ xControl' = "swap"
  /\ xCount' = [xCount EXCEPT !.replaces = @ + 1]
  /\ UNCHANGED <<xList, xInstalled, xGen, xStopped, xInstaller, xReader, xObserver>>

SwapList ==
  /\ xControl = "swap"
  /\ xList' = compile(xSpec) /\ xGen' = xGen + 1 /\ xControl' = "join"
  /\ UNCHANGED <<xRows, xInstalled, xLearned, xStopped, xInstaller, xReader, xObserver, xSpec, xCount>>

refresh ==
  /\ xControl = "join" /\ xInstaller.at = "done"
  /\ xInstaller' = Begun(xGen)
  /\ xObserver' = (xObserver \/ has_domains(xList))
  /\ xControl' = "idle"
  /\ UNCHANGED <<xRows, xList, xInstalled, xLearned, xGen, xStopped, xReader, xSpec, xCount>>

(* Drop, after the capture has joined the downlink.                        *)
DropRoutes ==
  /\ xControl = "idle" /\ xReader["downlink"] = NoReading
  /\ xStopped' = TRUE /\ xGen' = xGen + 1 /\ xControl' = "joining observer"
  /\ UNCHANGED <<xRows, xList, xInstalled, xLearned, xInstaller, xReader, xObserver, xSpec, xCount>>


remove_all ==
  /\ xControl = "joining observer" /\ xReader["observer"] = NoReading
  /\ xInstaller.at = "done"
  /\ xRows' = xRows \ (xInstalled \cup {<<a, WIDTH>> : a \in DOMAIN xLearned})
  /\ xInstalled' = {} /\ xLearned' = << >>
  /\ xControl' = "off" /\ xObserver' = FALSE
  /\ UNCHANGED <<xList, xGen, xStopped, xInstaller, xReader, xSpec, xCount>>

(* The engine is killed: its rows stay, and nothing else does.             *)
Killed ==
  /\ xControl # "off" /\ xControl' = "off"
  /\ xInstalled' = {} /\ xLearned' = << >> /\ xInstaller' = NoInstall
  /\ xReader' = [r \in Readers |-> NoReading] /\ xObserver' = FALSE /\ xStopped' = FALSE
  /\ UNCHANGED <<xRows, xList, xGen, xSpec, xCount>>

XNext ==
  \/ \E spec \in Specs : Sweep(spec) \/ Replace(spec)
  \/ \E r \in Readers, reply \in Replies : ReadReply(r, reply)
  \/ \E r \in Readers, a \in RouteAddresses, refused \in BOOLEAN : Learn(r, a, refused)
  \/ InstallBegins \/ RemoveStale \/ CheckGeneration \/ \E refused \in BOOLEAN : InstallOne(refused)
  \/ SwapList \/ refresh \/ DropRoutes \/ remove_all \/ Killed

XSpec == XInit /\ [][XNext]_xVars

-----------------------------------------------------------------------------
XTypeOK ==
  /\ xControl \in {"off", "idle", "swap", "join", "joining observer"}
  /\ xInstaller.at \in {"begin", "remove", "add", "adding", "done"}
  /\ xRows \subseteq RouteAddresses \X (0 .. WIDTH)
  /\ \A r \in Readers : xReader[r].addresses \subseteq RouteAddresses
  /\ Cardinality(DOMAIN xLearned) <= MAX_LEARNED

Block(p) == p[1] .. p[1] + 2^(WIDTH - p[2]) - 1
Covered(ps) == UNION {Block(p) : p \in ps}

(* What a list asks for, from its networks alone.                          *)
Asked(spec) ==
  {a \in RouteAddresses \ Protected : \E n \in spec.networks :
     n.prefix >= MIN_PREFIX /\ a \div 2^(WIDTH - n.prefix) = n.address \div 2^(WIDTH - n.prefix)}

(* The blocks cover exactly the addresses asked for, none is repeated and  *)
(* no two are the halves of a larger one: the fewest CIDR blocks.          *)
FewestBlocks(ps, wanted) ==
  /\ Covered(ps) = wanted
  /\ \A p, q \in ps : p # q => Block(p) \cap Block(q) = {}
  /\ \A p, q \in ps : p[2] = q[2] /\ q[1] = p[1] + 2^(WIDTH - p[2])
       => p[1] % 2^(WIDTH - p[2] + 1) # 0

(* Every direct route Windows holds for a running engine is one that its   *)
(* teardown will remove, none leads a tunnel resolver outside, an orderly  *)
(* stop leaves none, and once an installer has run to its end unhindered   *)
(* the installed ranges are exactly the list's, in the fewest blocks       *)
(* (DirectRouter::install, learn, remove_all; DirectList::prefixes).       *)
RoutesAreTracked ==
  /\ XTypeOK
  /\ xControl # "off" => xRows \subseteq xInstalled \cup {<<a, WIDTH>> : a \in DOMAIN xLearned}
  /\ Covered(xRows) \cap Protected = {}
  /\ xControl = "off" /\ xStopped => xRows = {}
  /\ xControl = "idle" /\ xInstaller.at = "done" /\ xCount.refusals = 0
       => FewestBlocks(xInstalled, Asked(xSpec))
=============================================================================
