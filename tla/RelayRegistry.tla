---------------------------- MODULE RelayRegistry ----------------------------
(***************************************************************************)
(* The relay's enrolled clients (relay/src/client_registry.rs, enroll in   *)
(* relay/src/main.rs): a directory of records that administrators' enroll  *)
(* and revoke commands change, one file operation at a time, and that the  *)
(* running relay reads again every second.  A command may be cut off       *)
(* between any two of its operations.  Commands sent over SSH take a lock  *)
(* on the VPS first; those of Unlocked do not.                             *)
(*                                                                         *)
(* A client is its id and its address; its key never changes while its id  *)
(* stays, because enroll draws both.                                       *)
(***************************************************************************)
EXTENDS Naturals, FiniteSets

CONSTANTS
    Admins,      \* administrators' commands, each may run again and again
    Unlocked,    \* the ones that do not take the VPS lock
    Names,       \* file names of records
    Subnet,      \* addresses of the client subnet: numbers
    MaxClients,  \* bound: client ids ever drawn
    MaxCrashes   \* bound: commands cut off, and relay restarts

NoOne == "no one"

ASSUME RegistryConstants == NoOne \notin Admins /\ MaxClients \in Nat /\ MaxCrashes \in Nat

VARIABLES
    files,      \* records on disk: name -> [id, address]
    reserved,   \* addresses with a .revoked file
    tokens,     \* ids whose token was handed out
    given,      \* history: every record ever on disk
    pc, loc,    \* each command's place and what it has read
    lock,       \* the command that holds the VPS lock, or NoOne
    active,     \* the relay's clients
    speaking,   \* ids of active clients that have sessions
    reload,     \* the reload under way: files still to open, records read
    up,         \* the relay is running
    drawn, crashes

registryVars == <<files, reserved, tokens, given, pc, loc, lock, active, speaking, reload, up,
          drawn, crashes>>

disk == <<files, reserved, tokens, given>>
relay == <<active, speaking, reload, up>>

NoRecord == [id |-> 0, address |-> 0]
Nothing == [files |-> {}, client |-> NoRecord]
NotReloading == [busy |-> FALSE, todo |-> {}, got |-> {}]

Records == {files[n] : n \in DOMAIN files}
AddressesOf(R) == {r.address : r \in R}

(* validate_records: no two records share an id or an address. *)
valid(R) == \A r, s \in R : r.id = s.id \/ r.address = s.address => r = s

RegistryInit ==
    /\ files = [n \in {} |-> NoRecord]
    /\ reserved = {} /\ tokens = {} /\ given = {}
    /\ pc = [a \in Admins |-> "idle"]
    /\ loc = [a \in Admins |-> Nothing]
    /\ lock = NoOne
    /\ active = {} /\ speaking = {} /\ reload = NotReloading /\ up = FALSE
    /\ drawn = 0 /\ crashes = 0

-----------------------------------------------------------------------------
(* flock -x: waits until the lock is free.  It is let go of when the command
   ends, however it ends. *)
Takes(a) ==
    /\ pc[a] = "idle"
    /\ a \notin Unlocked => lock = NoOne
    /\ lock' = IF a \in Unlocked THEN lock ELSE a

Ends(a) ==
    /\ pc' = [pc EXCEPT ![a] = "idle"]
    /\ loc' = [loc EXCEPT ![a] = Nothing]
    /\ lock' = IF lock = a THEN NoOne ELSE lock

Continues(a, from, to) ==
    /\ pc[a] = from
    /\ pc' = [pc EXCEPT ![a] = to]
    /\ UNCHANGED lock

EnrollReads(a) ==
    /\ Takes(a)
    /\ drawn < MaxClients
    /\ pc' = [pc EXCEPT ![a] = "has records"]
    /\ loc' = [loc EXCEPT ![a].files = Records]
    /\ UNCHANGED <<disk, relay, drawn, crashes>>

(* The addresses enroll may give: not held by a record, and not reserved. *)
next_virtual_ip(R) == Subnet \ (AddressesOf(R) \cup reserved)

EnrollChooses(a) ==
    /\ pc[a] = "has records"
    /\ \/ \E ip \in next_virtual_ip(loc[a].files) :
            /\ Continues(a, "has records", "chose")
            /\ drawn' = drawn + 1
            /\ loc' = [loc EXCEPT ![a].client = [id |-> drawn', address |-> ip]]
       \/ /\ next_virtual_ip(loc[a].files) = {}
          /\ Ends(a)
          /\ UNCHANGED drawn
    /\ UNCHANGED <<disk, relay, crashes>>

(* write_secret with create_only: the whole record appears under a name that
   was free, or the command fails. *)
EnrollPublishes(a) ==
    /\ pc[a] = "chose"
    /\ \E n \in Names :
          \/ /\ n \notin DOMAIN files
             /\ files' = [m \in DOMAIN files \cup {n} |->
                            IF m = n THEN loc[a].client ELSE files[m]]
             /\ given' = given \cup {loc[a].client}
             /\ Continues(a, "chose", "published")
             /\ UNCHANGED loc
          \/ /\ n \in DOMAIN files
             /\ Ends(a)
             /\ UNCHANGED <<files, given>>
    /\ UNCHANGED <<reserved, tokens, relay, drawn, crashes>>

EnrollHandsOver(a) ==
    /\ pc[a] = "published"
    /\ tokens' = tokens \cup {loc[a].client.id}
    /\ Ends(a)
    /\ UNCHANGED <<files, reserved, given, relay, drawn, crashes>>

(* revoke reads and validates the records and finds the client. *)
RevokeReads(a) ==
    /\ Takes(a)
    /\ valid(Records)
    /\ \E r \in Records : loc' = [loc EXCEPT ![a].client = r]
    /\ pc' = [pc EXCEPT ![a] = "revoking"]
    /\ UNCHANGED <<disk, relay, drawn, crashes>>

(* The address is reserved before the record goes. *)
RevokeReserves(a) ==
    /\ Continues(a, "revoking", "reserved")
    /\ reserved' = reserved \cup {loc[a].client.address}
    /\ UNCHANGED <<loc, files, tokens, given, relay, drawn, crashes>>

RevokeRemoves(a) ==
    /\ pc[a] = "reserved"
    /\ files' = [n \in {m \in DOMAIN files : files[m] # loc[a].client} |-> files[n]]
    /\ Ends(a)
    /\ UNCHANGED <<reserved, tokens, given, relay, drawn, crashes>>

(* The SSH session is cut or the command killed: no operation is half done. *)
Crash(a) ==
    /\ pc[a] # "idle"
    /\ crashes < MaxCrashes
    /\ crashes' = crashes + 1
    /\ Ends(a)
    /\ UNCHANGED <<disk, relay, drawn>>

-----------------------------------------------------------------------------
(* The reload lists the directory and then opens one file after another. *)
ReloadLists ==
    /\ up /\ ~reload.busy
    /\ reload' = [busy |-> TRUE, todo |-> DOMAIN files, got |-> {}]
    /\ UNCHANGED <<disk, pc, loc, lock, active, speaking, up, drawn, crashes>>

(* A listed file that is gone fails the reload: the active clients stay. *)
ReloadOpens ==
    /\ reload.busy
    /\ \E n \in reload.todo :
          reload' = IF n \in DOMAIN files
                    THEN [busy |-> TRUE, todo |-> reload.todo \ {n},
                          got |-> reload.got \cup {files[n]}]
                    ELSE NotReloading
    /\ UNCHANGED <<disk, pc, loc, lock, active, speaking, up, drawn, crashes>>

(* reconcile_clients: who is gone loses its sessions, who stays keeps them. *)
(* Mutant: a reload starts every client anew. *)
reconcile_clients_anew(R) ==
    /\ active' = R
    /\ speaking' = {}
reconcile_clients(R) ==
    /\ active' = R
    /\ speaking' = speaking \cap {r.id : r \in R \cap active}

ReloadApplies ==
    /\ reload.busy /\ reload.todo = {}
    /\ reload' = NotReloading
    /\ \/ valid(reload.got) /\ reconcile_clients(reload.got)
       \/ ~valid(reload.got) /\ UNCHANGED <<active, speaking>>
    /\ UNCHANGED <<disk, pc, loc, lock, up, drawn, crashes>>

(* A client's frame starts a session. *)
SessionStarts ==
    /\ \E r \in active : speaking' = speaking \cup {r.id}
    /\ UNCHANGED <<disk, pc, loc, lock, active, reload, up, drawn, crashes>>

(* serve loads the records once more at its start, and does not start with
   none or with records it cannot apply. *)
RelayStarts ==
    /\ ~up
    /\ valid(Records) /\ Records # {}
    /\ up' = TRUE /\ active' = Records /\ speaking' = {} /\ reload' = NotReloading
    /\ UNCHANGED <<disk, pc, loc, lock, drawn, crashes>>

RelayStops ==
    /\ up /\ crashes < MaxCrashes
    /\ crashes' = crashes + 1
    /\ up' = FALSE /\ active' = {} /\ speaking' = {} /\ reload' = NotReloading
    /\ UNCHANGED <<disk, pc, loc, lock, drawn>>

Command(a) ==
    \/ EnrollReads(a) \/ EnrollChooses(a) \/ EnrollPublishes(a) \/ EnrollHandsOver(a)
    \/ RevokeReads(a) \/ RevokeReserves(a) \/ RevokeRemoves(a) \/ Crash(a)

RegistryNext ==
    \/ \E a \in Admins : Command(a)
    \/ ReloadLists \/ ReloadOpens \/ ReloadApplies \/ SessionStarts
    \/ RelayStarts \/ RelayStops

RegistrySpec == RegistryInit /\ [][RegistryNext]_registryVars

-----------------------------------------------------------------------------
Clients == [id : 0 .. MaxClients, address : Subnet \cup {0}]

RegistryTypeOK ==
    /\ DOMAIN files \subseteq Names /\ Records \subseteq Clients
    /\ reserved \subseteq Subnet
    /\ tokens \subseteq 1 .. MaxClients
    /\ given \subseteq Clients
    /\ pc \in [Admins -> {"idle", "has records", "chose", "published", "revoking", "reserved"}]
    /\ loc \in [Admins -> [files : SUBSET Clients, client : Clients]]
    /\ lock \in Admins \cup {NoOne}
    /\ active \subseteq Clients /\ speaking \subseteq {r.id : r \in active}
    /\ reload \in [busy : BOOLEAN, todo : SUBSET Names, got : SUBSET Clients]
    /\ up \in BOOLEAN /\ drawn \in 0 .. MaxClients /\ crashes \in 0 .. MaxCrashes

(* An address once given to a client is never given to another, whether the
   first was revoked, its revocation was cut off half way, or the commands of
   two administrators overlapped; and every token handed out is of a client
   that was enrolled. *)
AddressesAreNeverReused ==
    /\ RegistryTypeOK
    /\ \A r, s \in given : r.address = s.address => r.id = s.id
    /\ tokens \subseteq {r.id : r \in given}

(* What administrators do takes effect on the running relay: a client whose
   record was removed is shut out and stays so, and a client with a token is
   served in the end, unless it is revoked or the relay stops.  No reload ends
   the sessions of a client that stays. *)
RegistryTakesEffect ==
    /\ [][up /\ up' => \A r \in active \cap active' :
             r.id \in speaking => r.id \in speaking']_registryVars
    /\ <>[](\A r \in given \ Records : \A s \in active : s.id # r.id)
    /\ \A i \in 1 .. MaxClients :
        []<>(i \in tokens => ~up \/ (\E r \in active : r.id = i) \/ (\A r \in Records : r.id # i))
=============================================================================
