---------------------------- MODULE PeerRegistry ----------------------------
(***************************************************************************)
(* The users of the server: the maps peers and ipToPeer, the goroutines of *)
(* the control panel that create and delete users (server/webpanel.go),    *)
(* the configuration file they rewrite, and what is left after the process *)
(* or the machine stops and the service manager starts the server again    *)
(* (server.go, main and loadConfig).  The file is not synced: a process    *)
(* that dies leaves it as it is, a machine that fails may lose what it has *)
(* not written back.  Packets come in only for what they do to a Peer      *)
(* without a cipher; ServerIngress follows them in full.                   *)
(*                                                                         *)
(* A user is a ShortID and an inner address; names and keys ride along.    *)
(* Requests that lack a field answer 400 and change nothing: left out.     *)
(***************************************************************************)
EXTENDS Integers, FiniteSets, Functions

CONSTANTS
    Ids, IPs,
    Admins,         \* goroutines of the panel, one per request under way
    Config,         \* the users of the file at the first start: ShortID -> address
    Torn,           \* the file is empty or ends in the middle
    Nobody, NoPeer, NoRequest,
    MaxOps,         \* bound: requests to create or delete that change the maps
    MaxFails        \* bound: writes of the file that fail

\* main refuses a ShortID given twice, but takes an address given twice: ipToPeer
\* then has the last user of the file with that address.
ASSUME ConfigAssumption ==
    /\ DOMAIN Config \subseteq Ids /\ DOMAIN Config # {}
    /\ Config \in [DOMAIN Config -> IPs]
    /\ Nobody \notin Admins /\ MaxOps \in Nat /\ MaxFails \in Nat

Lists == UNION {[S -> IPs] : S \in SUBSET Ids}
\* cp: the Peer has a cipher; born tells two users of one ShortID apart.
Peer == [id : Ids, ip : IPs, cp : BOOLEAN, born : 0..MaxOps]

VARIABLES
    up,             \* the process runs
    peers,          \* ShortID -> Peer
    ipToPeer,       \* address -> Peer
    pc, req,        \* per admin, where its request is, and the request
    configMu,       \* who writes the file
    snap,           \* the list the writer took
    disk,           \* the file, as every process reads it
    flushed,        \* the file, as the machine has written it back to its disk
    failed,         \* the last write of the file failed
    main,           \* the Peer of the main loop's packet
    stuck,          \* the peers whose cpMu a panicking handler left locked
    unserved,       \* a packet of a registered user stopped the server or main loop
    last,           \* history: per ShortID, the last request that changed it
    promise,        \* history: per ShortID, what the answer to that request said
    ops, fails

memory == <<peers, ipToPeer>>
panel == <<pc, req, configMu, snap>>
file == <<disk, flushed, failed>>
traffic == <<main, stuck, unserved>>
history == <<last, promise>>
vars == <<up, memory, panel, file, traffic, history, ops, fails>>

Requests == [op : {"create", "delete"}, id : Ids, n : 0..MaxOps]
Nothing == [S \in {} |-> NoPeer]    \* an empty map

TypeOK ==
    /\ up \in BOOLEAN
    /\ DOMAIN peers \subseteq Ids /\ \A i \in DOMAIN peers : peers[i] \in Peer
    /\ DOMAIN ipToPeer \subseteq IPs /\ \A a \in DOMAIN ipToPeer : ipToPeer[a] \in Peer
    /\ pc \in [Admins -> {"idle", "save", "open", "fill", "ack"}]
    /\ req \in [Admins -> Requests \cup {NoRequest}]
    /\ configMu \in {t \in Admins : pc[t] \in {"open", "fill"}} \cup {Nobody}
    /\ snap \in Lists /\ {disk, flushed} \subseteq Lists \cup {Torn}
    /\ failed \in BOOLEAN
    /\ main \in Peer \cup {NoPeer} /\ stuck \subseteq Peer /\ unserved \in BOOLEAN
    /\ last \in [Ids -> 0..MaxOps]
    /\ promise \in [Ids -> {"none", "create", "delete"}]
    /\ ops \in 0..MaxOps /\ fails \in 0..MaxFails

\* The users as saveConfig lists them.
Users == [i \in DOMAIN peers |-> peers[i].ip]

\* main: the peers of a list of users, all with a cipher.  Which user comes last of
\* those with one address is left open.
Load(list) ==
    LET PeerOf(i) == [id |-> i, ip |-> list[i], cp |-> TRUE, born |-> 0]
    IN  /\ peers' = [i \in DOMAIN list |-> PeerOf(i)]
        /\ \E owner \in [Range(list) -> DOMAIN list] :
               /\ \A a \in Range(list) : list[owner[a]] = a
               /\ ipToPeer' = [a \in Range(list) |-> PeerOf(owner[a])]

Init ==
    /\ up = FALSE               \* the process is about to be started
    /\ peers = Nothing /\ ipToPeer = Nothing
    /\ pc = [t \in Admins |-> "idle"]
    /\ req = [t \in Admins |-> NoRequest]
    /\ configMu = Nobody
    /\ snap = Config /\ disk = Config /\ flushed = Config
    /\ failed = FALSE
    /\ main = NoPeer /\ stuck = {} /\ unserved = FALSE
    /\ last = [i \in Ids |-> 0] /\ promise = [i \in Ids |-> "none"]
    /\ ops = 0 /\ fails = 0

Goto(t, label) == pc' = [pc EXCEPT ![t] = label]

-----------------------------------------------------------------------------
(* createUser and deleteUser: the check and the change are one critical     *)
(* section of peersMu.  A request that is refused changes nothing.          *)
WrongMayCreate(i, a) == i \notin DOMAIN peers
MayCreate(i, a) == i \notin DOMAIN peers /\ a \notin DOMAIN ipToPeer

Begin(t, op, i) ==
    /\ up /\ pc[t] = "idle" /\ ops < MaxOps
    /\ ops' = ops + 1
    /\ req' = [req EXCEPT ![t] = [op |-> op, id |-> i, n |-> ops + 1]]
    /\ last' = [last EXCEPT ![i] = ops + 1]
    /\ promise' = [promise EXCEPT ![i] = "none"]
    /\ Goto(t, "save")
    /\ UNCHANGED <<up, configMu, snap, file, traffic, fails>>

\* createUser; its Peer has no CP.
Create(t, i, a) ==
    LET p == [id |-> i, ip |-> a, cp |-> FALSE, born |-> ops + 1]
    IN  /\ MayCreate(i, a)
        /\ peers' = [j \in DOMAIN peers \cup {i} |-> IF j = i THEN p ELSE peers[j]]
        /\ ipToPeer' = [b \in DOMAIN ipToPeer \cup {a} |-> IF b = a THEN p ELSE ipToPeer[b]]
        /\ Begin(t, "create", i)

\* delete(ipToPeer, p.Internal) takes the address from whoever has it.
Delete(t, i) ==
    /\ i \in DOMAIN peers
    /\ peers' = Restrict(peers, DOMAIN peers \ {i})
    /\ ipToPeer' = Restrict(ipToPeer, DOMAIN ipToPeer \ {peers[i].ip})
    /\ Begin(t, "delete", i)

-----------------------------------------------------------------------------
(* saveConfig: under configMu the list is taken, then os.WriteFile truncates *)
(* the file and fills it.  An error is logged and the request succeeds.      *)

\* A plausible slip: the list is taken before the lock, and may be an old one.
WrongSaveLock(t) ==
    /\ pc[t] = "save" /\ configMu = Nobody
    /\ configMu' = t
    /\ snap' \in {snap, Users}
    /\ Goto(t, "open")
    /\ UNCHANGED <<up, memory, req, file, traffic, history, ops, fails>>

SaveLock(t) ==
    /\ pc[t] = "save" /\ configMu = Nobody
    /\ configMu' = t
    /\ snap' = Users
    /\ Goto(t, "open")
    /\ UNCHANGED <<up, memory, req, file, traffic, history, ops, fails>>

\* A plausible slip: the error returns with configMu held.
WrongSaveFails(t) == /\ fails < MaxFails
                     /\ fails' = fails + 1
                     /\ failed' = TRUE
                     /\ Goto(t, "ack")
                     /\ UNCHANGED configMu

SaveFails(t) == /\ fails < MaxFails
                /\ fails' = fails + 1
                /\ failed' = TRUE
                /\ configMu' = Nobody
                /\ Goto(t, "ack")

SaveOpen(t) ==
    /\ pc[t] = "open"
    /\ \/ disk' = Torn /\ Goto(t, "fill") /\ UNCHANGED <<failed, configMu, fails>>
       \/ SaveFails(t) /\ UNCHANGED disk
    /\ UNCHANGED <<up, memory, req, snap, flushed, traffic, history, ops>>

SaveFill(t) ==
    /\ pc[t] = "fill"
    /\ \/ /\ disk' = snap /\ failed' = FALSE /\ configMu' = Nobody
          /\ Goto(t, "ack") /\ UNCHANGED fails
       \/ SaveFails(t) /\ UNCHANGED disk
    /\ UNCHANGED <<up, memory, req, snap, flushed, traffic, history, ops>>

\* The answer 201 or 200, a promise unless the user was changed again meanwhile.
Promise(r) == promise' = [promise EXCEPT ![r.id] = IF last[r.id] = r.n THEN r.op ELSE @]

\* A plausible slip: the request is answered before the file is saved.
WrongAck(t) ==
    /\ pc[t] \in {"save", "ack"}
    /\ Promise(req[t])
    /\ Goto(t, IF pc[t] = "save" THEN "save" ELSE "idle")
    /\ UNCHANGED <<up, memory, req, configMu, snap, file, traffic, last, ops, fails>>

Ack(t) ==
    /\ pc[t] = "ack"
    /\ Promise(req[t])
    /\ Goto(t, "idle")
    /\ UNCHANGED <<up, memory, req, configMu, snap, file, traffic, last, ops, fails>>

-----------------------------------------------------------------------------
(* Packets.  The main loop looks a Peer up, then locks its cpMu and calls   *)
(* its cipher: a nil CP panics, in the main loop to the end of the process, *)
(* in a handler of net/http to the end of that request, cpMu still locked.  *)
Halt ==
    /\ up' = FALSE
    /\ peers' = Nothing /\ ipToPeer' = Nothing
    /\ pc' = [t \in Admins |-> "idle"] /\ configMu' = Nobody
    /\ main' = NoPeer /\ stuck' = {}
    /\ UNCHANGED <<req, snap, failed, last, ops, fails>>

\* The process ends; what it has written remains.
Down == Halt /\ UNCHANGED <<disk, flushed, promise>>

MainTake(i) ==
    /\ up /\ main = NoPeer /\ i \in DOMAIN peers
    /\ main' = peers[i]
    /\ UNCHANGED <<up, memory, panel, file, stuck, unserved, history, ops, fails>>

MainProcess ==
    /\ main # NoPeer /\ main \notin stuck
    /\ IF main.cp
       THEN /\ main' = NoPeer
            /\ UNCHANGED <<up, memory, panel, file, stuck, unserved, history, ops, fails>>
       ELSE Down /\ unserved' = TRUE

\* The packet of a POST whose Peer has no cipher; any other leaves no trace here.
HttpPanics(i) ==
    /\ up /\ i \in DOMAIN peers /\ ~peers[i].cp /\ peers[i] \notin stuck
    /\ stuck' = stuck \cup {peers[i]}
    /\ unserved' = TRUE
    /\ UNCHANGED <<up, memory, panel, file, main, history, ops, fails>>

\* The process is killed, by the system or the operator.
Crash == up /\ Down /\ UNCHANGED unserved

\* The machine writes the file back, some time after WriteFile has returned.
WriteBack ==
    /\ flushed # disk
    /\ flushed' = disk
    /\ UNCHANGED <<up, memory, panel, disk, failed, traffic, history, ops, fails>>

\* The machine fails: the file may be the one written back, or in between.  What
\* was promised of a file that is lost is lost here.
PowerLoss ==
    /\ up /\ Halt
    /\ disk' \in {disk, flushed} \cup (IF disk = flushed THEN {} ELSE {Torn})
    /\ flushed' = disk'
    /\ promise' = IF disk' = disk THEN promise ELSE [i \in Ids |-> "none"]
    /\ UNCHANGED unserved

\* The service manager (Restart=always).  With a torn file or no user in it
\* loadConfig ends the process again.
Restart ==
    /\ ~up /\ disk # Torn /\ DOMAIN disk # {}
    /\ up' = TRUE
    /\ Load(disk)
    /\ failed' = FALSE
    \* What the failed writes left out is lost here.
    /\ promise' = IF failed THEN [i \in Ids |-> "none"] ELSE promise
    /\ UNCHANGED <<panel, disk, flushed, traffic, last, ops, fails>>

-----------------------------------------------------------------------------
Save(t) == SaveLock(t) \/ SaveOpen(t) \/ SaveFill(t) \/ Ack(t)

Next ==
    \/ \E t \in Admins, i \in Ids : Delete(t, i) \/ \E a \in IPs : Create(t, i, a)
    \/ \E t \in Admins : Save(t)
    \/ \E i \in Ids : MainTake(i) \/ HttpPanics(i)
    \/ MainProcess
    \/ Crash \/ WriteBack \/ PowerLoss \/ Restart

Spec == Init /\ [][Next]_vars

-----------------------------------------------------------------------------
\* The first file gives no two users the address.
Once(a) == \A i, j \in DOMAIN Config : Config[i] = a /\ Config[j] = a => i = j

(* Indexed.  peers and ipToPeer are two indexes of one set of users: a      *)
(* packet from the TUN device is never encrypted for a user who was deleted *)
(* or whose address is another, whatever is created and deleted when; and a *)
(* user whose address the first file does not give twice is found by both   *)
(* keys, and has it alone.                                                  *)
Indexed ==
    /\ \A a \in DOMAIN ipToPeer : LET p == ipToPeer[a]
                                  IN  p.ip = a /\ p.id \in DOMAIN peers /\ peers[p.id] = p
    /\ \A i \in DOMAIN peers : peers[i].id = i
    /\ \A i \in DOMAIN peers : LET p == peers[i]
                               IN  Once(p.ip) => p.ip \in DOMAIN ipToPeer /\ ipToPeer[p.ip] = p

(* DiskMatches.  When no request is between its change and the end of its   *)
(* save, the file is the list of users in memory, unless the last write     *)
(* failed: two saves at once leave neither an older list nor a torn file.   *)
DiskMatches ==
    up /\ ~failed /\ (\A t \in Admins : pc[t] \in {"idle", "ack"}) => disk = Users

(* AckIsDurable.  A user the panel acknowledged is in every whole file, and *)
(* one it acknowledged as deleted in none, so that no end of the process    *)
(* and restart loses the one or brings back the other.  Excepted are writes *)
(* that fail, which the panel acknowledges too, and files that the machine  *)
(* loses, because it fails before it has written them back.                 *)
AckIsDurable ==
    disk # Torn /\ ~failed =>
        \A i \in Ids : /\ promise[i] = "create" => i \in DOMAIN disk
                      /\ promise[i] = "delete" => i \notin DOMAIN disk

(* HotReload.  Packets of registered users, created since the start or not, *)
(* are served without a restart (00_MASTER_PLAN.md:31).                     *)
HotReload == ~unserved
=============================================================================
