------------------------- MODULE PeerRegistryProofs -------------------------
(***************************************************************************)
(* Proofs about PeerRegistry for any users, addresses, admins and bounds,  *)
(* and for files with an address given twice: the two maps are indexes of  *)
(* one set of users, the file follows them, and what the panel has         *)
(* acknowledged survives the end of the process.                           *)
(***************************************************************************)
EXTENDS PeerRegistry, TLAPS

USE ConfigAssumption

(***************************************************************************)
(* The inductive invariant, part by part.                                  *)
(***************************************************************************)
\* Whoever writes the file holds configMu.
Holder == \A t \in Admins : pc[t] \in {"open", "fill"} => configMu = t

\* A request under way is one, numbered before the next one.
Begun == \A t \in Admins : pc[t] # "idle" => req[t] \in Requests /\ req[t].n <= ops

\* Without the process there are no requests.
Rest == ~up => \A t \in Admins : pc[t] = "idle"

\* The panel gives no address twice: no list does, if the first file did not.
OneToOne(list) ==
    \A i, j \in DOMAIN list : list[i] = list[j] /\ Once(list[i]) => i = j
ListsOneToOne ==
    OneToOne(snap) /\ (disk # Torn => OneToOne(disk)) /\ (flushed # Torn => OneToOne(flushed))

\* The list being written is that of the users, or a change waits to be saved;
\* when nobody writes, so is the file, unless the last write failed.
Waiting == \E t \in Admins : pc[t] = "save"
SnapFresh == configMu # Nobody => Waiting \/ snap = Users
DiskFresh == up /\ ~failed /\ configMu = Nobody => Waiting \/ disk = Users

\* The users S are what was said of user i.
Agrees(op, i, S) == (op = "create" => i \in S) /\ (op = "delete" => i \notin S)
Kept(S) == \A i \in Ids : Agrees(promise[i], i, S)

\* The request of t is the last one of its user; so far it got to labels.
Current(t, labels) == pc[t] \in labels /\ last[req[t].id] = req[t].n
Shows(S, labels) == \A t \in Admins : Current(t, labels) => Agrees(req[t].op, req[t].id, S)

\* Promises, and requests that will become promises, agree with the memory
\* from their change on, with the list being written from SaveLock on, and
\* with the file once it is written.
MemoryAgrees == up => Kept(DOMAIN peers) /\ Shows(DOMAIN peers, {"save", "open", "fill", "ack"})
SnapAgrees == configMu # Nobody =>
    Kept(DOMAIN snap) /\ Shows(DOMAIN snap, {"open", "fill", "ack"})
DiskAgrees == disk # Torn /\ ~failed => Kept(DOMAIN disk) /\ Shows(DOMAIN disk, {"ack"})

IInv == /\ TypeOK /\ Holder /\ Begun /\ Rest
        /\ Indexed /\ ListsOneToOne
        /\ SnapFresh /\ DiskFresh
        /\ MemoryAgrees /\ SnapAgrees /\ DiskAgrees

-----------------------------------------------------------------------------
(* Facts about the lists of users.                                          *)
LEMMA UsersOneToOne ==
    ASSUME TypeOK, Indexed
    PROVE  Users \in Lists /\ DOMAIN Users = DOMAIN peers /\ OneToOne(Users)
<1>1. \A i \in DOMAIN peers : peers[i].ip \in IPs
  BY DEF TypeOK, Peer
<1>2. DOMAIN peers \subseteq Ids
  BY DEF TypeOK
<1>3. Users \in [DOMAIN peers -> IPs]
  BY <1>1 DEF Users
<1>4. Users \in Lists
  BY <1>2, <1>3 DEF Lists
<1>5. \A i, j \in DOMAIN peers : peers[i].ip = peers[j].ip /\ Once(peers[i].ip) => i = j
  BY DEF Indexed
<1>6. QED
  BY <1>3, <1>4, <1>5 DEF Users, OneToOne

LEMMA ListType ==
    ASSUME NEW list \in Lists
    PROVE  /\ DOMAIN list \subseteq Ids
           /\ \A i \in DOMAIN list : list[i] \in IPs
           /\ list = [i \in DOMAIN list |-> list[i]]
  BY DEF Lists

(* main fills both maps from a list, with whichever user has an address last. *)
LEMMA LoadIndexes ==
    ASSUME NEW list \in Lists, OneToOne(list), Load(list)
    PROVE  /\ DOMAIN peers' = DOMAIN list
           /\ \A i \in DOMAIN peers' : peers'[i] \in Peer
           /\ DOMAIN ipToPeer' \subseteq IPs
           /\ \A a \in DOMAIN ipToPeer' : ipToPeer'[a] \in Peer
           /\ Indexed' /\ Users' = list
<1> DEFINE PeerOf(i) == [id |-> i, ip |-> list[i], cp |-> TRUE, born |-> 0]
<1> PICK owner \in [Range(list) -> DOMAIN list] :
             /\ \A a \in Range(list) : list[owner[a]] = a
             /\ ipToPeer' = [a \in Range(list) |-> PeerOf(owner[a])]
  BY DEF Load
<1>1. /\ peers' = [i \in DOMAIN list |-> PeerOf(i)]
      /\ ipToPeer' = [a \in Range(list) |-> PeerOf(owner[a])]
  BY DEF Load
<1>2. /\ DOMAIN list \subseteq Ids
      /\ \A i \in DOMAIN list : list[i] \in IPs
      /\ list = [i \in DOMAIN list |-> list[i]]
  BY ListType
<1>3. \A i \in DOMAIN list : PeerOf(i) \in Peer
  BY <1>2 DEF Peer
<1>4. \A a \in Range(list) : owner[a] \in DOMAIN list /\ list[owner[a]] = a
  OBVIOUS
<1>5. \A i \in DOMAIN list : list[i] \in Range(list) /\ (Once(list[i]) => owner[list[i]] = i)
  <2>1. ASSUME NEW i \in DOMAIN list PROVE list[i] \in Range(list)
    BY DEF Range
  <2>2. QED
    BY <1>4, <2>1 DEF OneToOne
<1>6. \A i \in DOMAIN list : PeerOf(i).id = i /\ PeerOf(i).ip = list[i]
  OBVIOUS
<1> HIDE DEF PeerOf
<1>7. Indexed'
  BY <1>1, <1>4, <1>5, <1>6 DEF Indexed
<1>8. Users' = list
  BY <1>1, <1>2, <1>6 DEF Users
<1>9. DOMAIN ipToPeer' \subseteq IPs
  <2>1. \A a \in Range(list) : a \in IPs
    BY <1>2, <1>4
  <2>2. QED
    BY <1>1, <2>1
<1>10. QED
  BY <1>1, <1>3, <1>4, <1>7, <1>8, <1>9

-----------------------------------------------------------------------------
(* What the parts of a step mean for the promises.                          *)
(* A new request of user i: what was said of i before lapses.               *)
LEMMA BeginKeeps ==
    ASSUME IInv, NEW t \in Admins, NEW op \in {"create", "delete"}, NEW i \in Ids,
           Begin(t, op, i), NEW S, NEW labels, labels \cap {"idle", "save"} = {}
    PROVE  (Kept(S) => Kept(S)') /\ (Shows(S, labels) => Shows(S, labels)')
<1>1. /\ pc' = [pc EXCEPT ![t] = "save"] /\ pc \in [Admins -> {"idle", "save", "open", "fill", "ack"}]
      /\ req' = [req EXCEPT ![t] = [op |-> op, id |-> i, n |-> ops + 1]]
      /\ last' = [last EXCEPT ![i] = ops + 1] /\ last \in [Ids -> 0..MaxOps]
      /\ promise' = [promise EXCEPT ![i] = "none"]
      /\ promise \in [Ids -> {"none", "create", "delete"}] /\ ops \in Nat
  BY DEF IInv, TypeOK, Begin, Goto
<1>2. Kept(S) => Kept(S)'
  BY <1>1 DEF Kept, Agrees
<1>3. ASSUME NEW u \in Admins, Current(u, labels)'
      PROVE  Current(u, labels) /\ req'[u] = req[u]
  <2>1. u # t /\ pc'[u] = pc[u] /\ req'[u] = req[u]
    BY <1>1, <1>3 DEF Current, IInv, TypeOK
  <2>2. req[u].id \in Ids /\ req[u].n \in Nat /\ req[u].n <= ops
    BY <1>3, <2>1 DEF Current, IInv, Begun, Requests
  <2>3. req[u].id # i
    BY <1>1, <1>3, <2>1, <2>2 DEF Current
  <2>4. QED
    BY <1>1, <1>3, <2>1, <2>2, <2>3 DEF Current
<1>4. QED
  BY <1>2, <1>3 DEF Shows

(* A request that changes user i, and the maps for no other user.           *)
LEMMA BeginInv ==
    ASSUME IInv, NEW t \in Admins, NEW op \in {"create", "delete"}, NEW i \in Ids,
           Begin(t, op, i), Indexed',
           DOMAIN peers' \subseteq Ids, \A j \in DOMAIN peers' : peers'[j] \in Peer,
           DOMAIN ipToPeer' \subseteq IPs, \A a \in DOMAIN ipToPeer' : ipToPeer'[a] \in Peer,
           \A j \in Ids \ {i} : j \in DOMAIN peers' <=> j \in DOMAIN peers,
           Agrees(op, i, DOMAIN peers')
    PROVE  IInv'
<1>1. /\ up /\ UNCHANGED <<up, configMu, snap, disk, flushed, failed, main, stuck, unserved, fails>>
      /\ pc[t] = "idle" /\ pc' = [pc EXCEPT ![t] = "save"]
      /\ req' = [req EXCEPT ![t] = [op |-> op, id |-> i, n |-> ops + 1]]
      /\ last' = [last EXCEPT ![i] = ops + 1]
      /\ promise' = [promise EXCEPT ![i] = "none"]
      /\ ops' = ops + 1 /\ ops < MaxOps /\ ops \in Nat
  BY DEF IInv, TypeOK, Begin, Goto, file, traffic
<1>2. ops + 1 \in 0..MaxOps
  BY <1>1
<1>3. [op |-> op, id |-> i, n |-> ops + 1] \in Requests
  BY <1>2 DEF Requests
<1>4. TypeOK'
  <2>1. /\ pc' \in [Admins -> {"idle", "save", "open", "fill", "ack"}]
        /\ req' \in [Admins -> Requests \cup {NoRequest}]
        /\ last' \in [Ids -> 0..MaxOps] /\ promise' \in [Ids -> {"none", "create", "delete"}]
    BY <1>1, <1>2, <1>3 DEF IInv, TypeOK
  <2>2. configMu' \in {u \in Admins : pc'[u] \in {"open", "fill"}} \cup {Nobody}
    BY <1>1 DEF IInv, TypeOK
  <2>3. QED
    BY <1>1, <1>2, <2>1, <2>2 DEF IInv, TypeOK
<1>5. Holder' /\ Rest'
  BY <1>1 DEF IInv, TypeOK, Holder, Rest
<1>6. Begun'
  <2>1. ASSUME NEW u \in Admins, pc'[u] # "idle" PROVE req'[u] \in Requests /\ req'[u].n <= ops'
    <3>1. CASE u = t
      BY <1>1, <1>3, <3>1 DEF IInv, TypeOK
    <3>2. CASE u # t
      <4>1. req[u] \in Requests /\ req[u].n <= ops /\ req'[u] = req[u]
        BY <1>1, <2>1, <3>2 DEF IInv, TypeOK, Begun
      <4>2. req[u].n \in Nat
        BY <4>1 DEF Requests
      <4>3. QED
        BY <1>1, <4>1, <4>2
    <3>3. QED
      BY <3>1, <3>2
  <2>2. QED
    BY <2>1 DEF Begun
<1>7. ListsOneToOne'
  BY <1>1 DEF IInv, ListsOneToOne, OneToOne
<1>8. SnapFresh' /\ DiskFresh'
  BY <1>1 DEF IInv, TypeOK, SnapFresh, DiskFresh, Waiting
<1>9. MemoryAgrees'
  <2>1. ASSUME NEW j \in Ids PROVE Agrees(promise'[j], j, DOMAIN peers')
    BY <1>1 DEF IInv, TypeOK, MemoryAgrees, Kept, Agrees
  <2>2. ASSUME NEW u \in Admins, Current(u, {"save", "open", "fill", "ack"})'
        PROVE  Agrees(req'[u].op, req'[u].id, DOMAIN peers')
    <3>1. CASE u = t
      <4>1. req'[u] = [op |-> op, id |-> i, n |-> ops + 1]
        BY <1>1, <3>1 DEF IInv, TypeOK
      <4>2. QED
        BY <4>1
    <3>2. CASE u # t
      <4>1. pc[u] \in {"save", "open", "fill", "ack"} /\ req'[u] = req[u]
        BY <1>1, <2>2, <3>2 DEF IInv, TypeOK, Current
      <4>2. req[u].id \in Ids /\ req[u].n \in Nat /\ req[u].n <= ops
        BY <4>1 DEF IInv, Begun, Requests
      <4>3. req[u].id # i /\ Current(u, {"save", "open", "fill", "ack"})
        BY <1>1, <2>2, <4>1, <4>2 DEF Current, IInv, TypeOK
      <4>4. Agrees(req[u].op, req[u].id, DOMAIN peers)
        BY <1>1, <4>3 DEF IInv, MemoryAgrees, Shows
      <4>5. QED
        BY <4>1, <4>2, <4>3, <4>4 DEF Agrees
    <3>3. QED
      BY <3>1, <3>2
  <2>3. QED
    BY <2>1, <2>2 DEF MemoryAgrees, Kept, Shows
<1>10. SnapAgrees'
  <2>1. CASE configMu = Nobody
    BY <1>1, <2>1 DEF SnapAgrees
  <2>2. CASE configMu # Nobody
    <3>1. Kept(DOMAIN snap) /\ Shows(DOMAIN snap, {"open", "fill", "ack"})
      BY <2>2 DEF IInv, SnapAgrees
    <3> PICK S : S = DOMAIN snap
      OBVIOUS
    <3>2. (Kept(S) => Kept(S)') /\ (Shows(S, {"open", "fill", "ack"}) => Shows(S, {"open", "fill", "ack"})')
      <4>1. {"open", "fill", "ack"} \cap {"idle", "save"} = {}
        OBVIOUS
      <4>2. QED
        BY <1>1, <4>1, BeginKeeps
    <3>3. QED
      BY <1>1, <3>1, <3>2 DEF SnapAgrees
  <2>3. QED
    BY <2>1, <2>2
<1>11. DiskAgrees'
  <2>1. CASE disk # Torn /\ ~failed
    <3>1. Kept(DOMAIN disk) /\ Shows(DOMAIN disk, {"ack"})
      BY <2>1 DEF IInv, DiskAgrees
    <3> PICK S : S = DOMAIN disk
      OBVIOUS
    <3>2. (Kept(S) => Kept(S)') /\ (Shows(S, {"ack"}) => Shows(S, {"ack"})')
      <4>1. {"ack"} \cap {"idle", "save"} = {}
        OBVIOUS
      <4>2. QED
        BY <1>1, <4>1, BeginKeeps
    <3>3. QED
      BY <1>1, <3>1, <3>2 DEF DiskAgrees
  <2>2. QED
    BY <1>1, <2>1 DEF DiskAgrees
<1>12. QED
  BY <1>4, <1>5, <1>6, <1>7, <1>8, <1>9, <1>10, <1>11 DEF IInv

LEMMA CreateInv ==
    ASSUME IInv, NEW t \in Admins, NEW i \in Ids, NEW a \in IPs, Create(t, i, a)
    PROVE  IInv'
<1> DEFINE p == [id |-> i, ip |-> a, cp |-> FALSE, born |-> ops + 1]
<1>1. /\ i \notin DOMAIN peers /\ a \notin DOMAIN ipToPeer
      /\ peers' = [j \in DOMAIN peers \cup {i} |-> IF j = i THEN p ELSE peers[j]]
      /\ ipToPeer' = [b \in DOMAIN ipToPeer \cup {a} |-> IF b = a THEN p ELSE ipToPeer[b]]
      /\ Begin(t, "create", i)
  BY DEF Create, MayCreate
<1>2. ops + 1 \in 0..MaxOps
  BY <1>1 DEF Begin, IInv, TypeOK
<1>3. p \in Peer /\ p.id = i /\ p.ip = a
  BY <1>2 DEF Peer
<1> HIDE DEF p
<1>4. Indexed'
  BY <1>1, <1>3 DEF IInv, Indexed
<1>5. /\ DOMAIN peers' \subseteq Ids /\ \A j \in DOMAIN peers' : peers'[j] \in Peer
      /\ DOMAIN ipToPeer' \subseteq IPs /\ \A b \in DOMAIN ipToPeer' : ipToPeer'[b] \in Peer
  BY <1>1, <1>3 DEF IInv, TypeOK
<1>6. /\ \A j \in Ids \ {i} : j \in DOMAIN peers' <=> j \in DOMAIN peers
      /\ Agrees("create", i, DOMAIN peers')
  BY <1>1 DEF Agrees
<1>7. QED
  BY <1>1, <1>4, <1>5, <1>6, BeginInv

LEMMA DeleteInv ==
    ASSUME IInv, NEW t \in Admins, NEW i \in Ids, Delete(t, i)
    PROVE  IInv'
<1>1. /\ i \in DOMAIN peers
      /\ peers' = [j \in DOMAIN peers \ {i} |-> peers[j]]
      /\ ipToPeer' = [b \in DOMAIN ipToPeer \ {peers[i].ip} |-> ipToPeer[b]]
      /\ Begin(t, "delete", i)
  BY DEF Delete, Restrict
<1>2. Indexed'
  BY <1>1 DEF IInv, Indexed
<1>3. /\ DOMAIN peers' \subseteq Ids /\ \A j \in DOMAIN peers' : peers'[j] \in Peer
      /\ DOMAIN ipToPeer' \subseteq IPs /\ \A b \in DOMAIN ipToPeer' : ipToPeer'[b] \in Peer
  BY <1>1 DEF IInv, TypeOK
<1>4. /\ \A j \in Ids \ {i} : j \in DOMAIN peers' <=> j \in DOMAIN peers
      /\ Agrees("delete", i, DOMAIN peers')
  BY <1>1 DEF Agrees
<1>5. QED
  BY <1>1, <1>2, <1>3, <1>4, BeginInv

-----------------------------------------------------------------------------
(* saveConfig.                                                              *)
(* A step of t along its request, which leaves the users as they are.       *)
LEMMA PanelStep ==
    ASSUME IInv, NEW t \in Admins, NEW label \in {"idle", "save", "open", "fill", "ack"},
           pc[t] # "idle", Goto(t, label),
           UNCHANGED <<up, memory, req, traffic, last, ops>>
    PROVE  /\ up /\ Indexed' /\ Begun' /\ Rest' /\ Users' = Users
           /\ pc' \in [Admins -> {"idle", "save", "open", "fill", "ack"}]
           /\ pc'[t] = label /\ \A u \in Admins \ {t} : pc'[u] = pc[u]
<1>1. /\ pc' = [pc EXCEPT ![t] = label]
      /\ pc \in [Admins -> {"idle", "save", "open", "fill", "ack"}]
  BY DEF IInv, TypeOK, Goto
<1>2. pc'[t] = label /\ \A u \in Admins \ {t} : pc'[u] = pc[u]
  BY <1>1
<1>3. up /\ Indexed' /\ Users' = Users
  BY DEF IInv, Rest, Indexed, Users, memory
<1>4. Begun' /\ Rest'
  BY <1>2, <1>3 DEF IInv, Begun, Rest
<1>5. pc' \in [Admins -> {"idle", "save", "open", "fill", "ack"}]
  BY <1>1
<1>6. QED
  BY <1>2, <1>3, <1>4, <1>5

\* What is shown for more requests is shown for fewer.
LEMMA ShowsLess ==
    ASSUME NEW S, NEW from, NEW to, Shows(S, from), UNCHANGED <<req, last>>,
           \A u \in Admins : pc'[u] \in to => pc[u] \in from
    PROVE  Shows(S, to)'
  BY DEF Shows, Current

LEMMA SaveLockInv ==
    ASSUME IInv, NEW t \in Admins, SaveLock(t)
    PROVE  IInv'
<1>1. /\ pc[t] = "save" /\ configMu = Nobody /\ configMu' = t /\ t # Nobody
      /\ snap' = Users /\ Goto(t, "open") /\ UNCHANGED <<disk, flushed, failed, promise, ops, fails>>
      /\ UNCHANGED <<up, memory, req, traffic, last>>
  BY DEF SaveLock, file, history
<1>2. /\ up /\ Indexed' /\ Begun' /\ Rest' /\ Users' = Users
      /\ pc' \in [Admins -> {"idle", "save", "open", "fill", "ack"}]
      /\ pc'[t] = "open" /\ \A u \in Admins \ {t} : pc'[u] = pc[u]
  BY <1>1, PanelStep
<1>3. Users \in Lists /\ DOMAIN Users = DOMAIN peers /\ OneToOne(Users)
  BY UsersOneToOne DEF IInv
<1>4. TypeOK'
  BY <1>1, <1>2, <1>3 DEF IInv, TypeOK, memory, traffic
<1>5. Holder'
  BY <1>1, <1>2 DEF IInv, Holder
<1>6. ListsOneToOne' /\ SnapFresh' /\ DiskFresh'
  BY <1>1, <1>2, <1>3 DEF IInv, ListsOneToOne, OneToOne, SnapFresh, DiskFresh
<1>7. Kept(DOMAIN peers) /\ Shows(DOMAIN peers, {"save", "open", "fill", "ack"})
  BY <1>2 DEF IInv, MemoryAgrees
<1>8. MemoryAgrees' /\ SnapAgrees'
  <2> PICK S : S = DOMAIN peers
    OBVIOUS
  <2>1. Kept(S)'
    BY <1>1, <1>7 DEF Kept
  <2>2. Shows(S, {"save", "open", "fill", "ack"})' /\ Shows(S, {"open", "fill", "ack"})'
    BY <1>1, <1>2, <1>7, ShowsLess
  <2>3. DOMAIN peers' = S /\ DOMAIN snap' = S
    BY <1>1, <1>3 DEF memory
  <2>4. QED
    BY <2>1, <2>2, <2>3 DEF MemoryAgrees, SnapAgrees
<1>9. DiskAgrees'
  BY <1>1, <1>2 DEF IInv, DiskAgrees, Kept, Shows, Current
<1>10. QED
  BY <1>2, <1>4, <1>5, <1>6, <1>8, <1>9 DEF IInv

\* What t leaves when it unlocks configMu: the others wait or are done.
LEMMA Unlocks ==
    ASSUME IInv, NEW t \in Admins, pc[t] \in {"open", "fill"}, configMu' = Nobody, Goto(t, "ack"),
           UNCHANGED <<up, memory, req, snap, flushed, traffic, history, ops>>,
           disk' \in Lists \cup {Torn}, failed' \in BOOLEAN, fails' \in 0..MaxFails,
           disk' # Torn => OneToOne(disk)'
    PROVE  /\ TypeOK' /\ Holder' /\ Begun' /\ Rest' /\ Indexed' /\ ListsOneToOne'
           /\ SnapFresh' /\ MemoryAgrees' /\ SnapAgrees'
           /\ up /\ Users' = Users
           /\ pc'[t] = "ack" /\ \A u \in Admins \ {t} : pc'[u] = pc[u]
<1>1. UNCHANGED <<up, memory, req, traffic, last, promise, ops, snap, flushed>>
  BY DEF history
<1>2. /\ up /\ Indexed' /\ Begun' /\ Rest' /\ Users' = Users
      /\ pc' \in [Admins -> {"idle", "save", "open", "fill", "ack"}]
      /\ pc'[t] = "ack" /\ \A u \in Admins \ {t} : pc'[u] = pc[u]
  BY <1>1, PanelStep
<1>3. TypeOK'
  BY <1>1, <1>2 DEF IInv, TypeOK, memory, traffic
<1>4. Holder'
  BY <1>2 DEF IInv, Holder
<1>5. ListsOneToOne' /\ SnapFresh' /\ SnapAgrees'
  BY <1>1 DEF IInv, ListsOneToOne, OneToOne, SnapFresh, SnapAgrees
<1>6. MemoryAgrees'
  BY <1>1, <1>2 DEF IInv, MemoryAgrees, Kept, Shows, Current, memory
<1>7. QED
  BY <1>2, <1>3, <1>4, <1>5, <1>6

LEMMA SaveFailsInv ==
    ASSUME IInv, NEW t \in Admins, pc[t] \in {"open", "fill"}, SaveFails(t),
           UNCHANGED <<up, memory, req, snap, flushed, traffic, history, ops>>, UNCHANGED disk
    PROVE  IInv'
<1>1. fails' \in 0..MaxFails /\ failed' = TRUE /\ configMu' = Nobody /\ Goto(t, "ack")
  BY DEF SaveFails, IInv, TypeOK
<1>2. disk' \in Lists \cup {Torn} /\ (disk' # Torn => OneToOne(disk)')
  BY DEF IInv, TypeOK, ListsOneToOne, OneToOne
<1>3. /\ TypeOK' /\ Holder' /\ Begun' /\ Rest' /\ Indexed' /\ ListsOneToOne'
      /\ SnapFresh' /\ MemoryAgrees' /\ SnapAgrees'
  BY <1>1, <1>2, Unlocks
<1>4. DiskFresh' /\ DiskAgrees'
  BY <1>1 DEF DiskFresh, DiskAgrees
<1>5. QED
  BY <1>3, <1>4 DEF IInv

LEMMA SaveOpenInv ==
    ASSUME IInv, NEW t \in Admins, SaveOpen(t)
    PROVE  IInv'
<1>1. CASE disk' = Torn /\ Goto(t, "fill") /\ UNCHANGED <<failed, configMu, fails>>
  <2>1. /\ pc[t] = "open" /\ configMu = t /\ t # Nobody
        /\ UNCHANGED <<up, memory, req, traffic, last, promise, ops, snap, flushed, failed, configMu, fails>>
    BY <1>1 DEF SaveOpen, history, IInv, Holder
  <2>2. /\ up /\ Indexed' /\ Begun' /\ Rest' /\ Users' = Users
        /\ pc' \in [Admins -> {"idle", "save", "open", "fill", "ack"}]
        /\ pc'[t] = "fill" /\ \A u \in Admins \ {t} : pc'[u] = pc[u]
    BY <1>1, <2>1, PanelStep
  <2>3. TypeOK'
    BY <1>1, <2>1, <2>2 DEF IInv, TypeOK, memory, traffic
  <2>4. Holder' /\ ListsOneToOne'
    BY <1>1, <2>1, <2>2 DEF IInv, Holder, ListsOneToOne, OneToOne
  <2>5. SnapFresh' /\ DiskFresh'
    BY <1>1, <2>1, <2>2 DEF IInv, SnapFresh, DiskFresh, Waiting
  <2>6. MemoryAgrees' /\ SnapAgrees'
    BY <2>1, <2>2 DEF IInv, MemoryAgrees, SnapAgrees, Kept, Shows, Current, memory
  <2>7. DiskAgrees'
    BY <1>1 DEF DiskAgrees
  <2>8. QED
    BY <2>2, <2>3, <2>4, <2>5, <2>6, <2>7 DEF IInv
<1>2. CASE SaveFails(t) /\ UNCHANGED disk
  BY <1>2, SaveFailsInv DEF SaveOpen
<1>3. QED
  BY <1>1, <1>2 DEF SaveOpen

LEMMA SaveFillInv ==
    ASSUME IInv, NEW t \in Admins, SaveFill(t)
    PROVE  IInv'
<1>1. CASE /\ disk' = snap /\ failed' = FALSE /\ configMu' = Nobody
           /\ Goto(t, "ack") /\ UNCHANGED fails
  <2>1. /\ pc[t] = "fill" /\ configMu = t /\ t # Nobody
        /\ UNCHANGED <<up, memory, req, snap, flushed, traffic, history, ops, fails>>
    BY <1>1 DEF SaveFill, IInv, Holder
  <2>2. /\ disk' \in Lists \cup {Torn} /\ (disk' # Torn => OneToOne(disk)')
        /\ failed' \in BOOLEAN /\ fails' \in 0..MaxFails
    BY <1>1, <2>1 DEF IInv, TypeOK, ListsOneToOne, OneToOne
  <2>3. /\ TypeOK' /\ Holder' /\ Begun' /\ Rest' /\ Indexed' /\ ListsOneToOne'
        /\ SnapFresh' /\ MemoryAgrees' /\ SnapAgrees'
        /\ up /\ Users' = Users
        /\ pc'[t] = "ack" /\ \A u \in Admins \ {t} : pc'[u] = pc[u]
    BY <1>1, <2>1, <2>2, Unlocks
  <2>4. DiskFresh'
    BY <1>1, <2>1, <2>3 DEF IInv, SnapFresh, DiskFresh, Waiting
  <2>5. DiskAgrees'
    <3> PICK S : S = DOMAIN snap
      OBVIOUS
    <3>1. Kept(S) /\ Shows(S, {"open", "fill", "ack"})
      BY <2>1 DEF IInv, SnapAgrees
    <3>2. Kept(S)' /\ Shows(S, {"ack"})'
      BY <2>1, <2>3, <3>1, ShowsLess DEF Kept, history
    <3>3. DOMAIN disk' = S
      BY <1>1
    <3>4. QED
      BY <3>2, <3>3 DEF DiskAgrees
  <2>6. QED
    BY <2>3, <2>4, <2>5 DEF IInv
<1>2. CASE SaveFails(t) /\ UNCHANGED disk
  BY <1>2, SaveFailsInv DEF SaveFill
<1>3. QED
  BY <1>1, <1>2 DEF SaveFill

(* The answer: what was shown for the request becomes a promise.            *)
LEMMA AckInv ==
    ASSUME IInv, NEW t \in Admins, Ack(t)
    PROVE  IInv'
<1>1. /\ pc[t] = "ack" /\ Promise(req[t]) /\ Goto(t, "idle")
      /\ UNCHANGED <<up, memory, req, configMu, snap, disk, flushed, failed, traffic, last, ops, fails>>
  BY DEF Ack, file
<1>2. /\ up /\ Indexed' /\ Begun' /\ Rest' /\ Users' = Users
      /\ pc' \in [Admins -> {"idle", "save", "open", "fill", "ack"}]
      /\ pc'[t] = "idle" /\ \A u \in Admins \ {t} : pc'[u] = pc[u]
  BY <1>1, PanelStep
<1>3. req[t].id \in Ids /\ req[t].op \in {"create", "delete"}
  BY <1>1 DEF IInv, Begun, Requests
<1>4. promise' \in [Ids -> {"none", "create", "delete"}]
  BY <1>1, <1>3 DEF Promise, IInv, TypeOK
<1>5. TypeOK'
  BY <1>1, <1>2, <1>4 DEF IInv, TypeOK, memory, traffic
<1>6. Holder' /\ ListsOneToOne' /\ SnapFresh' /\ DiskFresh'
  BY <1>1, <1>2 DEF IInv, Holder, ListsOneToOne, OneToOne, SnapFresh, DiskFresh, Waiting
<1>7. ASSUME NEW S, NEW labels, "ack" \in labels, "idle" \notin labels, Kept(S), Shows(S, labels)
      PROVE  Kept(S)' /\ Shows(S, labels)'
  <2>1. Shows(S, labels)'
    BY <1>1, <1>2, <1>7 DEF Shows, Current
  <2>2. ASSUME NEW i \in Ids PROVE Agrees(promise'[i], i, S)
    <3>1. CASE i = req[t].id /\ last[i] = req[t].n
      <4>1. promise'[i] = req[t].op
        BY <1>1, <3>1 DEF Promise, IInv, TypeOK
      <4>2. Agrees(req[t].op, req[t].id, S)
        BY <1>1, <1>7, <3>1 DEF Shows, Current
      <4>3. QED
        BY <3>1, <4>1, <4>2
    <3>2. CASE ~(i = req[t].id /\ last[i] = req[t].n)
      <4>1. promise'[i] = promise[i]
        BY <1>1, <3>2 DEF Promise, IInv, TypeOK
      <4>2. QED
        BY <1>7, <4>1 DEF Kept
    <3>3. QED
      BY <3>1, <3>2
  <2>3. QED
    BY <2>1, <2>2 DEF Kept
<1>8. MemoryAgrees'
  <2> DEFINE labels == {"save", "open", "fill", "ack"}
  <2> PICK S : S = DOMAIN peers
    OBVIOUS
  <2>1. Kept(S) /\ Shows(S, labels)
    BY <1>2 DEF IInv, MemoryAgrees
  <2>2. Kept(S)' /\ Shows(S, labels)'
    BY <1>7, <2>1
  <2>3. DOMAIN peers' = S
    BY <1>1 DEF memory
  <2>4. QED
    BY <2>2, <2>3 DEF MemoryAgrees
<1>9. SnapAgrees'
  <2> DEFINE labels == {"open", "fill", "ack"}
  <2> PICK S : S = DOMAIN snap
    OBVIOUS
  <2>1. configMu # Nobody => Kept(S) /\ Shows(S, labels)
    BY DEF IInv, SnapAgrees
  <2>2. configMu # Nobody => Kept(S)' /\ Shows(S, labels)'
    BY <1>7, <2>1
  <2>3. DOMAIN snap' = S /\ configMu' = configMu
    BY <1>1
  <2>4. QED
    BY <2>2, <2>3 DEF SnapAgrees
<1>10. DiskAgrees'
  <2> DEFINE labels == {"ack"}
  <2> PICK S : S = DOMAIN disk
    OBVIOUS
  <2>1. disk # Torn /\ ~failed => Kept(S) /\ Shows(S, labels)
    BY DEF IInv, DiskAgrees
  <2>2. disk # Torn /\ ~failed => Kept(S)' /\ Shows(S, labels)'
    BY <1>7, <2>1
  <2>3. DOMAIN disk' = S /\ disk' = disk /\ failed' = failed
    BY <1>1
  <2>4. QED
    BY <2>2, <2>3 DEF DiskAgrees
<1>11. QED
  BY <1>2, <1>5, <1>6, <1>8, <1>9, <1>10 DEF IInv

-----------------------------------------------------------------------------
(* The process ends and is started again; packets.                          *)
(* Without the process, all but the file is gone.                           *)
LEMMA HaltInv ==
    ASSUME IInv, Halt, unserved' \in BOOLEAN, DiskAgrees',
           {disk', flushed'} \subseteq Lists \cup {Torn},
           promise' \in [Ids -> {"none", "create", "delete"}],
           disk' # Torn => OneToOne(disk'), flushed' # Torn => OneToOne(flushed')
    PROVE  IInv'
<1>1. /\ up' = FALSE /\ DOMAIN peers' = {} /\ DOMAIN ipToPeer' = {}
      /\ pc' = [t \in Admins |-> "idle"] /\ configMu' = Nobody
      /\ main' = NoPeer /\ stuck' = {}
      /\ UNCHANGED <<req, snap, failed, last, ops, fails>>
  BY DEF Halt, Nothing
<1>2. TypeOK'
  BY <1>1 DEF IInv, TypeOK
<1>3. Holder' /\ Begun' /\ Rest' /\ Indexed'
  BY <1>1 DEF IInv, Holder, Begun, Rest, Indexed
<1>4. ListsOneToOne'
  BY <1>1 DEF IInv, ListsOneToOne, OneToOne
<1>5. SnapFresh' /\ DiskFresh' /\ MemoryAgrees' /\ SnapAgrees'
  BY <1>1 DEF SnapFresh, DiskFresh, MemoryAgrees, SnapAgrees
<1>6. QED
  BY <1>2, <1>3, <1>4, <1>5 DEF IInv

LEMMA DownInv ==
    ASSUME IInv, Down, unserved' \in BOOLEAN
    PROVE  IInv'
<1>1. disk' = disk /\ flushed' = flushed /\ promise' = promise
  BY DEF Down
<1>2. \A t \in Admins : pc'[t] = "idle"
  BY DEF Down, Halt
<1>3. DiskAgrees'
  <2>1. \A t \in Admins : ~Current(t, {"ack"})'
    BY <1>2 DEF Current
  <2>2. QED
    BY <1>1, <2>1 DEF IInv, DiskAgrees, Kept, Shows, Down, Halt
<1>4. {disk', flushed'} \subseteq Lists \cup {Torn} /\ promise' \in [Ids -> {"none", "create", "delete"}]
  BY <1>1 DEF IInv, TypeOK
<1>5. (disk' # Torn => OneToOne(disk')) /\ (flushed' # Torn => OneToOne(flushed'))
  BY <1>1 DEF IInv, ListsOneToOne
<1>6. QED
  BY <1>3, <1>4, <1>5, HaltInv DEF Down

(* The machine fails: it loses the change, and what was promised with it.   *)
LEMMA PowerLossInv ==
    ASSUME IInv, PowerLoss
    PROVE  IInv'
<1>1. /\ disk' \in {disk, flushed, Torn} /\ flushed' = disk'
      /\ promise' = IF disk' = disk THEN promise ELSE [i \in Ids |-> "none"]
      /\ UNCHANGED unserved
  BY DEF PowerLoss
<1>2. {disk', flushed'} \subseteq Lists \cup {Torn} /\ promise' \in [Ids -> {"none", "create", "delete"}]
  BY <1>1 DEF IInv, TypeOK
<1>3. (disk' # Torn => OneToOne(disk')) /\ (flushed' # Torn => OneToOne(flushed'))
  BY <1>1 DEF IInv, ListsOneToOne
<1>4. DiskAgrees'
  <2>1. \A t \in Admins : ~Current(t, {"ack"})'
    BY DEF PowerLoss, Halt, Current
  <2>2. CASE disk' = disk
    BY <1>1, <2>1, <2>2 DEF IInv, DiskAgrees, Kept, Shows, PowerLoss, Halt
  <2>3. CASE disk' # disk
    BY <1>1, <2>1, <2>3 DEF DiskAgrees, Kept, Agrees, Shows
  <2>4. QED
    BY <2>2, <2>3
<1>5. unserved' \in BOOLEAN
  BY <1>1 DEF IInv, TypeOK
<1>6. QED
  BY <1>2, <1>3, <1>4, <1>5, HaltInv DEF PowerLoss

LEMMA WriteBackInv ==
    ASSUME IInv, WriteBack
    PROVE  IInv'
<1>1. /\ flushed' = disk
      /\ UNCHANGED <<up, peers, ipToPeer, pc, req, configMu, snap, disk, failed, main, stuck,
                     unserved, last, promise, ops, fails>>
  BY DEF WriteBack, memory, panel, traffic, history
<1>2. TypeOK' /\ ListsOneToOne'
  BY <1>1 DEF IInv, TypeOK, ListsOneToOne, OneToOne
<1>3. Holder' /\ Begun' /\ Rest' /\ Indexed'
  BY <1>1 DEF IInv, Holder, Begun, Rest, Indexed
<1>4. SnapFresh' /\ DiskFresh'
  BY <1>1 DEF IInv, SnapFresh, DiskFresh, Users, Waiting
<1>5. MemoryAgrees' /\ SnapAgrees' /\ DiskAgrees'
  BY <1>1 DEF IInv, MemoryAgrees, SnapAgrees, DiskAgrees, Kept, Shows, Current
<1>6. QED
  BY <1>2, <1>3, <1>4, <1>5 DEF IInv

LEMMA RestartInv ==
    ASSUME IInv, Restart
    PROVE  IInv'
<1>1. /\ ~up /\ disk # Torn /\ up' = TRUE /\ Load(disk) /\ failed' = FALSE
      /\ promise' = IF failed THEN [i \in Ids |-> "none"] ELSE promise
      /\ UNCHANGED <<pc, req, configMu, snap, disk, flushed, main, stuck, unserved, last, ops, fails>>
  BY DEF Restart, panel, traffic
<1>2. disk \in Lists /\ OneToOne(disk)
  BY <1>1 DEF IInv, TypeOK, ListsOneToOne
<1>3. /\ DOMAIN peers' = DOMAIN disk
      /\ DOMAIN peers' \subseteq Ids
      /\ \A i \in DOMAIN peers' : peers'[i] \in Peer
      /\ DOMAIN ipToPeer' \subseteq IPs
      /\ \A a \in DOMAIN ipToPeer' : ipToPeer'[a] \in Peer
      /\ Indexed' /\ Users' = disk
  BY <1>1, <1>2, LoadIndexes, ListType
<1>4. \A t \in Admins : pc'[t] = "idle"
  BY <1>1 DEF IInv, Rest
<1>5. TypeOK'
  <2>1. promise' \in [Ids -> {"none", "create", "delete"}]
    BY <1>1 DEF IInv, TypeOK
  <2>2. QED
    BY <1>1, <1>3, <2>1 DEF IInv, TypeOK
<1>6. configMu' = Nobody
  BY <1>4, <1>5 DEF TypeOK
<1>7. Holder' /\ Begun' /\ Rest' /\ ListsOneToOne'
  BY <1>1, <1>4 DEF IInv, Holder, Begun, Rest, ListsOneToOne, OneToOne
<1>8. SnapFresh' /\ SnapAgrees' /\ DiskFresh'
  BY <1>1, <1>3, <1>6 DEF SnapFresh, SnapAgrees, DiskFresh
<1>9. \A i \in Ids : Agrees(promise'[i], i, DOMAIN disk)
  BY <1>1 DEF IInv, DiskAgrees, Kept, Agrees
<1>10. MemoryAgrees' /\ DiskAgrees'
  BY <1>1, <1>3, <1>4, <1>9 DEF MemoryAgrees, DiskAgrees, Kept, Shows, Current
<1>11. QED
  BY <1>3, <1>5, <1>7, <1>8, <1>10 DEF IInv

LEMMA TrafficInv ==
    ASSUME IInv, UNCHANGED <<up, memory, panel, file, history, ops, fails>>,
           main' \in Peer \cup {NoPeer}, stuck' \subseteq Peer, unserved' \in BOOLEAN
    PROVE  IInv'
<1>1. UNCHANGED <<up, peers, ipToPeer, pc, req, configMu, snap, disk, flushed, failed, last, promise,
                  ops, fails>>
  BY DEF memory, panel, file, history
<1>2. TypeOK'
  BY <1>1 DEF IInv, TypeOK
<1>3. Holder' /\ Begun' /\ Rest' /\ Indexed' /\ ListsOneToOne'
  BY <1>1 DEF IInv, Holder, Begun, Rest, Indexed, ListsOneToOne, OneToOne
<1>4. SnapFresh' /\ DiskFresh'
  BY <1>1 DEF IInv, SnapFresh, DiskFresh, Users, Waiting
<1>5. MemoryAgrees' /\ SnapAgrees' /\ DiskAgrees'
  BY <1>1 DEF IInv, MemoryAgrees, SnapAgrees, DiskAgrees, Kept, Shows, Current
<1>6. QED
  BY <1>2, <1>3, <1>4, <1>5 DEF IInv

-----------------------------------------------------------------------------
(***************************************************************************)
(* The theorems.                                                           *)
(***************************************************************************)
LEMMA Initially == Init => IInv
<1> SUFFICES ASSUME Init PROVE IInv
  OBVIOUS
<1>1. /\ up = FALSE /\ DOMAIN peers = {} /\ DOMAIN ipToPeer = {} /\ configMu = Nobody
      /\ pc = [t \in Admins |-> "idle"] /\ snap = Config /\ disk = Config /\ flushed = Config
      /\ failed = FALSE /\ main = NoPeer /\ stuck = {} /\ unserved = FALSE
      /\ promise = [i \in Ids |-> "none"] /\ ops = 0 /\ fails = 0
  BY DEF Init, Nothing
<1>2. Config \in Lists
  BY DEF Lists
<1>3. TypeOK
  <2>1. /\ req \in [Admins -> Requests \cup {NoRequest}]
        /\ last \in [Ids -> 0..MaxOps] /\ promise \in [Ids -> {"none", "create", "delete"}]
        /\ pc \in [Admins -> {"idle", "save", "open", "fill", "ack"}]
    BY DEF Init
  <2>2. ops \in 0..MaxOps /\ fails \in 0..MaxFails
    BY <1>1
  <2>3. QED
    BY <1>1, <1>2, <2>1, <2>2 DEF TypeOK
<1>4. Holder /\ Begun /\ Rest /\ Indexed
  BY <1>1 DEF Holder, Begun, Rest, Indexed
<1>5. ListsOneToOne
  BY <1>1 DEF ListsOneToOne, OneToOne, Once
<1>6. SnapFresh /\ DiskFresh /\ MemoryAgrees /\ SnapAgrees
  BY <1>1 DEF SnapFresh, DiskFresh, MemoryAgrees, SnapAgrees
<1>7. DiskAgrees
  BY <1>1 DEF DiskAgrees, Kept, Agrees, Shows, Current
<1>8. QED
  BY <1>3, <1>4, <1>5, <1>6, <1>7 DEF IInv

(* The inductive invariant holds.                                           *)
THEOREM Invariance == Spec => []IInv
<1>1. ASSUME IInv, [Next]_vars PROVE IInv'
  <2>1. CASE UNCHANGED vars
    BY <1>1, <2>1, TrafficInv DEF vars, traffic, IInv, TypeOK
  <2>2. ASSUME NEW t \in Admins, NEW i \in Ids,
               Delete(t, i) \/ \E a \in IPs : Create(t, i, a)
        PROVE  IInv'
    BY <1>1, <2>2, DeleteInv, CreateInv
  <2>3. ASSUME NEW t \in Admins, Save(t) PROVE IInv'
    BY <1>1, <2>3, SaveLockInv, SaveOpenInv, SaveFillInv, AckInv DEF Save
  <2>4. ASSUME NEW i \in Ids, MainTake(i) PROVE IInv'
    BY <1>1, <2>4, TrafficInv DEF MainTake, IInv, TypeOK
  <2>5. ASSUME NEW i \in Ids, HttpPanics(i) PROVE IInv'
    BY <1>1, <2>5, TrafficInv DEF HttpPanics, IInv, TypeOK
  <2>6. CASE MainProcess
    BY <1>1, <2>6, TrafficInv, DownInv DEF MainProcess, IInv, TypeOK
  <2>7. CASE Crash
    BY <1>1, <2>7, DownInv DEF Crash, IInv, TypeOK
  <2>8. CASE WriteBack \/ PowerLoss
    BY <1>1, <2>8, WriteBackInv, PowerLossInv
  <2>9. CASE Restart
    BY <1>1, <2>9, RestartInv
  <2>10. QED
    BY <1>1, <2>1, <2>2, <2>3, <2>4, <2>5, <2>6, <2>7, <2>8, <2>9 DEF Next
<1>2. QED
  BY Initially, <1>1, PTL DEF Spec

(* Every variable keeps its type, for any users, admins and bounds.         *)
THEOREM TypeCorrect == Spec => []TypeOK
<1>1. IInv => TypeOK
  BY DEF IInv
<1>2. QED
  BY Invariance, <1>1, PTL

(* createUser, deleteUser and the start of main keep peers and ipToPeer two *)
(* indexes of one set of users, across crashes and reloads of the file; for *)
(* a file that gives an address twice, every entry of ipToPeer still is a   *)
(* registered user with that address.                                       *)
THEOREM MapsAgree == Spec => []Indexed
<1>1. IInv => Indexed
  BY DEF IInv
<1>2. QED
  BY Invariance, <1>1, PTL

(* When no save is due or under way the file is the list of the users,      *)
(* however many saves met at configMu, unless the last write failed.        *)
THEOREM FileFollows == Spec => []DiskMatches
<1>1. ASSUME IInv, up, ~failed, \A t \in Admins : pc[t] \in {"idle", "ack"}
      PROVE  disk = Users
  <2>1. configMu = Nobody
    BY <1>1 DEF IInv, TypeOK
  <2>2. ~Waiting
    BY <1>1 DEF Waiting
  <2>3. QED
    BY <1>1, <2>1, <2>2 DEF IInv, DiskFresh
<1>2. IInv => DiskMatches
  BY <1>1 DEF DiskMatches
<1>3. QED
  BY Invariance, <1>2, PTL

(* What createUser and deleteUser have acknowledged is in every whole file, *)
(* so that no end of the process and restart undoes it; failed writes, and  *)
(* files a failing machine has not written back, excepted.                  *)
THEOREM AcksAreDurable == Spec => []AckIsDurable
<1>1. IInv => AckIsDurable
  BY DEF IInv, DiskAgrees, Kept, Agrees, AckIsDurable
<1>2. QED
  BY Invariance, <1>1, PTL
=============================================================================
