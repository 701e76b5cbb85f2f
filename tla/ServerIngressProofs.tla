------------------------ MODULE ServerIngressProofs ------------------------
(***************************************************************************)
(* Proofs about ServerIngress for every set of peers, packets, paths and   *)
(* handlers, every choice of hashes and every bound: the type invariant,   *)
(* mutual exclusion on the ciphers, what bloomCheck lets pass, the path of *)
(* the answers, and that the main loop implements ReplayGuard.             *)
(***************************************************************************)
EXTENDS ServerIngress, TLAPS

(***************************************************************************)
(* The inductive invariant.  Working says which packet a thread may have   *)
(* at which label, CpMuHeld ties the labels to the mutexes, FilterExact    *)
(* says that the filter holds the bits of the keys inserted since the last *)
(* reset and no other, Counted ties the main loop's acceptances to the     *)
(* insertions, MainWindow covers the gap between the main loop's check and *)
(* its insertion, during which handlers insert and a reset clears, and     *)
(* ViaIsWriter the time from the main loop's store to Peer.Writer to the   *)
(* answer.                                                                 *)
(***************************************************************************)
Working ==
    /\ pc["main"] \in Labels \ {"next", "open"}
    /\ pc["tun"] \in {"idle", "lock", "open"}
    /\ pc["main"] # "idle" => job["main"] \in Packets /\ via \in Writers
    /\ \A h \in Handlers : pc[h] \notin {"idle", "next"} => job[h] \in Packets
    /\ \A t \in Threads : pc[t] \notin {"idle", "next"} => job[t].peer \in Peers

CpMuHeld == \A t \in Threads : Holds(t) => cpMu[job[t].peer] = t

FilterExact == bloom = UNION {BitsOf[k] : k \in {l \in Keys : setBy[l] # {}}}

Counted == \A k \in Keys : accepted[k] # 0 => "main" \in setBy[k]

MainWindow == pc["main"] = "set" => accepted[Key(job["main"])] = 0

ViaIsWriter ==
    pc["main"] \in {"lock", "check", "set", "count", "echoLock", "echo"}
        => writer[job["main"].peer] = via

IInv == /\ TypeOK /\ Working /\ CpMuHeld /\ FilterExact /\ Counted /\ MainWindow
        /\ ViaIsWriter /\ EchoToSender
USE PacketsAssumption, NamesAssumption, BoundsAssumption

(* A POST body is a sequence of packets. *)
LEMMA BatchIsSequence ==
    ASSUME NEW b \in Batches
    PROVE  b \in Seq(Packets)
<1>1. PICK n \in 1..MaxBatch : b \in [1..n -> Packets]
  BY DEF Batches
<1>2. n \in Nat
  OBVIOUS
<1>3. QED
  BY <1>1, <1>2

(* The type invariant is inductive together with what Working says of the   *)
(* packets in hand.                                                         *)
LEMMA TypeWorking ==
    ASSUME TypeOK, Working, [Next]_vars
    PROVE  TypeOK' /\ Working'
<1> USE DEF TypeOK, Working, vars, filter, control, bounds, Labels, Threads,
            Goto, Drop, DropMain, Lock, Unlock, Jobs
<1>1. CASE UNCHANGED vars
  BY <1>1
<1>2. CASE Environment
  <2>1. ASSUME NEW dg \in Datagrams, Receive(dg) PROVE TypeOK' /\ Working'
    BY <2>1 DEF Receive
  <2>2. ASSUME NEW h \in Handlers, NEW b \in Batches, HttpPost(h, b)
        PROVE  TypeOK' /\ Working'
    <3>1. b \in Seq(Packets)
      BY BatchIsSequence
    <3>2. QED
      BY <2>2, <3>1 DEF HttpPost
  <2>3. ASSUME NEW p \in Peers, TunRead(p) PROVE TypeOK' /\ Working'
    BY <2>3 DEF TunRead
  <2>4. CASE ResetTick
    BY <2>4 DEF ResetTick, Clear, Forget
  <2>5. QED
    BY <1>2, <2>1, <2>2, <2>3, <2>4 DEF Environment
<1>3. CASE MainStep
  <2>1. CASE MainTake
    <3>1. Head(incomingCh) \in Datagrams /\ Tail(incomingCh) \in Seq(Datagrams)
      BY <2>1 DEF MainTake
    <3>2. Head(incomingCh).pkt \in Packets /\ Head(incomingCh).from \in Writers
      BY <3>1 DEF Datagrams
    <3>3. \/ UNCHANGED <<job, via, pc>>
          \/ /\ Head(incomingCh).pkt.peer \in Peers
             /\ job' = [job EXCEPT !["main"] = Head(incomingCh).pkt]
             /\ via' = Head(incomingCh).from
             /\ pc' = [pc EXCEPT !["main"] = "writer"]
      BY <2>1 DEF MainTake
    <3>4. /\ incomingCh' = Tail(incomingCh)
          /\ UNCHANGED <<filter, cpMu, writer, batch, echoes, bounds>>
      BY <2>1 DEF MainTake
    <3>5. TypeOK'
      BY <3>1, <3>2, <3>3, <3>4
    <3>6. Working'
      BY <3>1, <3>2, <3>3, <3>4
    <3>7. QED
      BY <3>5, <3>6
  <2>2. CASE MainSetWriter
    BY <2>2 DEF MainSetWriter
  <2>3. CASE MainCheck
    <3>1. TypeOK'
      <4>1. CASE Fresh(Key(job["main"])) /\ job["main"].kind # "bad"
        BY <2>3, <4>1 DEF MainCheck
      <4>2. CASE ~(Fresh(Key(job["main"])) /\ job["main"].kind # "bad")
        <5>1. DropMain /\ Unlock("main")
              /\ UNCHANGED <<incomingCh, filter, writer, batch, echoes, bounds>>
          BY <2>3, <4>2 DEF MainCheck
        <5>2. cpMu' \in [Peers -> Threads \cup {NoThread}]
          BY <5>1
        <5>3. QED
          BY <5>1, <5>2
      <4>3. QED
        BY <4>1, <4>2
    <3>2. Working'
      BY <2>3 DEF MainCheck
    <3>3. QED
      BY <3>1, <3>2
  <2>4. CASE MainSet
    <3> DEFINE k == Key(job["main"])
    <3>1. k \in Keys /\ bloom' = bloom \cup BitsOf[k] /\ Record("main", k)
      BY <2>4 DEF MainSet, Insert, Keys
    <3> HIDE DEF k
    <3>2. bloom' \subseteq Bits
      BY <3>1 DEF Bits
    <3>3. setBy' \in [Keys -> SUBSET Threads]
      BY <3>1 DEF Record
    <3>4. accepted' \in [Keys -> Nat]
      BY <3>1 DEF Record
    <3>5. TypeOK'
      BY <2>4, <3>2, <3>3, <3>4 DEF MainSet, Insert
    <3>6. Working'
      BY <2>4 DEF MainSet
    <3>7. QED
      BY <3>5, <3>6
  <2>5. CASE MainCount
    <3>1. TypeOK'
      <4>1. pc' \in [Threads -> Labels] /\ bloomCount' \in Nat
        BY <2>5 DEF MainCount, Count
      <4>2. cpMu' \in [Peers -> Threads \cup {NoThread}]
        BY <2>5 DEF MainCount
      <4>3. QED
        BY <2>5, <4>1, <4>2 DEF MainCount, Count
    <3>2. Working'
      BY <2>5 DEF MainCount
    <3>3. QED
      BY <3>1, <3>2
  <2>6. CASE MainEcho
    <3>1. TypeOK'
      <4>1. pc' \in [Threads -> Labels] /\ job' \in [Threads -> Jobs \cup {NoJob}]
        BY <2>6 DEF MainEcho
      <4>2. cpMu' \in [Peers -> Threads \cup {NoThread}]
        BY <2>6 DEF MainEcho
      <4>3. via' \in Writers \cup {NoWriter}
        BY <2>6 DEF MainEcho
      <4>4. writer[job["main"].peer] \in Writers \cup {NoWriter}
        BY <2>6 DEF MainEcho
      <4>5. echoes' \subseteq [to : Writers \cup {NoWriter}, from : Writers \cup {NoWriter}]
        BY <2>6, <4>4 DEF MainEcho
      <4>6. QED
        BY <2>6, <4>1, <4>2, <4>3, <4>5 DEF MainEcho
    <3>2. Working'
      BY <2>6 DEF MainEcho
    <3>3. QED
      BY <3>1, <3>2
  <2>7. CASE MainWrite
    BY <2>7 DEF MainWrite
  <2>8. QED
    BY <1>3, <2>1, <2>2, <2>3, <2>4, <2>5, <2>6, <2>7 DEF MainStep
<1>4. ASSUME NEW h \in Handlers, HttpStep(h) PROVE TypeOK' /\ Working'
  <2>1. CASE HttpNext(h)
    <3>1. CASE batch[h] = <<>>
      BY <2>1, <3>1 DEF HttpNext
    <3>2. CASE batch[h] # <<>>
      <4> DEFINE first == Head(batch[h])
                 rest == Tail(batch[h])
      <4>1. first \in Packets /\ rest \in Seq(Packets)
        BY <3>2
      <4>2. /\ batch' = [batch EXCEPT ![h] = rest]
            /\ IF first \in Packets /\ first.peer \in Peers
               THEN Goto(h, "check") /\ job' = [job EXCEPT ![h] = first]
               ELSE UNCHANGED <<pc, job>>
            /\ UNCHANGED <<incomingCh, filter, cpMu, writer, via, echoes, bounds>>
        BY <2>1, <3>2, <4>1 DEF HttpNext
      <4> HIDE DEF first, rest
      <4>3. batch' \in [Handlers -> Seq(Packets)]
        BY <4>1, <4>2
      <4>4. CASE first.peer \in Peers
        <5>1. job' = [job EXCEPT ![h] = first] /\ pc' = [pc EXCEPT ![h] = "check"]
          BY <4>1, <4>2, <4>4
        <5>2. TypeOK'
          BY <4>1, <4>2, <4>3, <5>1
        <5>3. Working'
          BY <4>1, <4>2, <4>4, <5>1
        <5>4. QED
          BY <5>2, <5>3
      <4>5. CASE first.peer \notin Peers
        BY <4>2, <4>3, <4>5
      <4>6. QED
        BY <4>4, <4>5
    <3>3. QED
      BY <3>1, <3>2
  <2>2. CASE HttpCheck(h)
    <3>1. \/ pc' = [pc EXCEPT ![h] = "set"] /\ job' = job
          \/ pc' = [pc EXCEPT ![h] = "next"] /\ job' = [job EXCEPT ![h] = NoJob]
      <4>1. IF Fresh(Key(job[h])) THEN Goto(h, "set") /\ job' = job
                                  ELSE Drop(h, "next")
        BY <2>2 DEF HttpCheck
      <4>2. CASE Fresh(Key(job[h]))
        BY ONLY <4>1, <4>2 DEF Goto
      <4>3. CASE ~Fresh(Key(job[h]))
        BY ONLY <4>1, <4>3 DEF Drop, Goto
      <4>4. QED
        BY ONLY <4>2, <4>3
    <3>2. UNCHANGED <<incomingCh, filter, cpMu, writer, via, batch, echoes, bounds>>
      BY <2>2 DEF HttpCheck
    <3>3. pc[h] = "check" /\ h \in Threads /\ h \notin {"main", "tun"}
      BY <2>2 DEF HttpCheck
    <3>4. TypeOK'
      BY <3>1, <3>2, <3>3
    <3>5. Working'
      BY <3>1, <3>2, <3>3
    <3>6. QED
      BY <3>4, <3>5
  <2>3. CASE HttpSet(h)
    <3> DEFINE k == Key(job[h])
    <3>1. k \in Keys /\ bloom' = bloom \cup BitsOf[k] /\ Record(h, k)
      BY <2>3 DEF HttpSet, Insert, Keys
    <3> HIDE DEF k
    <3>2. bloom' \subseteq Bits
      BY <3>1 DEF Bits
    <3>3. setBy' \in [Keys -> SUBSET Threads] /\ accepted' \in [Keys -> Nat]
      BY <3>1 DEF Record
    <3>4. TypeOK'
      BY <2>3, <3>2, <3>3 DEF HttpSet, Insert
    <3>5. Working'
      BY <2>3 DEF HttpSet
    <3>6. QED
      BY <3>4, <3>5
  <2>4. CASE HttpCount(h)
    BY <2>4 DEF HttpCount, Count
  <2>5. CASE HttpOpen(h)
    <3>1. \E l \in {"next", "echoLock", "write"} :
             /\ pc' = [pc EXCEPT ![h] = l]
             /\ \/ job' = job
                \/ l = "next" /\ job' = [job EXCEPT ![h] = NoJob]
      <4>1. \/ Drop(h, "next")
            \/ Goto(h, "echoLock") /\ job' = job
            \/ Goto(h, "write") /\ job' = job
        BY <2>5 DEF HttpOpen
      <4>2. CASE Drop(h, "next")
        BY ONLY <4>2 DEF Drop, Goto
      <4>3. CASE Goto(h, "echoLock") /\ job' = job
        BY ONLY <4>3 DEF Goto
      <4>4. CASE Goto(h, "write") /\ job' = job
        BY ONLY <4>4 DEF Goto
      <4>5. QED
        BY ONLY <4>1, <4>2, <4>3, <4>4
    <3>2. UNCHANGED <<incomingCh, filter, writer, via, batch, echoes, bounds>>
      BY <2>5 DEF HttpOpen
    <3>3. pc[h] = "open" /\ h \in Threads /\ h \notin {"main", "tun"}
      BY <2>5 DEF HttpOpen
    <3>4. cpMu' \in [Peers -> Threads \cup {NoThread}]
      BY <2>5 DEF HttpOpen
    <3>5. TypeOK'
      BY <3>1, <3>2, <3>3, <3>4
    <3>6. Working'
      BY <3>1, <3>2, <3>3
    <3>7. QED
      BY <3>5, <3>6
  <2>6. CASE HttpEcho(h)
    BY <2>6 DEF HttpEcho
  <2>7. CASE HttpWrite(h)
    BY <2>7 DEF HttpWrite
  <2>8. QED
    BY <1>4, <2>1, <2>2, <2>3, <2>4, <2>5, <2>6, <2>7 DEF HttpStep
<1>5. ASSUME NEW t \in Threads, Locking(t) PROVE TypeOK' /\ Working'
  <2>1. CASE MainLock /\ t = "main"
    BY <2>1 DEF MainLock
  <2>2. CASE TunLock /\ t = "tun"
    BY <2>2 DEF TunLock
  <2>3. CASE t \in Handlers /\ HttpLock(t)
    BY <2>3 DEF HttpLock
  <2>4. CASE t # "tun" /\ EchoLock(t)
    BY <2>4 DEF EchoLock
  <2>5. QED
    BY <1>5, <2>1, <2>2, <2>3, <2>4 DEF Locking
<1>6. CASE TunSend
  BY <1>6 DEF TunSend
<1>7. CASE ResetFull
  BY <1>7 DEF ResetFull, Clear, Forget
<1>8. CASE ZeroCount
  BY <1>8 DEF ZeroCount
<1>9. QED
  BY <1>1, <1>2, <1>3, <1>4, <1>5, <1>6, <1>7, <1>8 DEF Next

(* The invariant without its type part. *)
Rest == CpMuHeld /\ FilterExact /\ Counted /\ MainWindow /\ ViaIsWriter /\ EchoToSender

(* A reset leaves an exact (empty) filter, also when it comes between the main *)
(* loop's check and its insertion.                                          *)
LEMMA ClearKeeps ==
    ASSUME TypeOK, Working, Clear
    PROVE  FilterExact' /\ Counted' /\ MainWindow'
<1>1. FilterExact'
  BY DEF Clear, Forget, FilterExact
<1>2. pc["main"] = "set" => Key(job["main"]) \in Keys
  BY DEF Working, Keys
<1>3. Counted' /\ MainWindow'
  BY <1>2 DEF Clear, Forget, Counted, MainWindow, control
<1>4. QED
  BY <1>1, <1>3

(* An insertion adds the bits of its packet to an exact filter. *)
LEMMA InsertIsExact ==
    ASSUME TypeOK, FilterExact, NEW t \in Threads, job[t] \in Packets, Insert(t)
    PROVE  FilterExact'
<1> DEFINE k == Key(job[t])
           old == {l \in Keys : setBy[l] # {}}
           new == {l \in Keys : setBy'[l] # {}}
<1>1. k \in Keys
  BY DEF Keys
<1>2. new = old \cup {k}
  <2>1. setBy \in [Keys -> SUBSET Threads]
    BY DEF TypeOK
  <2>2. setBy' = [setBy EXCEPT ![k] = setBy[k] \cup {t}]
    BY DEF Insert, Record
  <2> HIDE DEF k
  <2>3. t \in setBy'[k]
    BY <1>1, <2>1, <2>2
  <2>4. ASSUME NEW l \in Keys, l # k PROVE setBy'[l] = setBy[l]
    BY <2>1, <2>2, <2>4
  <2>5. ASSUME NEW l \in Keys PROVE l \in new <=> l \in old \cup {k}
    <3>1. CASE l = k
      BY <2>3, <3>1
    <3>2. CASE l # k
      BY <2>4, <3>2
    <3>3. QED
      BY <3>1, <3>2
  <2>6. QED
    BY <1>1, <2>5
<1>3. bloom' = bloom \cup BitsOf[k]
  BY DEF Insert
<1>4. bloom = UNION {BitsOf[l] : l \in old}
  BY DEF FilterExact
<1> HIDE DEF k, old, new
<1>5. bloom' = UNION {BitsOf[l] : l \in new}
  BY <1>2, <1>3, <1>4
<1>6. QED
  BY <1>5 DEF FilterExact, new

(* A thread that unlocks its own cipher takes no other thread's lock away. *)
LEMMA UnlockKeepsOthers ==
    ASSUME TypeOK, CpMuHeld, NEW t \in Threads, Holds(t), Unlock(t),
           job[t].peer \in Peers, NEW u \in Threads, u # t, Holds(u)
    PROVE  cpMu'[job[u].peer] = u
BY DEF TypeOK, CpMuHeld, Unlock, Threads

(* Every step keeps the rest of the invariant. *)
LEMMA RestStep ==
    ASSUME IInv, [Next]_vars, TypeOK', Working'
    PROVE  Rest'
<1> USE DEF IInv, Rest, TypeOK, Working, CpMuHeld, Holds, FilterExact, Counted, MainWindow,
            ViaIsWriter, EchoToSender, vars, filter, control, bounds, Threads,
            Goto, Drop, DropMain, Lock, Unlock
<1>1. CASE UNCHANGED vars
  BY <1>1
<1>2. CASE Environment
  <2>1. ASSUME NEW dg \in Datagrams, Receive(dg) PROVE Rest'
    BY <2>1 DEF Receive
  <2>2. ASSUME NEW h \in Handlers, NEW b \in Batches, HttpPost(h, b) PROVE Rest'
    BY <2>2 DEF HttpPost
  <2>3. ASSUME NEW p \in Peers, TunRead(p) PROVE Rest'
    BY <2>3 DEF TunRead
  <2>4. CASE ResetTick
    <3>1. FilterExact' /\ Counted' /\ MainWindow'
      BY <2>4, ClearKeeps DEF ResetTick
    <3>2. CpMuHeld' /\ ViaIsWriter' /\ EchoToSender'
      BY <2>4 DEF ResetTick, Clear
    <3>3. QED
      BY <3>1, <3>2
  <2>5. QED
    BY <1>2, <2>1, <2>2, <2>3, <2>4 DEF Environment
<1>3. CASE MainStep
  <2>1. CASE MainTake
    BY <2>1 DEF MainTake
  <2>2. CASE MainSetWriter
    BY <2>2 DEF MainSetWriter
  <2>3. CASE MainCheck
    <3> DEFINE k == Key(job["main"])
    <3>1. CpMuHeld'
      BY <2>3, UnlockKeepsOthers DEF MainCheck
    <3>2. k \in Keys
      BY <2>3 DEF MainCheck, Keys
    <3>3. accepted[k] # 0 => ~Fresh(k)
      BY <3>2 DEF Fresh
    <3>4. MainWindow'
      BY <2>3, <3>3 DEF MainCheck
    <3>5. FilterExact' /\ Counted' /\ ViaIsWriter' /\ EchoToSender'
      BY <2>3 DEF MainCheck
    <3>6. QED
      BY <3>1, <3>4, <3>5
  <2>4. CASE MainSet
    <3> DEFINE k == Key(job["main"])
    <3>1. k \in Keys /\ Insert("main") /\ Record("main", k)
      BY <2>4 DEF MainSet, Insert, Keys
    <3>2. job["main"] \in Packets /\ "main" \in Threads /\ Insert("main")
      BY <2>4 DEF MainSet
    <3>3. FilterExact'
      BY <3>2, InsertIsExact
    <3> HIDE DEF k
    <3>4. Counted'
      BY <3>1 DEF Record
    <3>5. CpMuHeld' /\ MainWindow' /\ ViaIsWriter' /\ EchoToSender'
      BY <2>4 DEF MainSet
    <3>6. QED
      BY <3>3, <3>4, <3>5
  <2>5. CASE MainCount
    BY <2>5 DEF MainCount, Count
  <2>6. CASE MainEcho
    BY <2>6 DEF MainEcho
  <2>7. CASE MainWrite
    BY <2>7 DEF MainWrite
  <2>8. QED
    BY <1>3, <2>1, <2>2, <2>3, <2>4, <2>5, <2>6, <2>7 DEF MainStep
<1>4. ASSUME NEW h \in Handlers, HttpStep(h) PROVE Rest'
  <2>1. CASE HttpNext(h)
    BY <2>1 DEF HttpNext
  <2>2. CASE HttpCheck(h)
    BY <2>2 DEF HttpCheck
  <2>3. CASE HttpSet(h)
    <3>1. job[h] \in Packets /\ job[h] \in Packets /\ Insert(h)
      BY <2>3 DEF HttpSet
    <3>2. FilterExact'
      BY <3>1, InsertIsExact
    <3>3. CpMuHeld' /\ Counted' /\ MainWindow' /\ ViaIsWriter' /\ EchoToSender'
      BY <2>3 DEF HttpSet, Insert, Record
    <3>4. QED
      BY <3>2, <3>3
  <2>4. CASE HttpCount(h)
    BY <2>4 DEF HttpCount, Count
  <2>5. CASE HttpOpen(h)
    <3>1. h \in Threads /\ Holds(h) /\ job[h].peer \in Peers /\ Unlock(h)
      BY <2>5 DEF HttpOpen
    <3>2. \A u \in Threads \ {h} : Holds(u) => cpMu'[job[u].peer] = u
      BY <3>1, UnlockKeepsOthers
    <3>3. \A u \in Threads \ {h} : pc'[u] = pc[u] /\ job'[u] = job[u]
      BY <2>5 DEF HttpOpen
    <3>4. pc'[h] \in {"next", "echoLock", "write"} /\ h # "main"
      BY <2>5 DEF HttpOpen
    <3>5. CpMuHeld'
      <4> SUFFICES ASSUME NEW u \in Threads, Holds(u)'
                   PROVE  cpMu'[job'[u].peer] = u
        OBVIOUS
      <4>1. u # h
        BY <3>4
      <4>2. Holds(u)
        BY <3>3, <4>1
      <4>3. job'[u] = job[u]
        BY <3>3, <4>1
      <4>4. cpMu'[job[u].peer] = u
        BY <3>2, <4>1, <4>2
      <4>5. QED
        BY <4>3, <4>4
    <3>6. FilterExact' /\ Counted' /\ MainWindow' /\ ViaIsWriter' /\ EchoToSender'
      BY <2>5 DEF HttpOpen
    <3>7. QED
      BY <3>5, <3>6
  <2>6. CASE HttpEcho(h)
    <3>1. CpMuHeld'
      BY <2>6, UnlockKeepsOthers DEF HttpEcho
    <3>2. FilterExact' /\ Counted' /\ MainWindow' /\ ViaIsWriter' /\ EchoToSender'
      BY <2>6 DEF HttpEcho
    <3>3. QED
      BY <3>1, <3>2
  <2>7. CASE HttpWrite(h)
    BY <2>7 DEF HttpWrite
  <2>8. QED
    BY <1>4, <2>1, <2>2, <2>3, <2>4, <2>5, <2>6, <2>7 DEF HttpStep
<1>5. ASSUME NEW t \in Threads, Locking(t) PROVE Rest'
  <2>1. CASE MainLock /\ t = "main"
    BY <2>1 DEF MainLock
  <2>2. CASE TunLock /\ t = "tun"
    BY <2>2 DEF TunLock
  <2>3. CASE t \in Handlers /\ HttpLock(t)
    BY <2>3 DEF HttpLock
  <2>4. CASE t # "tun" /\ EchoLock(t)
    BY <2>4 DEF EchoLock
  <2>5. QED
    BY <1>5, <2>1, <2>2, <2>3, <2>4 DEF Locking
<1>6. CASE TunSend
  BY <1>6 DEF TunSend
<1>7. CASE ResetFull
  <2>1. FilterExact' /\ Counted' /\ MainWindow'
    BY <1>7, ClearKeeps DEF ResetFull
  <2>2. CpMuHeld' /\ ViaIsWriter' /\ EchoToSender'
    BY <1>7 DEF ResetFull, Clear
  <2>3. QED
    BY <2>1, <2>2
<1>8. CASE ZeroCount
  BY <1>8 DEF ZeroCount
<1>9. QED
  BY <1>1, <1>2, <1>3, <1>4, <1>5, <1>6, <1>7, <1>8 DEF Next

(* The inductive invariant holds in every reachable state. *)
THEOREM Invariance == Spec => []IInv
<1>1. Init => IInv
  <2> SUFFICES ASSUME Init PROVE IInv
    OBVIOUS
  <2>1. TypeOK
    <3>1. <<>> \in Seq(Datagrams) /\ <<>> \in Seq(Packets)
      OBVIOUS
    <3>2. incomingCh \in Seq(Datagrams) /\ batch \in [Handlers -> Seq(Packets)]
      BY <3>1 DEF Init
    <3>3. setBy \in [Keys -> SUBSET Threads] /\ accepted \in [Keys -> Nat]
      BY DEF Init
    <3>4. QED
      BY <3>2, <3>3 DEF Init, TypeOK, Labels, Threads
  <2>2. Working /\ CpMuHeld /\ Counted /\ MainWindow /\ ViaIsWriter
    BY DEF Init, Working, Labels, Threads, CpMuHeld, Holds, Counted, MainWindow, ViaIsWriter
  <2>3. FilterExact /\ EchoToSender
    BY DEF Init, FilterExact, EchoToSender
  <2>4. QED
    BY <2>1, <2>2, <2>3 DEF IInv
<1>2. IInv /\ [Next]_vars => IInv'
  BY TypeWorking, RestStep DEF IInv, Rest
<1>3. QED
  BY <1>1, <1>2, PTL DEF Spec

(* Every variable keeps its type. *)
THEOREM TypeCorrect == Spec => []TypeOK
BY Invariance, PTL DEF IInv

(* No two threads are ever inside the cipher of one peer (Peer.cpMu). *)
THEOREM CiphersAreExclusive == Spec => []CipherMutex
<1>1. IInv => CipherMutex
  BY DEF IInv, CpMuHeld, CipherMutex
<1>2. QED
  BY <1>1, Invariance, PTL

(* The answer to a keep-alive takes the path of the keep-alive. *)
THEOREM AnswersGoBack == Spec => []EchoToSender
BY Invariance, PTL DEF IInv

(* A packet passes bloomCheck, in the main loop and in a handler, only if no  *)
(* thread has inserted it since the last reset.                               *)
THEOREM OnlyFreshPass == Spec => FreshAtCheck
<1>1. ASSUME IInv, [Next]_vars, NEW t \in Threads, pc[t] = "check", pc'[t] = "set"
      PROVE  setBy[Key(job[t])] = {}
  <2>1. Fresh(Key(job[t]))
    <3> USE <1>1 DEF IInv, TypeOK, Labels, Threads, Goto, Drop, DropMain, control,
                 filter, bounds
    <3>1. CASE UNCHANGED vars
      BY <3>1 DEF vars
    <3>2. CASE Environment
      BY <3>2 DEF Environment, Receive, HttpPost, TunRead, ResetTick, Clear
    <3>3. CASE MainStep
      BY <3>3 DEF MainStep, MainTake, MainSetWriter, MainCheck, MainSet, MainCount,
                  MainEcho, MainWrite
    <3>4. ASSUME NEW h \in Handlers, HttpStep(h) PROVE Fresh(Key(job[t]))
      BY <3>4 DEF HttpStep, HttpNext, HttpCheck, HttpSet, HttpCount, HttpOpen,
                  HttpEcho, HttpWrite
    <3>5. ASSUME NEW u \in Threads, Locking(u) PROVE Fresh(Key(job[t]))
      BY <3>5 DEF Locking, MainLock, TunLock, HttpLock, EchoLock
    <3>6. CASE TunSend \/ ResetFull \/ ZeroCount
      BY <3>6 DEF TunSend, ResetFull, Clear, ZeroCount
    <3>7. QED
      BY <3>1, <3>2, <3>3, <3>4, <3>5, <3>6 DEF Next
  <2>2. job[t] \in Packets
    BY <1>1 DEF IInv, Working, Threads
  <2>3. Key(job[t]) \in Keys
    BY <2>2 DEF Keys
  <2>4. QED
    BY <1>1, <2>1, <2>3 DEF IInv, FilterExact, Fresh
<1>2. IInv /\ [Next]_vars
        => [\A t \in Threads : pc[t] = "check" /\ pc'[t] = "set"
                                  => setBy[Key(job[t])] = {}]_vars
  BY <1>1
<1>3. QED
  BY <1>2, Invariance, PTL DEF Spec, FreshAtCheck

(* The packets the main loop accepts implement ReplayGuard: none is accepted *)
(* twice between two resets.  A step that inserts for the main loop is an    *)
(* Accept, a reset is a Forget, and every other step leaves them alone.      *)
THEOREM MainLoopGuards == Spec => GuardSpec
<1>1. Init => Guard!Init
  BY DEF Init, Guard!Init, Guard!None
<1>2. ASSUME IInv, [Next]_vars PROVE [Guard!Next]_accepted
  <2>1. CASE MainSet
    <3> DEFINE k == Key(job["main"])
    <3>1. k \in Keys /\ accepted[k] = 0
      BY <1>2, <2>1 DEF IInv, Working, MainWindow, MainSet, Keys
    <3>2. accepted' = [accepted EXCEPT ![k] = 1]
      BY <1>2, <2>1, <3>1 DEF IInv, TypeOK, MainSet, Insert, Record
    <3>3. QED
      BY <3>1, <3>2 DEF Guard!Next, Guard!Accept
  <2>2. CASE Clear
    BY <2>2 DEF Clear, Forget, Guard!Next, Guard!Forget, Guard!None
  <2>3. ASSUME NEW h \in Handlers, HttpSet(h) PROVE accepted' = accepted
    BY <1>2, <2>3 DEF IInv, TypeOK, HttpSet, Insert, Record
  <2>4. CASE UNCHANGED accepted
    BY <2>4
  <2>5. QED
    <3> USE <1>2, <2>1, <2>2, <2>3, <2>4 DEF filter
    <3>1. CASE UNCHANGED vars
      BY <3>1 DEF vars
    <3>2. CASE Environment
      BY <3>2 DEF Environment, Receive, HttpPost, TunRead, ResetTick
    <3>3. CASE MainStep
      BY <3>3 DEF MainStep, MainTake, MainSetWriter, MainCheck, MainCount, Count,
                  MainEcho, MainWrite
    <3>4. ASSUME NEW h \in Handlers, HttpStep(h) PROVE [Guard!Next]_accepted
      BY <3>4 DEF HttpStep, HttpNext, HttpCheck, HttpCount, Count, HttpOpen,
                  HttpEcho, HttpWrite
    <3>5. ASSUME NEW t \in Threads, Locking(t) PROVE [Guard!Next]_accepted
      BY <3>5 DEF Locking, MainLock, TunLock, HttpLock, EchoLock
    <3>6. CASE TunSend \/ ResetFull \/ ZeroCount
      BY <3>6 DEF TunSend, ResetFull, ZeroCount
    <3>7. QED
      BY <3>1, <3>2, <3>3, <3>4, <3>5, <3>6 DEF Next
<1>3. QED
  BY <1>1, <1>2, Invariance, PTL DEF Spec, GuardSpec, Guard!Spec
=============================================================================
