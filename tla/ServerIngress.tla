--------------------------- MODULE ServerIngress ---------------------------
(***************************************************************************)
(* The way of a packet into the server (server/server.go): the transport   *)
(* readers that fill incomingCh, the main loop that runs processPacket,    *)
(* the net/http goroutines that run xhttpProcessPacket beside it, the TUN  *)
(* reader that encrypts the answers, and the goroutine that resets the     *)
(* replay filter.  All of them share the bloom filter, its counter and the *)
(* per-peer cipher (Peer.CP under Peer.cpMu).                              *)
(*                                                                         *)
(* The peers are those of the configuration file, all with a cipher; the   *)
(* control panel that adds and removes peers is PeerRegistry.  Encryption  *)
(* is on (no_encrypt = false) and IncomingPacket.IsQUIC is false, as no    *)
(* reader ever sets it.  Traffic counters and drop counters are left out.  *)
(***************************************************************************)
EXTENDS Integers, Sequences, FiniteSets

CONSTANTS
    Peers,          \* ShortIDs of the configured users
    Packets,        \* what clients send: records with a peer (its ShortID, which
                    \* may be no configured one), a nonce and a kind: "data",
                    \* "ping" (an empty payload) or "bad" (Decrypt fails)
    BitsOf,         \* bit positions of the filter that the hashes of a key select
    Writers,        \* return paths: UDP addresses and WebSocket connections
    Handlers,       \* net/http goroutines serving POST <AdminPath>/xhttp
    NoWriter, NoThread, NoJob,
    QCap,           \* capacity of incomingCh
    BloomCapacity,  \* const bloomCapacity of the reset goroutine
    MaxBatch,       \* packets in one POST
    MaxArrivals,    \* bound: packets put into incomingCh
    MaxPosts,       \* bound: POST requests
    MaxDown,        \* bound: packets read from the TUN device
    MaxTicks        \* bound: ticks of the 60 s ticker

Key(pkt) == <<pkt.peer, pkt.nonce>>
Keys == {Key(pkt) : pkt \in Packets}
Bits == UNION {BitsOf[k] : k \in Keys}
Datagrams == [pkt : Packets, from : Writers]
Jobs == Packets \cup [peer : Peers]
Threads == {"main", "tun"} \cup Handlers

ASSUME PacketsAssumption ==
    /\ \A pkt \in Packets : pkt.kind \in {"data", "ping", "bad"}
    /\ BitsOf \in [Keys -> SUBSET Bits]

ASSUME NamesAssumption ==
    /\ "main" \notin Handlers /\ "tun" \notin Handlers
    /\ NoThread \notin Threads /\ NoWriter \notin Writers

ASSUME BoundsAssumption ==
    {QCap, BloomCapacity, MaxBatch, MaxArrivals, MaxPosts, MaxDown, MaxTicks}
        \subseteq Nat

VARIABLES
    incomingCh,     \* the channel from the transport readers to the main loop
    bloom,          \* the set bits of the filter
    bloomCount,     \* its counter, an atomic beside it
    resetting,      \* the reset goroutine is between the filter and the counter
    cpMu,           \* per peer, the thread that holds the cipher's mutex
    writer,         \* per peer, Peer.Writer: where its answers go
    pc, job,        \* per thread, where it is and the packet it works on
    via,            \* the IncomingPacket.Writer of the main loop's packet
    batch,          \* per handler, the packets of the POST still to process
    echoes,         \* the answers to keep-alives: the path they took, the ping's path
    setBy,          \* history: per key, who inserted it since the last reset
    accepted,       \* history: per key, how often the main loop did
    arrivals, posts, downs, ticks

filter  == <<bloom, bloomCount, resetting, setBy, accepted>>
control == <<pc, job, via, batch>>
bounds  == <<arrivals, posts, downs, ticks>>
vars == <<incomingCh, filter, cpMu, writer, control, echoes, bounds>>

(***************************************************************************)
(* Labels.  The main loop holds cpMu from the filter's check to its count; *)
(* a handler checks, inserts and counts before it takes cpMu.              *)
(***************************************************************************)
Labels == {"idle", "next", "writer", "check", "set", "count", "lock", "open",
           "echoLock", "echo", "write"}

Holds(t) == \/ t = "main" /\ pc[t] \in {"check", "set", "count"}
            \/ pc[t] \in {"open", "echo"}

TypeOK ==
    /\ incomingCh \in Seq(Datagrams)
    /\ bloom \subseteq Bits
    /\ bloomCount \in Nat
    /\ resetting \in BOOLEAN
    /\ cpMu \in [Peers -> Threads \cup {NoThread}]
    /\ writer \in [Peers -> Writers \cup {NoWriter}]
    /\ pc \in [Threads -> Labels]
    /\ job \in [Threads -> Jobs \cup {NoJob}]
    /\ via \in Writers \cup {NoWriter}
    /\ batch \in [Handlers -> Seq(Packets)]
    /\ echoes \subseteq [to : Writers \cup {NoWriter}, from : Writers \cup {NoWriter}]
    /\ setBy \in [Keys -> SUBSET Threads] /\ accepted \in [Keys -> Nat]
    /\ arrivals \in Nat /\ posts \in Nat /\ downs \in Nat /\ ticks \in Nat

Init ==
    /\ incomingCh = <<>>
    /\ bloom = {} /\ bloomCount = 0 /\ resetting = FALSE
    /\ setBy = [k \in Keys |-> {}] /\ accepted = [k \in Keys |-> 0]
    /\ cpMu = [p \in Peers |-> NoThread]
    /\ writer = [p \in Peers |-> NoWriter]
    /\ pc = [t \in Threads |-> "idle"]
    /\ job = [t \in Threads |-> NoJob]
    /\ via = NoWriter
    /\ batch = [h \in Handlers |-> <<>>]
    /\ echoes = {}
    /\ arrivals = 0 /\ posts = 0 /\ downs = 0 /\ ticks = 0

Goto(t, label) == pc' = [pc EXCEPT ![t] = label]
\* The thread is done with its packet.
Drop(t, label) == Goto(t, label) /\ job' = [job EXCEPT ![t] = NoJob]
DropMain == Drop("main", "idle") /\ via' = NoWriter

\* The definitions named Wrong... are faulty variants of the one that follows;
\* no action uses them: each shows which mistake a property would catch.
WrongLock(t) == cpMu' = [cpMu EXCEPT ![job[t].peer] = t]

Lock(t) == /\ cpMu[job[t].peer] = NoThread
           /\ cpMu' = [cpMu EXCEPT ![job[t].peer] = t]

WrongUnlock(t) == IF pc[t] = "check" THEN UNCHANGED cpMu
                  ELSE cpMu' = [cpMu EXCEPT ![job[t].peer] = NoThread]
Unlock(t) == cpMu' = [cpMu EXCEPT ![job[t].peer] = NoThread]

\* bloomCheck: some bit of the key is still clear.
Fresh(k) == ~(BitsOf[k] \subseteq bloom)

Record(t, k) ==
    /\ setBy' = [setBy EXCEPT ![k] = @ \cup {t}]
    /\ accepted' = [accepted EXCEPT ![k] = IF t = "main" THEN @ + 1 ELSE @]
Forget == setBy' = [k \in Keys |-> {}] /\ accepted' = [k \in Keys |-> 0]

\* Only the first of the three hashes.
WrongInsert(t) == LET k == Key(job[t])
                  IN  /\ bloom' = bloom \cup {CHOOSE b \in BitsOf[k] : TRUE}
                      /\ Record(t, k)
                      /\ UNCHANGED <<bloomCount, resetting>>
\* bloomSet; the counter is a step of its own, outside bloomMu.
Insert(t) == LET k == Key(job[t])
             IN  /\ bloom' = bloom \cup BitsOf[k]
                 /\ Record(t, k)
                 /\ UNCHANGED <<bloomCount, resetting>>
Count == /\ bloomCount' = bloomCount + 1
         /\ UNCHANGED <<bloom, resetting, setBy, accepted>>

-----------------------------------------------------------------------------
(* The transport readers: a packet, first copy or duplicate, enters the     *)
(* channel with the path it came by; the reader blocks while it is full.    *)
Receive(dg) ==
    /\ arrivals < MaxArrivals
    /\ Len(incomingCh) < QCap
    /\ incomingCh' = Append(incomingCh, dg)
    /\ arrivals' = arrivals + 1
    /\ UNCHANGED <<filter, cpMu, writer, control, echoes, posts, downs, ticks>>

(* processPacket, the main loop. *)
MainTake ==
    /\ pc["main"] = "idle" /\ incomingCh # <<>>
    /\ incomingCh' = Tail(incomingCh)
    /\ LET dg == Head(incomingCh)
       IN  IF dg.pkt.peer \in Peers
           THEN /\ job' = [job EXCEPT !["main"] = dg.pkt]
                /\ via' = dg.from
                /\ Goto("main", "writer")
           ELSE UNCHANGED <<job, via, pc>>
    /\ UNCHANGED <<filter, cpMu, writer, batch, echoes, bounds>>

MainSetWriter ==
    /\ pc["main"] = "writer"
    /\ writer' = [writer EXCEPT ![job["main"].peer] = via]
    /\ Goto("main", "lock")
    /\ UNCHANGED <<incomingCh, filter, cpMu, job, via, batch, echoes, bounds>>

MainLock ==
    /\ pc["main"] = "lock"
    /\ Lock("main")
    /\ Goto("main", "check")
    /\ UNCHANGED <<incomingCh, filter, writer, job, via, batch, echoes, bounds>>

\* Keep-alives skip the filter.
WrongMainCheck ==
    /\ pc["main"] = "check"
    /\ IF Fresh(Key(job["main"])) \/ job["main"].kind = "ping"
       THEN Goto("main", "set") /\ UNCHANGED <<cpMu, job, via>>
       ELSE DropMain /\ Unlock("main")
    /\ UNCHANGED <<incomingCh, filter, writer, batch, echoes, bounds>>

\* bloomCheck, then Decrypt, which reads nothing that is shared.
MainCheck ==
    /\ pc["main"] = "check"
    /\ IF Fresh(Key(job["main"])) /\ job["main"].kind # "bad"
       THEN Goto("main", "set") /\ UNCHANGED <<cpMu, job, via>>
       ELSE DropMain /\ Unlock("main")
    /\ UNCHANGED <<incomingCh, filter, writer, batch, echoes, bounds>>

MainSet ==
    /\ pc["main"] = "set"
    /\ Insert("main")
    /\ Goto("main", "count")
    /\ UNCHANGED <<incomingCh, cpMu, writer, job, via, batch, echoes, bounds>>

MainCount ==
    /\ pc["main"] = "count"
    /\ Count
    /\ Unlock("main")
    /\ Goto("main", IF job["main"].kind = "ping" THEN "echoLock" ELSE "write")
    /\ UNCHANGED <<incomingCh, writer, job, via, batch, echoes, bounds>>

\* The answer leaves through Peer.Writer, read again after the encryption.
MainEcho ==
    /\ pc["main"] = "echo"
    /\ Unlock("main")
    /\ echoes' = echoes \cup {[to |-> writer[job["main"].peer], from |-> via]}
    /\ DropMain
    /\ UNCHANGED <<incomingCh, filter, writer, batch, bounds>>

MainWrite ==
    /\ pc["main"] = "write"
    /\ DropMain
    /\ UNCHANGED <<incomingCh, filter, cpMu, writer, batch, echoes, bounds>>

-----------------------------------------------------------------------------
(* startXHTTPServer and xhttpProcessPacket: one goroutine per POST, the      *)
(* packets of its batch one after the other.                                 *)
HttpPost(h, b) ==
    /\ posts < MaxPosts
    /\ pc[h] = "idle"
    /\ batch' = [batch EXCEPT ![h] = b]
    /\ posts' = posts + 1
    /\ Goto(h, "next")
    /\ UNCHANGED <<incomingCh, filter, cpMu, writer, job, via, echoes,
                   arrivals, downs, ticks>>

HttpNext(h) ==
    /\ pc[h] = "next"
    /\ IF batch[h] = <<>>
       THEN Goto(h, "idle") /\ UNCHANGED <<job, batch>>
       ELSE /\ batch' = [batch EXCEPT ![h] = Tail(@)]
            /\ IF Head(batch[h]).peer \in Peers
               THEN Goto(h, "check") /\ job' = [job EXCEPT ![h] = Head(batch[h])]
               ELSE UNCHANGED <<pc, job>>
    /\ UNCHANGED <<incomingCh, filter, cpMu, writer, via, echoes, bounds>>

HttpCheck(h) ==
    /\ pc[h] = "check"
    /\ IF Fresh(Key(job[h])) THEN Goto(h, "set") /\ UNCHANGED job
                             ELSE Drop(h, "next")
    /\ UNCHANGED <<incomingCh, filter, cpMu, writer, via, batch, echoes, bounds>>

HttpSet(h) ==
    /\ pc[h] = "set"
    /\ Insert(h)
    /\ Goto(h, "count")
    /\ UNCHANGED <<incomingCh, cpMu, writer, job, via, batch, echoes, bounds>>

HttpCount(h) ==
    /\ pc[h] = "count"
    /\ Count
    /\ Goto(h, "lock")
    /\ UNCHANGED <<incomingCh, cpMu, writer, job, via, batch, echoes, bounds>>

\* The handler sets Peer.Writer too, to the nil it is passed.
WrongHttpLock(h) ==
    /\ pc[h] = "lock"
    /\ Lock(h)
    /\ writer' = [writer EXCEPT ![job[h].peer] = NoWriter]
    /\ Goto(h, "open")
    /\ UNCHANGED <<incomingCh, filter, job, via, batch, echoes, bounds>>

HttpLock(h) ==
    /\ pc[h] = "lock"
    /\ Lock(h)
    /\ Goto(h, "open")
    /\ UNCHANGED <<incomingCh, filter, writer, job, via, batch, echoes, bounds>>

HttpOpen(h) ==
    /\ pc[h] = "open"
    /\ Unlock(h)
    /\ \/ job[h].kind = "bad"  /\ Drop(h, "next")
       \/ job[h].kind = "ping" /\ Goto(h, "echoLock") /\ UNCHANGED job
       \/ job[h].kind = "data" /\ Goto(h, "write") /\ UNCHANGED job
    /\ UNCHANGED <<incomingCh, filter, writer, via, batch, echoes, bounds>>

\* The answer goes into the body of the response, not through Peer.Writer.
HttpEcho(h) ==
    /\ pc[h] = "echo"
    /\ Unlock(h)
    /\ Drop(h, "next")
    /\ UNCHANGED <<incomingCh, filter, writer, via, batch, echoes, bounds>>

HttpWrite(h) ==
    /\ pc[h] = "write"
    /\ Drop(h, "next")
    /\ UNCHANGED <<incomingCh, filter, cpMu, writer, via, batch, echoes, bounds>>

\* Main loop and handlers take cpMu a second time to encrypt an answer.
EchoLock(t) ==
    /\ pc[t] = "echoLock"
    /\ Lock(t)
    /\ Goto(t, "echo")
    /\ UNCHANGED <<incomingCh, filter, writer, job, via, batch, echoes, bounds>>

-----------------------------------------------------------------------------
(* The TUN reader: a packet for peer p, if p has a return path.             *)
TunRead(p) ==
    /\ downs < MaxDown
    /\ pc["tun"] = "idle"
    /\ writer[p] # NoWriter
    /\ job' = [job EXCEPT !["tun"] = [peer |-> p]]
    /\ downs' = downs + 1
    /\ Goto("tun", "lock")
    /\ UNCHANGED <<incomingCh, filter, cpMu, writer, via, batch, echoes,
                   arrivals, posts, ticks>>

TunLock ==
    /\ pc["tun"] = "lock"
    /\ Lock("tun")
    /\ Goto("tun", "open")
    /\ UNCHANGED <<incomingCh, filter, writer, job, via, batch, echoes, bounds>>

TunSend ==
    /\ pc["tun"] = "open"
    /\ Unlock("tun")
    /\ Drop("tun", "idle")
    /\ UNCHANGED <<incomingCh, filter, writer, via, batch, echoes, bounds>>

-----------------------------------------------------------------------------
(* The reset goroutine: every 60 s, or when the 5 s check finds the counter *)
(* at the capacity.  The filter is cleared under bloomMu, the counter after *)
(* bloomMu is released.                                                     *)
Clear ==
    /\ ~resetting
    /\ bloom' = {}
    /\ Forget
    /\ resetting' = TRUE
    /\ UNCHANGED <<incomingCh, bloomCount, cpMu, writer, control, echoes,
                   arrivals, posts, downs>>

ResetTick == ticks < MaxTicks /\ Clear /\ ticks' = ticks + 1

WrongResetFull == bloomCount > BloomCapacity /\ Clear /\ UNCHANGED ticks

ResetFull == bloomCount >= BloomCapacity /\ Clear /\ UNCHANGED ticks

\* The counter loses the capacity instead of its value.
WrongZeroCount ==
    /\ resetting
    /\ bloomCount' = bloomCount - BloomCapacity
    /\ resetting' = FALSE
    /\ UNCHANGED <<incomingCh, bloom, setBy, accepted, cpMu, writer, control, echoes,
                   bounds>>

ZeroCount ==
    /\ resetting
    /\ bloomCount' = 0
    /\ resetting' = FALSE
    /\ UNCHANGED <<incomingCh, bloom, setBy, accepted, cpMu, writer, control, echoes,
                   bounds>>

-----------------------------------------------------------------------------
Batches == UNION {[1..n -> Packets] : n \in 1..MaxBatch}

Environment ==
    \/ \E dg \in Datagrams : Receive(dg)
    \/ \E h \in Handlers, b \in Batches : HttpPost(h, b)
    \/ \E p \in Peers : TunRead(p)
    \/ ResetTick

MainStep == \/ MainTake \/ MainSetWriter \/ MainCheck \/ MainSet \/ MainCount
            \/ MainEcho \/ MainWrite
HttpStep(h) == \/ HttpNext(h) \/ HttpCheck(h) \/ HttpSet(h) \/ HttpCount(h)
               \/ HttpOpen(h) \/ HttpEcho(h) \/ HttpWrite(h)
Locking(t) == \/ t = "main" /\ (MainLock \/ EchoLock(t))
              \/ t = "tun" /\ TunLock
              \/ t \in Handlers /\ (HttpLock(t) \/ EchoLock(t))

Next ==
    \/ Environment
    \/ MainStep
    \/ \E h \in Handlers : HttpStep(h)
    \/ \E t \in Threads : Locking(t)
    \/ TunSend
    \/ ResetFull
    \/ ZeroCount

Spec == Init /\ [][Next]_vars

(***************************************************************************)
(* The goroutines run, sync.Mutex starves no waiter (a waiter of more than *)
(* 1 ms puts it in FIFO mode), and the 5 s ticker fires.  Nothing obliges  *)
(* clients to send or the 60 s ticker to fire again.                       *)
(***************************************************************************)
FairSpec ==
    /\ Spec
    /\ WF_vars(MainStep) /\ WF_vars(TunSend)
    /\ \A h \in Handlers : WF_vars(HttpStep(h))
    /\ \A t \in Threads : SF_vars(Locking(t))
    /\ WF_vars(ResetFull) /\ WF_vars(ZeroCount)

-----------------------------------------------------------------------------
(* CipherMutex.  One thread at a time is inside a peer's CipherPack, though *)
(* main loop, handlers and TUN reader lock cpMu at five places and leave    *)
(* it on every early return (Peer.cpMu's comment, the note on cipher.go's   *)
(* CipherPack that it is for one goroutine).                                *)
CipherMutex ==
    \A t, u \in Threads :
        Holds(t) /\ Holds(u) /\ t # u => job[t].peer # job[u].peer

(* FreshAtCheck.  A packet passes bloomCheck only if no thread has inserted *)
(* it since the last reset: a second copy is accepted only by a thread whose *)
(* check came before the first copy's bloomSet.                              *)
FreshAtCheck ==
    [][\A t \in Threads : pc[t] = "check" /\ pc'[t] = "set" => setBy[Key(job[t])] = {}]_vars

(* GuardSpec.  The main loop never accepts a packet twice between two resets, *)
(* whatever the handlers, the reset and the hashes do: its accepted packets  *)
(* implement ReplayGuard.                                                    *)
Guard == INSTANCE ReplayGuard WITH Keys <- Keys, accepted <- accepted
GuardSpec == Guard!Spec

(* EchoToSender.  The answer to a keep-alive goes out by the path the keep-  *)
(* alive came in by, though it is sent through Peer.Writer, which is read    *)
(* without udpMu after two unlocks of cpMu.                                  *)
EchoToSender == \A e \in echoes : e.to = e.from

(* Serves.  Every thread that takes a packet finishes with it: no path of   *)
(* processPacket or xhttpProcessPacket returns with a mutex held.           *)
Serves == \A t \in Threads : pc[t] # "idle" ~> pc[t] = "idle"

(* FullIsReset.  A filter counted full is emptied (the emergency reset of    *)
(* 02_NETWORK_CRYPTO.md): the counter falls below the capacity again.        *)
FullIsReset == bloomCount >= BloomCapacity ~> bloomCount < BloomCapacity
=============================================================================
