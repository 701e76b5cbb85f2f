----------------------------- MODULE AndroidApp -----------------------------
(***************************************************************************)
(* The Android client: the service and the activity (Kotlin), which share  *)
(* the main thread, the threads that call Core.startVPN, the exports of    *)
(* core/gomobile.go with their two globals, globalVPN and plat.tunFile,    *)
(* and the engine with the tunnel of core/vpn_android.go.                  *)
(*                                                                         *)
(* Start number s is a call of startVpnInternal that got a TUN: its        *)
(* descriptor, its thread and the engine the thread makes carry that       *)
(* number.  Stop, and what Start does after the dial, are one step each:   *)
(* they hold the mutex of their engine.  The engine's keep-alives and      *)
(* clock are in Tunnel: here a link may be found dead at any time.         *)
(***************************************************************************)
EXTENDS Integers, Sequences, FiniteSets

CONSTANTS
    Configs,        \* configurations the user connects with
    MaxStarts,      \* bound: starts
    MaxEvents       \* bound: what the user and the system ask for

Starts == 1..MaxStarts
ASSUME BoundsAssumption == MaxStarts \in Nat \ {0} /\ MaxEvents \in Nat

VARIABLES
    queue,      \* intents and posted calls the main thread has not handled
    main,       \* the main thread: where it is, and what it does after stopVPN
    service,    \* the live instance: isRunning, configJson, stopSelf was called
    owned,      \* the descriptor tunFd would close: none after detachFd
    live,       \* the starts of the live instance
    thread,     \* per start, where its thread is
    globalVPN,  \* the engine, 0 for nil
    tunFile,    \* plat.tunFile, 0 for nil
    file,       \* per descriptor, what has become of it
    closes,     \* history: per descriptor, how often it was closed
    engine,     \* per engine: running, conn, stopCh, number of Starts done
    ping,       \* per engine, where its ping loop is
    writer,     \* per engine and Start, where its writerLoop is and what it reads
    events,     \* events so far
    overlap     \* history: a stop or a start came while a startVPN was under way, or
                \* a start while an engine's ping loop was still about

app == <<queue, main, service, owned, live>>
core == <<globalVPN, tunFile, file, closes>>
loops == <<engine, ping, writer>>
history == <<events, overlap>>
vars == <<app, thread, core, loops, history>>

Labels == {"none", "check", "file", "open", "dial", "publish", "failed", "done"}
UnderWay(s) == thread[s] \in {"check", "file", "open", "dial", "publish"}
Fresh == [up |-> FALSE, cfg |-> "", doomed |-> FALSE]
Idle == [pc |-> "idle", next |-> ""]
NoWriter == [pc |-> "none", fd |-> 0]

TypeOK ==
    /\ queue \in Seq([kind : {"start"}, cfg : Configs] \cup [kind : {"STOP"}]
                     \cup [kind : {"post"}, of : Starts])
    /\ main \in [pc : {"idle", "clear", "rest", "establish"},
                 next : {"", "intent", "stopped", "restart", "destroyed"}]
    /\ service \in [up : BOOLEAN, cfg : Configs \cup {""}, doomed : BOOLEAN]
    /\ owned \in 0..MaxStarts /\ live \subseteq Starts
    /\ thread \in [Starts -> Labels]
    /\ globalVPN \in 0..MaxStarts /\ tunFile \in 0..MaxStarts
    /\ file \in [Starts -> {"none", "fd", "open", "closing", "closed"}]
    /\ closes \in [Starts -> Nat]
    /\ engine \in [Starts -> [running : BOOLEAN, conn : BOOLEAN, stopped : BOOLEAN, gens : 0..MaxStarts]]
    /\ ping \in [Starts -> {"none", "wait", "judge", "stop", "open", "dial"}]
    /\ writer \in [Starts \X Starts -> [pc : {"none", "top", "read", "send"}, fd : 0..MaxStarts]]
    /\ events \in 0..MaxEvents /\ overlap \in BOOLEAN

\* What a new process starts with.
Empty ==
    /\ queue = <<>> /\ main = Idle /\ owned = 0 /\ live = {}
    /\ globalVPN = 0 /\ tunFile = 0
    /\ engine = [s \in Starts |-> [running |-> FALSE, conn |-> FALSE, stopped |-> FALSE, gens |-> 0]]
    /\ ping = [s \in Starts |-> "none"]
    /\ writer = [w \in Starts \X Starts |-> NoWriter]

Init ==
    /\ Empty /\ service = Fresh
    /\ thread = [s \in Starts |-> "none"]
    /\ file = [s \in Starts |-> "none"] /\ closes = [s \in Starts |-> 0]
    /\ events = 0 /\ overlap = FALSE

-----------------------------------------------------------------------------
(* Descriptors.  The TUN is blocking: os.File closes a descriptor only when *)
(* the Read that is under way on it has returned.                           *)
Reading(fd) == \E w \in DOMAIN writer : writer[w].pc = "read" /\ writer[w].fd = fd

\* A plausible slip: plat.tunFile is closed, but not forgotten.
WrongCloseTunFile ==
    /\ tunFile' = tunFile
    /\ IF tunFile = 0 \/ file[tunFile] # "open" THEN UNCHANGED <<file, closes>>
       ELSE IF Reading(tunFile)
            THEN file' = [file EXCEPT ![tunFile] = "closing"] /\ UNCHANGED closes
            ELSE /\ file' = [file EXCEPT ![tunFile] = "closed"]
                 /\ closes' = [closes EXCEPT ![tunFile] = @ + 1]

CloseTunFile ==
    /\ tunFile' = 0
    /\ IF tunFile = 0 \/ file[tunFile] # "open" THEN UNCHANGED <<file, closes>>
       ELSE IF Reading(tunFile)
            THEN file' = [file EXCEPT ![tunFile] = "closing"] /\ UNCHANGED closes
            ELSE /\ file' = [file EXCEPT ![tunFile] = "closed"]
                 /\ closes' = [closes EXCEPT ![tunFile] = @ + 1]

\* The finalizer of a file nobody refers to any more.
Finalize(fd) ==
    /\ file[fd] = "open" /\ tunFile # fd /\ ~Reading(fd)
    /\ file' = [file EXCEPT ![fd] = "closed"]
    /\ closes' = [closes EXCEPT ![fd] = @ + 1]
    /\ UNCHANGED <<app, thread, globalVPN, tunFile, loops, history>>

-----------------------------------------------------------------------------
(* The engine's Stop and Start.                                             *)
Locked(e) == thread[e] = "dial" \/ ping[e] = "dial"

Stop(e) ==
    /\ ~Locked(e)
    /\ IF engine[e].running
       THEN /\ engine' = [engine EXCEPT ![e].running = FALSE, ![e].conn = FALSE, ![e].stopped = TRUE]
            /\ CloseTunFile
       ELSE UNCHANGED <<engine, tunFile, file, closes>>

\* Start up to the dial: a new stop channel, and the test of plat.tunFile.
StartOpens(e) == engine' = [engine EXCEPT ![e].stopped = FALSE]

\* Start after the dial: the connection and the loops.
StartRuns(e) ==
    LET g == engine[e].gens + 1
    IN  /\ engine' = [engine EXCEPT ![e].running = TRUE, ![e].conn = TRUE, ![e].gens = g]
        /\ writer' = [writer EXCEPT ![<<e, g>>] = [pc |-> "top", fd |-> 0]]

-----------------------------------------------------------------------------
(* Core.stopVPN, called on the main thread, in two steps: the engine is     *)
(* stopped, then the global is cleared.                                     *)
Startup == \E s \in Starts : UnderWay(s)

StopVPN(next) ==
    /\ IF globalVPN = 0 THEN UNCHANGED <<engine, tunFile, file, closes>> ELSE Stop(globalVPN)
    /\ main' = [pc |-> IF globalVPN = 0 THEN "rest" ELSE "clear", next |-> next]
    /\ overlap' = (overlap \/ Startup)
    /\ UNCHANGED <<owned, live, thread, globalVPN, ping, writer>>

StopClears ==
    /\ main.pc = "clear"
    /\ globalVPN' = 0
    /\ main' = [main EXCEPT !.pc = "rest"]
    /\ UNCHANGED <<queue, service, owned, live, thread, tunFile, file, closes, loops, history>>

\* Core.getStats: whether it says "online".
Online == globalVPN # 0 /\ engine[globalVPN].running

-----------------------------------------------------------------------------
(* MainActivity: the buttons.                                               *)
Asked == main = Idle /\ events < MaxEvents /\ events' = events + 1

StartButton(c) ==
    /\ Asked
    /\ queue' = Append(queue, [kind |-> "start", cfg |-> c])
    /\ UNCHANGED <<main, service, owned, live, thread, core, loops, overlap>>

StopButton ==
    /\ Asked
    /\ StopVPN("intent")
    /\ UNCHANGED <<queue, service>>

-----------------------------------------------------------------------------
(* The service on the main thread.                                          *)
Handle(kind) == main = Idle /\ queue # <<>> /\ Head(queue).kind = kind /\ queue' = Tail(queue)

OnStop ==
    /\ Handle("STOP")
    /\ service' = [service EXCEPT !.up = FALSE]
    /\ StopVPN("stopped")
    /\ UNCHANGED events

\* The doStop a thread has posted when its startVPN failed: it is that of the
\* instance that started the thread, but stopVPN is everybody's.
OnPost ==
    /\ Handle("post")
    /\ service' = IF Head(queue).of \in live THEN [service EXCEPT !.up = FALSE] ELSE service
    /\ StopVPN(IF Head(queue).of \in live THEN "stopped" ELSE "")
    /\ UNCHANGED events

\* onStartCommand with a configuration, and the beginning of startVpnInternal.
OnStart ==
    /\ Handle("start")
    /\ LET c == Head(queue).cfg
       IN  IF service.up /\ service.cfg = c
           THEN /\ service' = [service EXCEPT !.doomed = FALSE]
                /\ UNCHANGED <<main, owned, live, thread, core, loops, overlap>>
           ELSE /\ service' = [up |-> FALSE, cfg |-> c, doomed |-> FALSE]
                /\ IF service.up THEN StopVPN("restart")
                   ELSE /\ main' = [pc |-> "establish", next |-> ""]
                        /\ UNCHANGED <<owned, live, thread, core, loops, overlap>>
    /\ UNCHANGED events

\* The system withdraws the permission: isRunning stays as it is.
OnRevoke ==
    /\ Asked
    /\ StopVPN("stopped")
    /\ UNCHANGED <<queue, service>>

\* A plausible slip: onDestroy relies on the stop that came before it.
WrongOnDestroy ==
    /\ main = Idle /\ service.doomed
    /\ main' = [pc |-> "rest", next |-> "destroyed"]
    /\ UNCHANGED <<queue, service, owned, live, thread, core, loops, history>>

\* Once the service has stopped itself, the system may destroy it.
OnDestroy ==
    /\ main = Idle /\ service.doomed
    /\ StopVPN("destroyed")
    /\ UNCHANGED <<queue, service, events>>

\* tunFd?.close()
CloseTunFd ==
    /\ closes' = IF owned # 0 THEN [closes EXCEPT ![owned] = @ + 1] ELSE closes
    /\ owned' = 0

\* What follows stopVPN: the STOP intent of the activity; the rest of doStop and
\* onRevoke, with stopSelf; that of onDestroy, after which a new intent finds a
\* new instance.
MainGoesOn ==
    /\ main.pc = "rest"
    /\ queue' = IF main.next = "intent" THEN Append(queue, [kind |-> "STOP"]) ELSE queue
    /\ IF main.next \in {"stopped", "restart", "destroyed"} THEN CloseTunFd ELSE UNCHANGED <<owned, closes>>
    /\ service' = CASE main.next \in {"stopped", "restart"} -> [service EXCEPT !.doomed = TRUE]
                    [] main.next = "destroyed" -> Fresh
                    [] OTHER -> service
    /\ live' = IF main.next = "destroyed" THEN {} ELSE live
    /\ main' = IF main.next = "restart" THEN [pc |-> "establish", next |-> ""] ELSE Idle
    /\ UNCHANGED <<thread, globalVPN, tunFile, file, loops, history>>

\* A plausible slip: tunFd keeps the descriptor it gives to the core.
WrongDetach(s) == s

\* detachFd: the Java object owns nothing any more.
Detach(s) == 0

FreeStarts == {s \in Starts : file[s] = "none"}

\* The rest of startVpnInternal: the TUN and the thread.
Establish ==
    /\ main.pc = "establish" /\ FreeStarts # {}
    /\ LET s == CHOOSE s \in FreeStarts : \A t \in FreeStarts : s <= t
       IN  /\ file' = [file EXCEPT ![s] = "fd"]
           /\ owned' = Detach(s)
           /\ thread' = [thread EXCEPT ![s] = "check"]
           /\ live' = live \cup {s}
    /\ service' = [service EXCEPT !.up = TRUE]
    /\ overlap' = (overlap \/ Startup \/ \E e \in Starts : ping[e] # "none")
    /\ main' = Idle
    /\ UNCHANGED <<queue, globalVPN, tunFile, closes, loops, events>>

\* establish returns null, and the service stops itself; or something throws, and
\* doStop does.
EstablishFails ==
    /\ main.pc = "establish"
    /\ \/ /\ service' = [service EXCEPT !.doomed = TRUE]
          /\ main' = Idle
          /\ UNCHANGED <<queue, owned, live, thread, core, loops, history>>
       \/ /\ StopVPN("stopped")
          /\ UNCHANGED <<queue, service, events>>

-----------------------------------------------------------------------------
(* The thread of start s: Core.startVPN, on the two globals without a lock. *)
Step(s, from, to) == thread[s] = from /\ thread' = [thread EXCEPT ![s] = to]

\* "already running", or a configuration that Go cannot read: the descriptor has
\* been detached, and stays open.
Refuse(s) ==
    /\ Step(s, "check", "failed")
    /\ UNCHANGED <<app, core, loops, history>>

PassCheck(s) ==
    /\ Step(s, "check", "file")
    /\ globalVPN # 0 => ~engine[globalVPN].running
    /\ UNCHANGED <<app, core, loops, history>>

SetTunFile(s) ==
    /\ Step(s, "file", "open")
    /\ tunFile' = s
    /\ file' = [file EXCEPT ![s] = "open"]
    /\ UNCHANGED <<app, globalVPN, closes, loops, history>>

ThreadOpens(s) ==
    /\ Step(s, "open", IF tunFile = 0 THEN "failed" ELSE "dial")
    /\ StartOpens(s)
    /\ UNCHANGED <<app, core, ping, writer, history>>

\* The dial fails: the tunnel stays in plat.tunFile, open.
ThreadFails(s) ==
    /\ Step(s, "dial", "failed")
    /\ UNCHANGED <<app, core, loops, history>>

ThreadRuns(s) ==
    /\ Step(s, "dial", "publish")
    /\ StartRuns(s)
    /\ ping' = [ping EXCEPT ![s] = "wait"]
    /\ UNCHANGED <<app, core, history>>

\* A plausible slip: globalVPN := vpn, which is a local variable.
WrongPublish(s) ==
    /\ Step(s, "publish", "done")
    /\ UNCHANGED <<app, core, loops, history>>

Publish(s) ==
    /\ Step(s, "publish", "done")
    /\ globalVPN' = s
    /\ UNCHANGED <<app, tunFile, file, closes, loops, history>>

\* A result other than "ok" posts doStop to the main thread.
PostStop(s) ==
    /\ Step(s, "failed", "done")
    /\ queue' = Append(queue, [kind |-> "post", of |-> s])
    /\ UNCHANGED <<main, service, owned, live, core, loops, history>>

-----------------------------------------------------------------------------
(* persistentPingLoop: select takes the ticker or the closed channel, if    *)
(* both are ready either; then the link may be found dead.                  *)
PingStep(e, from, to) == ping[e] = from /\ ping' = [ping EXCEPT ![e] = to]

PingTick(e) ==
    /\ \/ PingStep(e, "wait", "judge")
       \/ engine[e].stopped /\ PingStep(e, "wait", "none")
       \/ PingStep(e, "judge", "wait")
       \/ PingStep(e, "judge", "stop")
    /\ UNCHANGED <<app, thread, core, engine, writer, history>>

\* Reconnect: Stop, which closes the tunnel, and Start, which needs one.
PingStops(e) ==
    /\ PingStep(e, "stop", "open")
    /\ Stop(e)
    /\ UNCHANGED <<app, thread, globalVPN, writer, history>>

PingOpens(e) ==
    /\ IF engine[e].running THEN PingStep(e, "open", "none") /\ UNCHANGED engine
       ELSE PingStep(e, "open", IF tunFile = 0 THEN "none" ELSE "dial") /\ StartOpens(e)
    /\ UNCHANGED <<app, thread, core, writer, history>>

PingFails(e) ==
    /\ PingStep(e, "dial", "none")
    /\ UNCHANGED <<app, thread, core, engine, writer, history>>

PingRuns(e) ==
    /\ PingStep(e, "dial", "wait")
    /\ StartRuns(e)
    /\ UNCHANGED <<app, thread, core, history>>

-----------------------------------------------------------------------------
(* writerLoop.                                                              *)
Moved(w, label, fd) == writer' = [writer EXCEPT ![w] = [pc |-> label, fd |-> fd]]

WriterLooks(w) ==
    /\ writer[w].pc = "top"
    /\ \/ engine[w[1]].stopped /\ Moved(w, "none", 0)
       \/ ~engine[w[1]].stopped /\ tunFile # 0 /\ Moved(w, "read", tunFile)
    /\ UNCHANGED <<app, thread, core, engine, ping, history>>

\* Read returns, with a packet or an error, and lets go of a file that was closed.
WriterReads(w) ==
    /\ writer[w].pc = "read"
    /\ \E label \in {"top", "send"} : Moved(w, label, 0)
    /\ LET fd == writer[w].fd
       IN  IF file[fd] = "closing" /\ \A v \in DOMAIN writer \ {w} : writer[v].fd # fd
           THEN file' = [file EXCEPT ![fd] = "closed"] /\ closes' = [closes EXCEPT ![fd] = @ + 1]
           ELSE UNCHANGED <<file, closes>>
    /\ UNCHANGED <<app, thread, globalVPN, tunFile, engine, ping, history>>

WriterSends(w) ==
    /\ writer[w].pc = "send" /\ engine[w[1]].conn
    /\ Moved(w, "top", 0)
    /\ UNCHANGED <<app, thread, core, engine, ping, history>>

\* The process ends and all descriptors with it: because a writerLoop, or in the
\* same way a readerLoop, uses a connection that Stop has set to nil, or because
\* the system needs the memory.  It recreates the service without an intent, and
\* onStartCommand stops that.
Dies ==
    /\ \E s \in Starts : thread[s] # "none"
    /\ queue' = <<>> /\ main' = Idle /\ owned' = 0 /\ live' = {}
    /\ globalVPN' = 0 /\ tunFile' = 0
    /\ engine' = [s \in Starts |-> [running |-> FALSE, conn |-> FALSE, stopped |-> FALSE, gens |-> 0]]
    /\ ping' = [s \in Starts |-> "none"]
    /\ writer' = [w \in Starts \X Starts |-> NoWriter]
    /\ service' = [Fresh EXCEPT !.doomed = TRUE]
    /\ thread' = [s \in Starts |-> IF thread[s] = "none" THEN "none" ELSE "done"]
    /\ file' = [s \in Starts |-> IF file[s] = "none" THEN "none" ELSE "closed"]
    /\ UNCHANGED <<closes, history>>

-----------------------------------------------------------------------------
MainStep == StopClears \/ MainGoesOn \/ Establish \/ EstablishFails
            \/ OnStop \/ OnPost \/ OnStart \/ OnDestroy
ThreadStep(s) == Refuse(s) \/ PassCheck(s) \/ SetTunFile(s) \/ ThreadOpens(s)
                 \/ ThreadFails(s) \/ ThreadRuns(s) \/ Publish(s) \/ PostStop(s)
PingLoop(e) == PingTick(e) \/ PingStops(e) \/ PingOpens(e) \/ PingFails(e) \/ PingRuns(e)
WriterLoop(w) == WriterLooks(w) \/ WriterReads(w) \/ WriterSends(w)

Next ==
    \/ StopButton \/ OnRevoke \/ \E c \in Configs : StartButton(c)
    \/ MainStep
    \/ \E s \in Starts : ThreadStep(s) \/ PingLoop(s) \/ Finalize(s)
    \/ \E w \in Starts \X Starts : WriterLoop(w)
    \/ Dies

Spec == Init /\ [][Next]_vars

-----------------------------------------------------------------------------
(* The descriptor of a TUN has one owner after the other: Kotlin, Go's      *)
(* os.File and its finalizer never close it twice, which would close        *)
(* somebody else's file.                                                    *)
FdClosedOnce == \A s \in Starts : closes[s] <= 1

(* When the service says that it does not run, no engine does: whatever the *)
(* order of the buttons, the system's calls and the engine's Reconnect.     *)
(* (Unless a stop came while a startVPN was under way, which then publishes *)
(* an engine nobody asked for, or two starts overlapped, or the ping loop   *)
(* of an engine was still about when the next start took place: Core keeps  *)
(* one global, without a lock.)                                             *)
ServiceHonest ==
    main = Idle /\ ~service.up /\ ~overlap => \A e \in Starts : ~engine[e].running

(* The screen asks GetStats, which knows globalVPN only: it shows "online"   *)
(* exactly while an engine runs, also one that has replaced an engine that  *)
(* nobody stopped, and one that came back by Reconnect; but for the moment  *)
(* before startVPN publishes.  (With the exceptions of ServiceHonest.)      *)
StatsHonest ==
    main = Idle /\ ~overlap =>
        \/ Online <=> \E e \in Starts : engine[e].running
        \/ \E s \in Starts : thread[s] = "publish"

(* 00_MASTER_PLAN.md:60, 85: the client reconnects by itself, after 1, 2, 4 *)
(* .. 60 s.  As long as nobody stops the service, an engine that startVPN   *)
(* has published runs, or its ping loop is at work to have it run.          *)
RecoversUntilStopped ==
    \A e \in Starts :
        globalVPN = e /\ service.up /\ main = Idle /\ ~overlap =>
            engine[e].running \/ ping[e] \in {"open", "dial"}
=============================================================================
