---------------------------- MODULE VpnLifecycle ----------------------------
(***************************************************************************)
(* The client engine (core/vpn.go, with the loops of core/vpn_windows.go): *)
(* one VPN object, its Start, Stop, Destroy and Reconnect, and the loops   *)
(* Start spawns.  DoConnect of the GUI starts the object and publishes it; *)
(* any number of threads may then stop it (DoDisconnect, the shutdown of   *)
(* the window), while the ping loop, finding the link dead, runs           *)
(* Reconnect, a Stop and a Start of its own.                               *)
(*                                                                         *)
(* A generation is one call of Start that made a stop channel: the channel,*)
(* the connection it dials, the Wintun session it opens and the loops it   *)
(* spawns carry its number.  A loop is not bound to its generation: it     *)
(* reads v.stopCh, v.conn and the session anew in every iteration.         *)
(*                                                                         *)
(* Routing has what the engine does to the routes of the system.           *)
(***************************************************************************)
EXTENDS Integers, FiniteSets, Routing

CONSTANTS
    Opener,         \* the thread of DoConnect, which calls Start once
    Stoppers,       \* threads that run DoDisconnect
    Closer,         \* the thread of the window's shutdown, which runs Destroy
    Nobody,         \* v.mu is free
    Loops,          \* the loops Start spawns beside the ping loop
    MaxGen,         \* bound: calls of Start that get past "already running"
    MaxMoves        \* bound: changes of the system's gateway

Gens == 1..MaxGen
Users == Stoppers \cup {Closer}
\* The ping loop of generation g is the thread g; it too calls Stop and Start.
Callers == {Opener} \cup Users \cup Gens

ASSUME CallersAssumption ==
    /\ MaxGen \in Nat \ {0} /\ MaxMoves \in Nat
    /\ Nobody \notin Callers /\ Opener \notin Users /\ Closer \notin Stoppers
    /\ Gens \cap ({Opener} \cup Users) = {}
ASSUME LoopsAssumption == Loops \subseteq {"writer", "reader", "route"}

VARIABLES
    mu,             \* v.mu
    running, stopping, reconnecting,        \* the atomic flags of VPN
    stopCh,         \* v.stopCh, 0 before the first Start
    closed,         \* the stop channels that have been closed
    conn,           \* v.conn, 0 for nil
    session,        \* the open Wintun session, 0 for nil
    dead,           \* lastPacketRx is more than reconnectTimeout old
    status,         \* last status of the connection given to the listener
    pc,             \* per caller, where it is
    held,           \* per ping loop, the stop channel of its select; 0: first ping
    writer,         \* per generation, where its writer loop is
    loop,           \* per other loop and generation, what it waits on
    crashed,        \* a nil conn was used: the process is gone
    refresh,        \* per route loop, where refreshServerRoute is, and its newGw
    crossed,        \* history: a refresh had company, of a Start or another refresh
    moves           \* changes of the gateway so far

flags == <<running, stopping, reconnecting>>
tunnel == <<conn, session>>
loops == <<held, writer, loop>>
routes == <<routing, refresh, crossed, moves>>
vars == <<mu, flags, stopCh, closed, tunnel, dead, status, pc, loops, crashed, routes>>

Selecting == Loops \ {"writer"}     \* the loops that wait in a select

Unborn == -2    \* a loop that was not spawned
Ended  == -1    \* a loop that has returned
AtTop  == 0     \* a loop that waits on nothing; otherwise the generation of the
                \* connection (reader) or of the stop channel (route)
InStop  == {"stopLock", "closeTunnel", "closeConn", "stopped"}
InStart == {"start", "dial", "open", "spawn"}
InReconnect == {"reconnect", "stop", "restart"}
StopperLabels == InStop \cup {"idle", "return", "done"}
CallerLabels == StopperLabels \cup InStart \cup InReconnect
                    \cup {"top", "judge", "select", "failed"}

TypeOK ==
    /\ mu \in Callers \cup {Nobody}
    /\ running \in BOOLEAN /\ stopping \in BOOLEAN /\ reconnecting \in BOOLEAN
    /\ stopCh \in 0..MaxGen /\ closed \subseteq Gens
    /\ conn \in 0..MaxGen /\ session \in 0..MaxGen
    /\ dead \in BOOLEAN
    /\ status \in {"disconnected", "connecting", "connected", "reconnecting"}
    /\ pc \in [Callers -> CallerLabels] /\ \A t \in Users : pc[t] \in StopperLabels
    /\ held \in [Gens -> 0..MaxGen]
    /\ writer \in [Gens -> {"unborn", "top", "encrypt", "write", "ended"}]
    /\ loop \in [Selecting -> [Gens -> -2..MaxGen]]
    /\ crashed \in BOOLEAN
    /\ RoutingTypeOK
    /\ refresh \in [Gens -> [at : {"no", "route", "field"}, gw : Hops]]
    /\ crossed \in BOOLEAN /\ moves \in 0..MaxMoves

NoRefresh == [at |-> "no", gw |-> NoGateway]
Refreshing(g) == refresh[g].at # "no"

Init ==
    /\ mu = Nobody
    /\ running = FALSE /\ stopping = FALSE /\ reconnecting = FALSE
    /\ stopCh = 0 /\ closed = {} /\ conn = 0 /\ session = 0
    /\ dead = FALSE /\ status = "disconnected"
    /\ pc = [t \in Callers |-> IF t = Opener THEN "start" ELSE "idle"]
    /\ held = [g \in Gens |-> 0]
    /\ writer = [g \in Gens |-> "unborn"]
    /\ loop = [l \in Selecting |-> [g \in Gens |-> Unborn]]
    /\ crashed = FALSE
    /\ RoutingInit
    /\ refresh = [g \in Gens |-> NoRefresh] /\ crossed = FALSE /\ moves = 0

Goto(t, label) == pc' = [pc EXCEPT ![t] = label]
\* What a caller does next, having left a critical section of v.mu.
Return(t, label) == mu' = Nobody /\ Goto(t, label)

-----------------------------------------------------------------------------
(* Start.  A caller that finds the object running returns with an error.    *)
StartEnter(t) ==
    /\ pc[t] = "start" /\ mu = Nobody
    /\ IF running
       THEN /\ Goto(t, "failed")
            /\ UNCHANGED <<mu, stopCh, dead, status>>
       ELSE /\ stopCh < MaxGen
            /\ mu' = t
            /\ stopCh' = stopCh + 1
            /\ dead' = FALSE
            /\ status' = "connecting"
            /\ Goto(t, "dial")
    /\ UNCHANGED <<flags, closed, tunnel, loops, crashed, routes>>

\* transport.Dial; v.conn is set before the rest of the tunnel is built.
StartDial(t) ==
    /\ pc[t] = "dial"
    /\ \/ conn' = stopCh /\ Goto(t, "open") /\ UNCHANGED mu
       \/ Return(t, "failed") /\ UNCHANGED conn
    /\ UNCHANGED <<flags, stopCh, closed, session, dead, status, loops, crashed, routes>>

\* What a failed openTunnel leaves: an error before the routes are set, or
\* after that, when the session does not start.
OpenFails == NoGatewayFound \/ NoAdapter \/ SetRoutes(FALSE)

\* A plausible slip: the mutex is unlocked on success only.
WrongStartOpen(t) ==
    /\ pc[t] = "open"
    /\ \/ SetRoutes(TRUE) /\ session' = stopCh /\ Goto(t, "spawn")
       \/ OpenFails /\ Goto(t, "failed") /\ UNCHANGED session
    /\ crossed' = (crossed \/ \E g \in Gens : Refreshing(g))
    /\ UNCHANGED <<mu, flags, stopCh, closed, conn, dead, status, loops, crashed, refresh, moves>>

\* Gateway, adapter, routes, session; a failure leaves the new v.conn open.
StartOpen(t) ==
    /\ pc[t] = "open"
    /\ \/ SetRoutes(TRUE) /\ session' = stopCh /\ Goto(t, "spawn") /\ UNCHANGED mu
       \/ OpenFails /\ Return(t, "failed") /\ UNCHANGED session
    /\ crossed' = (crossed \/ \E g \in Gens : Refreshing(g))
    /\ UNCHANGED <<flags, stopCh, closed, conn, dead, status, loops, crashed, refresh, moves>>

\* The goroutines of the new generation; the callback comes before them.
Spawn ==
    /\ writer' = [writer EXCEPT ![stopCh] = IF "writer" \in Loops THEN "top" ELSE @]
    /\ loop' = [l \in Selecting |-> [loop[l] EXCEPT ![stopCh] = AtTop]]

\* A plausible slip: the ping loop that ran Reconnect goes round again.
WrongStartSpawn(t) ==
    /\ pc[t] = "spawn"
    /\ running' = TRUE
    /\ status' = "connected"
    /\ mu' = Nobody
    /\ pc' = [pc EXCEPT ![t] = IF t \in Gens THEN "top" ELSE "done", ![stopCh] = "top"]
    /\ Spawn
    /\ UNCHANGED <<stopping, reconnecting, stopCh, closed, tunnel, dead, held, crashed, routes>>

StartSpawn(t) ==
    /\ pc[t] = "spawn"
    /\ running' = TRUE
    /\ status' = "connected"
    /\ mu' = Nobody
    /\ pc' = [pc EXCEPT ![t] = "done", ![stopCh] = "top"]
    /\ Spawn
    /\ UNCHANGED <<stopping, reconnecting, stopCh, closed, tunnel, dead, held, crashed, routes>>

-----------------------------------------------------------------------------
(* Stop.  DoDisconnect calls it having seen IsRunning, shutdown through     *)
(* Destroy whatever the state: both while a.vpn is the object, that is from *)
(* the return of DoConnect to the end of a DoDisconnect.                    *)
Published == pc[Opener] = "done" /\ \A t \in Stoppers : pc[t] # "done"

CallStop(t, label) ==
    /\ pc[t] = label
    /\ stopping' = TRUE
    /\ Goto(t, "stopLock")
    /\ UNCHANGED <<mu, running, reconnecting, stopCh, closed, tunnel, dead, status,
                   loops, crashed, routes>>

DoDisconnect(t) == t \in Stoppers /\ Published /\ running /\ CallStop(t, "idle")
Destroy(t) == t = Closer /\ Published /\ CallStop(t, "idle")

\* A plausible slip: the return of Stop is taken for the one inside Reconnect.
WrongAfterStop(t) == "restart"
AfterStop(t) == IF t \in Gens THEN "restart" ELSE "return"

\* A plausible slip: an early return that leaves stopping set.
WrongEarlyReturn(t) ==
    /\ pc[t] = "stopLock" /\ mu = Nobody
    /\ IF running
       THEN /\ mu' = t
            /\ running' = FALSE
            /\ closed' = closed \cup {stopCh}
            /\ Goto(t, "closeTunnel")
       ELSE /\ Goto(t, AfterStop(t))
            /\ UNCHANGED <<mu, running, closed>>
    /\ UNCHANGED <<stopping, reconnecting, stopCh, tunnel, dead, status, loops, crashed, routes>>

\* A plausible slip: running is left set until the tunnel is down.
WrongStopLock(t) ==
    /\ pc[t] = "stopLock" /\ mu = Nobody /\ running
    /\ mu' = t
    /\ closed' = closed \cup {stopCh}
    /\ Goto(t, "closeTunnel")
    /\ UNCHANGED <<flags, stopCh, tunnel, dead, status, loops, crashed, routes>>

StopLock(t) ==
    /\ pc[t] = "stopLock" /\ mu = Nobody
    /\ IF running
       THEN /\ mu' = t
            /\ running' = FALSE
            /\ closed' = closed \cup {stopCh}
            /\ Goto(t, "closeTunnel")
            /\ UNCHANGED stopping
       ELSE /\ stopping' = FALSE
            /\ Goto(t, AfterStop(t))
            /\ UNCHANGED <<mu, running, closed>>
    /\ UNCHANGED <<reconnecting, stopCh, tunnel, dead, status, loops, crashed, routes>>

StopTunnel(t) ==
    /\ pc[t] = "closeTunnel"
    /\ CloseRoutes
    /\ session' = 0
    /\ Goto(t, "closeConn")
    /\ UNCHANGED <<mu, flags, stopCh, closed, conn, dead, status, loops, crashed,
                   refresh, crossed, moves>>

StopConn(t) ==
    /\ pc[t] = "closeConn"
    /\ Deactivate
    /\ conn' = 0
    /\ Goto(t, "stopped")
    /\ UNCHANGED <<mu, flags, stopCh, closed, session, dead, status, loops, crashed,
                   refresh, crossed, moves>>

StopDone(t) ==
    /\ pc[t] = "stopped"
    /\ status' = IF reconnecting THEN status ELSE "disconnected"
    /\ stopping' = FALSE
    /\ Return(t, AfterStop(t))
    /\ UNCHANGED <<running, reconnecting, stopCh, closed, tunnel, dead, loops, crashed, routes>>

\* DoDisconnect forgets the object and emits "disconnected", whatever Stop found;
\* Destroy takes v.mu again and ends the session.
StopReturn(t) ==
    /\ pc[t] = "return"
    /\ IF t = Closer
       THEN mu = Nobody /\ session' = 0 /\ DestroyRoutes /\ UNCHANGED status
       ELSE status' = "disconnected" /\ UNCHANGED <<session, routing>>
    /\ Goto(t, "done")
    /\ UNCHANGED <<mu, flags, stopCh, closed, conn, dead, loops, crashed,
                   refresh, crossed, moves>>

-----------------------------------------------------------------------------
(* persistentPingLoop and the Reconnect it ends with.                       *)
PingTop(g) ==
    /\ pc[g] = "top"
    /\ Goto(g, IF stopping THEN "done" ELSE "judge")
    /\ UNCHANGED <<mu, flags, stopCh, closed, tunnel, dead, status, loops, crashed, routes>>

\* After the ping is sent: the link is dead, or the loop waits for its ticker
\* (the first iteration goes round without waiting).
PingJudge(g) ==
    /\ pc[g] = "judge"
    /\ held' = [held EXCEPT ![g] = stopCh]
    /\ IF dead
       THEN status' = "reconnecting" /\ Activate /\ Goto(g, "reconnect")
       ELSE Goto(g, IF held[g] = 0 THEN "top" ELSE "select") /\ UNCHANGED <<status, routing>>
    /\ UNCHANGED <<mu, flags, stopCh, closed, tunnel, dead, writer, loop, crashed,
                   refresh, crossed, moves>>

PingSelect(g) ==
    /\ pc[g] = "select"
    /\ \/ held[g] \in closed /\ Goto(g, "done")
       \/ Goto(g, "top")
    /\ UNCHANGED <<mu, flags, stopCh, closed, tunnel, dead, status, loops, crashed, routes>>

ReconnectStop(g) ==
    /\ pc[g] = "reconnect"
    /\ reconnecting' = TRUE
    /\ Goto(g, "stop")
    /\ UNCHANGED <<mu, running, stopping, stopCh, closed, tunnel, dead, status,
                   loops, crashed, routes>>

\* A plausible slip: reconnecting stays set.
WrongReconnectStart(g) ==
    /\ pc[g] = "restart"
    /\ Goto(g, "start")
    /\ UNCHANGED <<mu, flags, stopCh, closed, tunnel, dead, status, loops, crashed, routes>>

ReconnectStart(g) ==
    /\ pc[g] = "restart"
    /\ reconnecting' = FALSE
    /\ Goto(g, "start")
    /\ UNCHANGED <<mu, running, stopping, stopCh, closed, tunnel, dead, status,
                   loops, crashed, routes>>

-----------------------------------------------------------------------------
(* writerLoop: a packet of the session is encrypted with encCP; v.conn is   *)
(* tested, then read again for the write.                                   *)
still == <<mu, flags, stopCh, closed, tunnel, status, pc, held>>

WriterTop(g) ==
    /\ writer[g] = "top"
    /\ \/ stopCh \in closed /\ writer' = [writer EXCEPT ![g] = "ended"]
       \/ /\ stopCh \notin closed /\ session # 0
          /\ writer' = [writer EXCEPT ![g] = "encrypt"]
    /\ UNCHANGED <<still, dead, loop, crashed, routes>>

WriterEncrypt(g) ==
    /\ writer[g] = "encrypt"
    /\ writer' = [writer EXCEPT ![g] = IF conn = 0 THEN "top" ELSE "write"]
    /\ UNCHANGED <<still, dead, loop, crashed, routes>>

WriterWrite(g) ==
    /\ writer[g] = "write"
    /\ crashed' = (conn = 0)
    /\ writer' = [writer EXCEPT ![g] = "top"]
    /\ UNCHANGED <<still, dead, loop, routes>>

-----------------------------------------------------------------------------
LoopGoto(l, g, where) == loop' = [loop EXCEPT ![l][g] = where]

\* readerLoop.  While v.conn is nil it only sleeps, with no test of stopCh.
ReaderTop(g) ==
    /\ loop["reader"][g] = AtTop /\ conn # 0
    /\ LoopGoto("reader", g, conn)
    /\ UNCHANGED <<still, dead, writer, crashed, routes>>

\* What ends its select: the stop channel, an error (Stop closed the
\* connection), a packet, or the time limit of 10 s.
ReaderSelect(g) ==
    LET mine == loop["reader"][g]
        End == LoopGoto("reader", g, Ended)
        Again == LoopGoto("reader", g, AtTop)
    IN  /\ mine \in Gens
        /\ \/ mine \in closed /\ End /\ UNCHANGED dead
           \/ mine # conn /\ stopping /\ End /\ UNCHANGED dead
           \/ mine = conn /\ dead' = FALSE /\ Again
           \/ mine = conn /\ dead' = FALSE /\ (stopping \/ session = 0) /\ End
           \/ Again /\ UNCHANGED dead
        /\ UNCHANGED <<still, writer, crashed, routes>>

\* routeMonitorLoop: at once and after each interval, unless the engine stops,
\* the route to the server is brought to the gateway of the moment.
RouteEnds(g) ==
    /\ \/ loop["route"][g] \in closed
       \/ loop["route"][g] >= AtTop /\ (stopping \/ ~running)
    /\ ~Refreshing(g)
    /\ LoopGoto("route", g, Ended)
    /\ UNCHANGED <<still, dead, writer, crashed, routes>>

\* A plausible slip: with a gateway in the field there is nothing to look for.
WrongRouteTickTo(g, gw) ==
    /\ loop["route"][g] >= AtTop /\ ~Refreshing(g) /\ ~stopping /\ running
    /\ IF realGateway # NoGateway \/ gw = NoGateway
       THEN LoopGoto("route", g, stopCh) /\ UNCHANGED <<routing, refresh>>
       ELSE /\ refresh' = [refresh EXCEPT ![g] = [at |-> "route", gw |-> gw]]
            /\ LoopGoto("route", g, AtTop)
            /\ UNCHANGED routing
    /\ UNCHANGED <<still, dead, writer, crashed, crossed, moves>>

\* A tick at which getDefaultGateway returns gw.
RouteTickTo(g, gw) ==
    /\ loop["route"][g] >= AtTop /\ ~Refreshing(g) /\ ~stopping /\ running
    /\ IF gw \in {NoGateway, realGateway}
       THEN /\ LoopGoto("route", g, stopCh)
            /\ IF realGateway = NoGateway THEN DropServerRoute ELSE UNCHANGED routing
            /\ UNCHANGED <<refresh, crossed>>
       ELSE /\ refresh' = [refresh EXCEPT ![g] = [at |-> "route", gw |-> gw]]
            /\ crossed' = (crossed \/ \E h \in Gens \ {g} : Refreshing(h))
            /\ LoopGoto("route", g, AtTop)
            /\ UNCHANGED routing
    /\ UNCHANGED <<still, dead, writer, crashed, moves>>

RouteTick(g) == \E gw \in Detected : RouteTickTo(g, gw)

RouteAdd(g) ==
    /\ refresh[g].at = "route"
    /\ ServerRoute(refresh[g].gw)
    /\ refresh' = [refresh EXCEPT ![g].at = "field"]
    /\ UNCHANGED <<still, dead, writer, loop, crashed, crossed, moves>>

RouteDone(g) ==
    /\ refresh[g].at = "field"
    /\ RememberGateway(refresh[g].gw)
    /\ refresh' = [refresh EXCEPT ![g] = NoRefresh]
    /\ LoopGoto("route", g, stopCh)
    /\ UNCHANGED <<still, dead, writer, crashed, crossed, moves>>

GatewayMoves ==
    /\ moves < MaxMoves
    /\ moves' = moves + 1
    /\ Move
    /\ UNCHANGED <<still, dead, loops, crashed, refresh, crossed>>

\* No packet for reconnectTimeout.
LinkDies ==
    /\ stopCh # 0 /\ ~dead
    /\ dead' = TRUE
    /\ UNCHANGED <<still, loops, crashed, routes>>

-----------------------------------------------------------------------------
Locking(t) == StartEnter(t) \/ StopLock(t)
CallerStep(t) == \/ StartDial(t) \/ StartOpen(t) \/ StartSpawn(t)
                 \/ StopTunnel(t) \/ StopConn(t) \/ StopDone(t) \/ StopReturn(t)
PingStep(g) == \/ PingTop(g) \/ PingJudge(g) \/ PingSelect(g) \/ ReconnectStop(g)
               \/ CallStop(g, "stop") \/ ReconnectStart(g)
WriterStep(g) == WriterTop(g) \/ WriterEncrypt(g) \/ WriterWrite(g)
ReaderStep(g) == "reader" \in Selecting /\ (ReaderTop(g) \/ ReaderSelect(g))
RouteStep(g) == "route" \in Selecting
                /\ (RouteEnds(g) \/ RouteTick(g) \/ RouteAdd(g) \/ RouteDone(g))

Next ==
    /\ ~crashed
    /\ \/ \E t \in Callers : Locking(t) \/ CallerStep(t)
       \/ \E t \in Users : DoDisconnect(t) \/ Destroy(t)
       \/ \E g \in Gens : PingStep(g) \/ WriterStep(g) \/ ReaderStep(g) \/ RouteStep(g)
       \/ LinkDies \/ GatewayMoves

Spec == Init /\ [][Next]_vars

\* The threads run and a mutex is in the end given to each that waits for it;
\* nothing is assumed of the user, of the network or of the packets.  PowerShell
\* does not fail for ever: a gateway that no other default route hides from
\* getDefaultGateway is found at some tick.
FairSpec ==
    /\ Spec
    /\ \A t \in Callers : WF_vars(~crashed /\ CallerStep(t)) /\ SF_vars(~crashed /\ Locking(t))
    /\ \A g \in Gens : WF_vars(~crashed /\ PingStep(g))
    /\ \A g \in Gens : WF_vars(~crashed /\ RouteStep(g))
    /\ \A g \in Gens : SF_vars(~crashed /\ "route" \in Selecting /\ net \in Detected
                                /\ restored \subseteq {net} /\ RouteTickTo(g, net))
-----------------------------------------------------------------------------
(* What the engine promises.                                                *)
In(labels) == \E t \in Callers : pc[t] \in labels
Quiet == ~In(InStart \cup InStop \cup InReconnect \cup {"return"})
NoFailure == ~In({"failed"})

\* The flag, the channel and the tunnel agree: while IsRunning says TRUE the
\* current stop channel is open (a second close would panic) and the connection
\* and the session are those of the last Start (shutdown alone may have ended
\* the session); once every call has returned and none failed, a stopped
\* object holds nothing.
RunningIsWhole ==
    /\ running => /\ stopCh \notin closed /\ conn = stopCh
                  /\ session = stopCh \/ (session = 0 /\ pc[Closer] = "done")
    /\ Quiet /\ NoFailure /\ ~running => conn = 0 /\ session = 0

\* A running object has every goroutine of its generation, unless a Stop is
\* waiting for the mutex to take it down or the window has been shut: the
\* stopping flag one Stop sets for the generation it ends never makes the loops
\* of the next one return.
Manned ==
    running =>
        \/ In({"stopLock"}) \/ pc[Closer] = "done"
        \/ /\ pc[stopCh] \notin {"idle", "done", "failed"}
           /\ "writer" \in Loops => writer[stopCh] \notin {"unborn", "ended"}
           /\ \A l \in Selecting : loop[l][stopCh] >= AtTop

\* Never two ping loops, each ready to restart the engine.
OnePinger ==
    \A g, h \in Gens : pc[g] \notin {"idle", "done", "failed"}
                       /\ pc[h] \notin {"idle", "done", "failed"} => g = h

\* The status the user sees is that of the engine whenever no call is under
\* way, although Reconnect keeps "disconnected" from the listener; only after a
\* DoDisconnect may the engine run under another status.
StatusHonest ==
    Quiet /\ NoFailure /\ pc[Opener] = "done" =>
        \/ status = IF running THEN "connected" ELSE "disconnected"
        \/ running /\ \E t \in Stoppers : pc[t] = "done"

\* 00_MASTER_PLAN.md:61: the user interface shows connected, disconnected and
\* reconnecting: "disconnected" is not shown of an engine that runs.
StatusShown == Quiet /\ running => status # "disconnected"

\* Stop returns, to the user and to Reconnect.
StopReturns ==
    \A t \in Callers : pc[t] \in InStop ~> (pc[t] \notin InStop \/ crashed)

\* A link that stays dead is given up: the engine is stopped or restarted.
DeadLinkHandled == (running /\ dead) ~> (~running \/ ~dead \/ crashed)

\* A stopped engine has given the traffic back to the system: no default route
\* leads into the closed tunnel, and one through a gateway was restored, whichever
\* call stopped it, whatever gateways came and went, whatever Starts failed and
\* whether the adapter's index was known: unless the very command for it failed,
\* or the session did not start after the route into the tunnel was set.
RoutesGivenBack ==
    Quiet /\ ~running =>
        /\ tunDefault => "tunnel" \in undone
        /\ pc[Opener] = "done" => restored # {} \/ "default" \in undone

\* What the monitor compares is what it set: when no refresh is under way and the
\* last commands for the route to the server did not fail, there is one, through
\* the gateway of the field.  (Two refreshs at once, or one and a Start, may set
\* the route in the one order and the field in the other: the monitor then sees
\* no difference any more.  Nor does it see a command that failed.)
FieldIsRoute ==
    running /\ ~crossed /\ (\A g \in Gens : ~Refreshing(g)) /\ "server" \notin undone =>
        server = {realGateway}

\* While the engine goes on and the system keeps one gateway that can be detected,
\* not hidden by another default route the code has added, the route to the server
\* comes to lead through it, wherever the machine was when the engine started;
\* unless refreshs met or the commands for it failed, as above.
ServerRouteFollows ==
    \A gw \in Gateways \ TenNet :
        <>[](/\ running /\ ~crashed /\ ~crossed /\ "server" \notin undone
             /\ net = gw /\ restored \subseteq {gw}) => <>[](server = {gw})

\* vpn.go:34: encCP is a copy of its own for each goroutine, so that no two
\* goroutines encrypt with it at once.
CipherPerGoroutine ==
    Cardinality({g \in Gens : writer[g] = "encrypt"}) <= 1
=============================================================================
