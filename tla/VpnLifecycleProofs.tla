------------------------- MODULE VpnLifecycleProofs -------------------------
(***************************************************************************)
(* Proofs about VpnLifecycle for any callers, any number of generations    *)
(* and any gateways: a running engine is whole and has its loops, one ping *)
(* loop, honest status, and the routes given back.                         *)
(***************************************************************************)
EXTENDS VpnLifecycle, TLAPS

USE CallersAssumption, LoopsAssumption, GatewaysAssumption

(***************************************************************************)
(* The inductive invariant, part by part.  First, who is where.            *)
(***************************************************************************)
\* Inside v.mu.
Locked == {"dial", "open", "spawn", "closeTunnel", "closeConn", "stopped"}
Alive(g) == pc[g] \notin {"idle", "done", "failed"}

\* Only DoConnect and ping loops start the engine; before DoConnect is through
\* there is nobody else.
Roles ==
    /\ pc[Opener] \in InStart \cup {"done", "failed"}
    /\ \A g \in Gens : pc[g] # "return"
    /\ pc[Opener] # "done" => \A t \in Users \cup Gens : pc[t] = "idle"

Mutex == \A t \in Callers : pc[t] \in Locked => mu = t

\* Nobody is past his Stop, or before the end of a Start, while the engine runs:
\* Start is never refused as already running.
NotYet == \A t \in Callers : pc[t] \in Locked \cup {"restart", "start"} => ~running

\* After a failed Start nobody is left who could start the engine.
AfterFailure == In({"failed"}) => ~running /\ pc[Opener] \in {"done", "failed"}
                                  /\ \A g \in Gens : ~Alive(g)

(***************************************************************************)
(* The stop channels, the connection and the session.                      *)
(***************************************************************************)
Channels ==
    /\ \A g \in closed : g <= stopCh
    /\ \A g \in Gens : g > stopCh => pc[g] = "idle"
    /\ \A g \in Gens : pc[g] = "idle" => held[g] = 0
    /\ \A t \in Callers : pc[t] \in {"dial", "open", "spawn"} =>
           stopCh \in Gens /\ stopCh \notin closed /\ pc[stopCh] = "idle"

Building == \A t \in Callers :
    /\ pc[t] \in {"open", "spawn"} => conn = stopCh
    /\ pc[t] = "spawn" => session = stopCh

Whole == running =>
    /\ stopCh \in Gens /\ stopCh \notin closed /\ conn = stopCh
    /\ session = stopCh \/ (session = 0 /\ pc[Closer] = "done")

Gone == ~running =>
    /\ conn = 0 \/ In({"open", "spawn", "closeTunnel", "closeConn", "failed"})
    /\ session = 0 \/ In({"spawn", "closeTunnel"})

(***************************************************************************)
(* The flags and the status.                                               *)
(***************************************************************************)
\* Once stopping is set, some Stop has not cleared it yet.
StoppingIsCalled == stopping => In(InStop)
ReconnectingIsCalled == reconnecting =>
    \E g \in Gens : pc[g] \in InStop \cup {"stop", "restart"}

StatusFollows ==
    /\ running => \/ status = "connected"
                  \/ \E g \in Gens : pc[g] \in {"reconnect", "stop", "stopLock"}
                  \/ \E t \in Stoppers : pc[t] = "done"
    /\ ~running => \/ status = "disconnected"
                   \/ In({"closeTunnel", "closeConn", "stopped", "failed"} \cup InStart)
                   \/ \E g \in Gens : pc[g] \in InReconnect \cup {"stopLock"}

(***************************************************************************)
(* The loops: those of a running engine wait on its own channel and        *)
(* connection.                                                             *)
(***************************************************************************)
HasLoops == running =>
    \/ In({"stopLock"}) \/ pc[Closer] = "done"
    \/ /\ Alive(stopCh) /\ held[stopCh] \in {0, stopCh}
       /\ "writer" \in Loops => writer[stopCh] \notin {"unborn", "ended"}
       /\ \A l \in Selecting : loop[l][stopCh] \in {AtTop, stopCh}

\* The part of the invariant that the threads of Start and Stop and the ping
\* loops keep, whatever the other loops do.
CallsInv ==
    /\ Roles /\ Mutex /\ NotYet /\ OnePinger /\ AfterFailure
    /\ Channels /\ Building /\ Whole /\ Gone
    /\ StoppingIsCalled /\ ReconnectingIsCalled /\ StatusFollows

(***************************************************************************)
(* The routes.                                                             *)
(***************************************************************************)
\* A default route into the tunnel is one that the next closeTunnel can delete, or
\* one that was left.
TunDefaultGone ==
    tunDefault => "tunnel" \in undone \/ (ifIndex /\ (running \/ In({"spawn", "closeTunnel"})))

\* The gateway is known from the first Start on.
GatewayKnown ==
    /\ realGateway # NoGateway \/ In({"failed"}) \/ pc[Opener] \in {"start", "dial", "open"}
    /\ \A g \in Gens : Refreshing(g) => refresh[g].gw # NoGateway

DefaultRestored ==
    pc[Opener] = "done" /\ ~running =>
        restored # {} \/ "default" \in undone \/ In({"closeTunnel"})

\* The field and the route, at each point of a refresh without company, unless the
\* commands for the route failed.
RouteIsField == ~crossed /\ ~In({"failed"}) =>
    /\ \A g, h \in Gens : Refreshing(g) /\ Refreshing(h) => g = h
    /\ "server" \notin undone =>
           /\ \A g \in Gens : refresh[g].at = "field" => server = {refresh[g].gw}
           /\ (\A g \in Gens : refresh[g].at # "field") =>
                  server = {realGateway} \/ pc[Opener] \in {"start", "dial", "open"}

RoutesInv == TunDefaultGone /\ GatewayKnown /\ DefaultRestored /\ RouteIsField

IInv == TypeOK /\ CallsInv /\ HasLoops /\ RoutesInv

-----------------------------------------------------------------------------
(* Where the callers are, and where they are not at the same time.          *)
LEMMA Places ==
    /\ \A t \in Callers : t # Nobody
    /\ \A g \in Gens : g \in Callers /\ g \in Int /\ g # Opener /\ g \notin Users
    /\ Opener \in Callers /\ Closer \in Callers /\ Users \subseteq Callers
    /\ \A t \in Callers : t = Opener \/ t \in Users \/ t \in Gens
    /\ \A g \in Gens : g \in 1..MaxGen
    /\ \A t \in Stoppers : t \in Callers /\ t # Opener /\ t \notin Gens
  BY DEF Callers, Users, Gens

\* A step of t from one label to the next.
LEMMA Went ==
    ASSUME TypeOK, NEW t \in Callers, NEW label, Goto(t, label)
    PROVE  pc'[t] = label /\ \A u \in Callers \ {t} : pc'[u] = pc[u]
  BY DEF TypeOK, Goto

\* The holder of v.mu is alone inside.
LEMMA Alone ==
    ASSUME CallsInv, NEW t \in Callers, pc[t] \in Locked
    PROVE  ~running /\ \A u \in Callers \ {t} : pc[u] \notin Locked
  BY DEF CallsInv, Mutex, NotYet

(* Whoever starts the engine is alone in doing so.                          *)
Starting == {"restart"} \cup InStart
LEMMA Starter ==
    ASSUME TypeOK, CallsInv, NEW t \in Callers, pc[t] \in Starting
    PROVE  /\ t \notin Users /\ ~running
           /\ \A g \in Gens \ {t} : ~Alive(g)
           /\ t # Opener => pc[Opener] = "done"
           /\ \A u \in Callers \ {t} : pc[u] \notin Starting \cup {"failed"}
<1> USE Places
<1>1. t \notin Users
  BY DEF TypeOK, StopperLabels, InStop, Starting, InStart
<1>2. \A u \in Callers : pc[u] # "failed"
  BY <1>1 DEF CallsInv, AfterFailure, In, Starting, InStart, Alive
<1>3. ~running
  BY DEF CallsInv, NotYet, Starting, InStart, Locked
<1>4. CASE t = Opener
  <2>1. \A u \in Users \cup Gens : pc[u] = "idle"
    BY <1>4 DEF CallsInv, Roles, Starting, InStart
  <2>2. QED
    BY <1>1, <1>2, <1>3, <1>4, <2>1 DEF Alive, Starting, InStart
<1>5. CASE t \in Gens
  <2>1. pc[Opener] = "done" /\ Alive(t)
    BY <1>2, <1>5 DEF CallsInv, Roles, Starting, InStart, Alive
  <2>2. \A g \in Gens \ {t} : ~Alive(g)
    BY <1>5, <2>1 DEF CallsInv, OnePinger, Alive
  <2>3. \A u \in Users : pc[u] \notin Starting
    BY DEF TypeOK, StopperLabels, InStop, Starting, InStart
  <2>4. QED
    BY <1>1, <1>2, <1>3, <1>5, <2>1, <2>2, <2>3 DEF Alive, Starting, InStart
<1>6. QED
  BY <1>1, <1>4, <1>5

LEMMA StartDialCalls ==
    ASSUME TypeOK, CallsInv, NEW t \in Callers, StartDial(t)
    PROVE  CallsInv'
<1>1. /\ pc[t] = "dial" /\ mu' \in {mu, Nobody}
      /\ UNCHANGED <<running, stopping, reconnecting, stopCh, closed, session, status, held>>
      /\ \A u \in Callers \ {t} : pc'[u] = pc[u]
      /\ \/ pc'[t] = "open" /\ conn' = stopCh /\ mu' = mu
         \/ pc'[t] = "failed" /\ conn' = conn /\ mu' = Nobody
  BY Went DEF StartDial, Return, flags, loops
<1>2. ~running /\ \A u \in Callers \ {t} : pc[u] \notin Locked
  BY <1>1, Alone DEF Locked
<1> USE Places
<1>3. /\ t \notin Users /\ \A g \in Gens \ {t} : ~Alive(g)
      /\ t # Opener => pc[Opener] = "done"
      /\ \A u \in Callers \ {t} : pc[u] \notin Starting \cup {"failed"}
  BY <1>1, Starter DEF Starting, InStart
<1>4. Roles' /\ Mutex' /\ NotYet'
  BY <1>1, <1>2, <1>3 DEF CallsInv, Roles, Mutex, NotYet, Locked, InStart
<1>5. OnePinger' /\ AfterFailure'
  BY <1>1, <1>2, <1>3 DEF OnePinger, AfterFailure, Alive, In
<1>6. Channels' /\ Building' /\ Whole' /\ Gone'
  BY <1>1, <1>2 DEF CallsInv, Channels, Building, Whole, Gone, Locked, In
<1>7. StoppingIsCalled' /\ ReconnectingIsCalled' /\ StatusFollows'
  BY <1>1, <1>2 DEF CallsInv, StoppingIsCalled, ReconnectingIsCalled, StatusFollows,
                    In, InStart, InStop, InReconnect
<1>8. QED
  BY <1>4, <1>5, <1>6, <1>7 DEF CallsInv

LEMMA StartEnterCalls ==
    ASSUME TypeOK, CallsInv, NEW t \in Callers, StartEnter(t)
    PROVE  CallsInv'
<1>1. /\ pc[t] = "start" /\ mu = Nobody /\ ~running /\ mu' = t /\ stopCh < MaxGen
      /\ stopCh \in 0..MaxGen /\ stopCh' = stopCh + 1 /\ stopCh + 1 \in Gens
      /\ UNCHANGED <<running, stopping, reconnecting, closed, conn, session, held>>
      /\ pc'[t] = "dial" /\ \A u \in Callers \ {t} : pc'[u] = pc[u]
      /\ \A u \in Callers : pc[u] \notin Locked
  BY Went, Places DEF StartEnter, TypeOK, CallsInv, NotYet, Mutex, Locked, Gens, flags, tunnel, loops
<1> USE Places
<1>2. /\ t \notin Users /\ ~running /\ \A g \in Gens \ {t} : ~Alive(g)
      /\ t # Opener => pc[Opener] = "done"
      /\ \A u \in Callers \ {t} : pc[u] \notin Starting \cup {"failed"}
  BY <1>1, Starter DEF Starting, InStart
<1>3. Roles' /\ Mutex' /\ NotYet'
  BY <1>1, <1>2 DEF CallsInv, Roles, Mutex, NotYet, Locked, InStart
<1>4. OnePinger' /\ AfterFailure'
  BY <1>1, <1>2 DEF CallsInv, Roles, OnePinger, AfterFailure, Alive, In, Locked
<1>5. Channels' /\ Building' /\ Whole' /\ Gone'
  <2>1. /\ \A g \in closed : g \in Gens /\ g <= stopCh
        /\ t # stopCh + 1 /\ pc[stopCh + 1] = "idle" /\ stopCh + 1 \notin closed
    BY <1>1 DEF TypeOK, CallsInv, Channels
  <2>2. \A g \in Gens : g > stopCh' => pc'[g] = "idle"
    BY <1>1 DEF CallsInv, Channels
  <2>3. \A u \in Callers : pc'[u] \in {"dial", "open", "spawn"} => u = t
    BY <1>1 DEF Locked
  <2>4. Channels'
    <3>1. \A g \in closed' : g <= stopCh'
      BY <1>1, <2>1
    <3>2. \A g \in Gens : pc'[g] = "idle" => held'[g] = 0
      BY <1>1 DEF CallsInv, Channels
    <3>3. stopCh' \in Gens /\ stopCh' \notin closed' /\ pc'[stopCh'] = "idle"
      BY <1>1, <2>1
    <3>4. QED
      BY <2>2, <2>3, <3>1, <3>2, <3>3 DEF Channels
  <2>5. Building' /\ Whole' /\ Gone'
    BY <1>1, <1>2, <2>3 DEF CallsInv, Building, Whole, Gone, Locked, In
  <2>6. QED
    BY <2>4, <2>5
<1>6. StoppingIsCalled' /\ ReconnectingIsCalled' /\ StatusFollows'
  BY <1>1, <1>2 DEF CallsInv, StoppingIsCalled, ReconnectingIsCalled, StatusFollows,
                    In, InStart, InStop, InReconnect
<1>7. QED
  BY <1>3, <1>4, <1>5, <1>6 DEF CallsInv

LEMMA StartOpenCalls ==
    ASSUME TypeOK, CallsInv, NEW t \in Callers, StartOpen(t)
    PROVE  CallsInv'
<1>1. /\ pc[t] = "open" /\ conn = stopCh
      /\ UNCHANGED <<running, stopping, reconnecting, stopCh, closed, conn, status, held>>
      /\ \A u \in Callers \ {t} : pc'[u] = pc[u]
      /\ \/ pc'[t] = "spawn" /\ session' = stopCh /\ mu' = mu
         \/ pc'[t] = "failed" /\ session' = session /\ mu' = Nobody
  BY Went DEF StartOpen, Return, CallsInv, Building, flags, loops
<1> USE Places
<1>2. ~running /\ \A u \in Callers \ {t} : pc[u] \notin Locked
  BY <1>1, Alone DEF Locked
<1>3. /\ t \notin Users /\ ~running /\ \A g \in Gens \ {t} : ~Alive(g)
      /\ t # Opener => pc[Opener] = "done"
      /\ \A u \in Callers \ {t} : pc[u] \notin Starting \cup {"failed"}
  BY <1>1, Starter DEF Starting, InStart
<1>4. Roles' /\ Mutex' /\ NotYet'
  BY <1>1, <1>2, <1>3 DEF CallsInv, Roles, Mutex, NotYet, Locked, InStart
<1>5. OnePinger' /\ AfterFailure'
  BY <1>1, <1>2, <1>3 DEF CallsInv, Roles, OnePinger, AfterFailure, Alive, In, Locked
<1>6. Channels' /\ Building' /\ Whole' /\ Gone'
  BY <1>1, <1>2, <1>3 DEF CallsInv, Channels, Building, Whole, Gone, Locked, In
<1>7. StoppingIsCalled' /\ ReconnectingIsCalled' /\ StatusFollows'
  BY <1>1, <1>2, <1>3 DEF CallsInv, StoppingIsCalled, ReconnectingIsCalled, StatusFollows,
                    In, InStart, InStop, InReconnect
<1>8. QED
  BY <1>4, <1>5, <1>6, <1>7 DEF CallsInv

LEMMA StartSpawnCalls ==
    ASSUME TypeOK, CallsInv, NEW t \in Callers, StartSpawn(t)
    PROVE  CallsInv'
<1>1. /\ pc[t] = "spawn" /\ conn = stopCh /\ session = stopCh
      /\ stopCh \in Gens /\ stopCh \notin closed /\ pc[stopCh] = "idle"
      /\ UNCHANGED <<stopping, reconnecting, stopCh, closed, conn, session, held>>
      /\ running' = TRUE /\ status' = "connected" /\ mu' = Nobody
      /\ pc'[t] = "done" /\ pc'[stopCh] = "top"
      /\ \A u \in Callers \ {t, stopCh} : pc'[u] = pc[u]
  BY Places DEF StartSpawn, TypeOK, CallsInv, Building, Channels, flags, tunnel
<1> USE Places
<1>2. ~running /\ \A u \in Callers \ {t} : pc[u] \notin Locked
  BY <1>1, Alone DEF Locked
<1>3. /\ t \notin Users /\ ~running /\ \A g \in Gens \ {t} : ~Alive(g)
      /\ t # Opener => pc[Opener] = "done"
      /\ \A u \in Callers \ {t} : pc[u] \notin Starting \cup {"failed"}
  BY <1>1, Starter DEF Starting, InStart
<1>4. Roles' /\ Mutex' /\ NotYet'
  <2>1. pc'[Opener] = "done"
    BY <1>1, <1>3
  <2>2. \A u \in Callers : pc'[u] \notin Locked \cup {"restart", "start"}
    BY <1>1, <1>2, <1>3 DEF Locked, Starting, InStart
  <2>3. \A g \in Gens : pc'[g] # "return"
    BY <1>1 DEF CallsInv, Roles
  <2>4. QED
    BY <2>1, <2>2, <2>3 DEF Roles, Mutex, NotYet
<1>5. OnePinger' /\ AfterFailure'
  BY <1>1, <1>2, <1>3 DEF CallsInv, Roles, OnePinger, AfterFailure, Alive, In, Locked
<1>6. Channels' /\ Building' /\ Whole' /\ Gone'
  BY <1>1, <1>2, <1>3 DEF CallsInv, Channels, Building, Whole, Gone, Locked, In
<1>7. StoppingIsCalled' /\ ReconnectingIsCalled' /\ StatusFollows'
  BY <1>1, <1>2, <1>3 DEF CallsInv, StoppingIsCalled, ReconnectingIsCalled, StatusFollows,
                    In, InStart, InStop, InReconnect
<1>8. QED
  BY <1>4, <1>5, <1>6, <1>7 DEF CallsInv

LEMMA CallStopCalls ==
    ASSUME TypeOK, CallsInv, NEW t \in Callers, NEW label, CallStop(t, label),
           \/ t \in Users /\ label = "idle" /\ pc[Opener] = "done"
           \/ t \in Gens /\ label = "stop"
    PROVE  CallsInv'
<1>1. /\ pc[t] = label /\ stopping' = TRUE /\ pc[Opener] = "done"
      /\ UNCHANGED <<mu, running, reconnecting, stopCh, closed, conn, session, status, held>>
      /\ pc'[t] = "stopLock" /\ \A u \in Callers \ {t} : pc'[u] = pc[u]
  BY Went, Places DEF CallStop, CallsInv, Roles, tunnel, loops
<1> USE Places
<1>2. Roles' /\ Mutex' /\ NotYet'
  BY <1>1 DEF CallsInv, Roles, Mutex, NotYet, Locked, InStart
<1>3. OnePinger' /\ AfterFailure'
  BY <1>1 DEF CallsInv, Roles, OnePinger, AfterFailure, Alive, In, Locked
<1>4. Channels' /\ Building' /\ Whole' /\ Gone'
  BY <1>1 DEF CallsInv, Channels, Building, Whole, Gone, Locked, In
<1>5. StoppingIsCalled' /\ ReconnectingIsCalled' /\ StatusFollows'
  BY <1>1 DEF CallsInv, StoppingIsCalled, ReconnectingIsCalled, StatusFollows,
                    In, InStart, InStop, InReconnect
<1>6. QED
  BY <1>2, <1>3, <1>4, <1>5 DEF CallsInv

LEMMA StopLockCalls ==
    ASSUME TypeOK, CallsInv, NEW t \in Callers, StopLock(t)
    PROVE  CallsInv'
<1>1. /\ pc[t] = "stopLock" /\ mu = Nobody /\ t # Opener
      /\ pc[Opener] = "done" /\ \A u \in Callers : pc[u] \notin Locked
      /\ UNCHANGED <<reconnecting, stopCh, conn, session, status, held>>
      /\ \A u \in Callers \ {t} : pc'[u] = pc[u]
      /\ \/ /\ running /\ mu' = t /\ running' = FALSE /\ closed' = closed \cup {stopCh}
            /\ pc'[t] = "closeTunnel" /\ stopping' = stopping
            /\ stopCh \in Gens
         \/ /\ ~running /\ stopping' = FALSE /\ UNCHANGED <<mu, running, closed>>
            /\ pc'[t] = IF t \in Gens THEN "restart" ELSE "return"
  BY Went, Places DEF StopLock, AfterStop, CallsInv, Roles, Mutex, Whole, InStart, Locked, tunnel, loops
<1> USE Places
<1>2. Roles' /\ Mutex' /\ NotYet'
  BY <1>1 DEF CallsInv, Roles, Mutex, NotYet, Locked, InStart
<1>3. OnePinger' /\ AfterFailure'
  BY <1>1 DEF CallsInv, Roles, OnePinger, AfterFailure, Alive, In, Locked
<1>4. Channels' /\ Building' /\ Whole' /\ Gone'
  BY <1>1 DEF CallsInv, Channels, Building, Whole, Gone, Locked, In
<1>5. StoppingIsCalled' /\ ReconnectingIsCalled' /\ StatusFollows'
  BY <1>1 DEF CallsInv, StoppingIsCalled, ReconnectingIsCalled, StatusFollows,
                    In, InStart, InStop, InReconnect
<1>6. QED
  BY <1>2, <1>3, <1>4, <1>5 DEF CallsInv

LEMMA StopTunnelCalls ==
    ASSUME TypeOK, CallsInv, NEW t \in Callers, StopTunnel(t)
    PROVE  CallsInv'
<1>1. /\ pc[t] = "closeTunnel" /\ session' = 0
      /\ UNCHANGED <<mu, running, stopping, reconnecting, stopCh, closed, conn, status, held>>
      /\ pc'[t] = "closeConn" /\ \A u \in Callers \ {t} : pc'[u] = pc[u]
  BY Went DEF StopTunnel, flags, loops
<1> USE Places
<1>2. ~running /\ \A u \in Callers \ {t} : pc[u] \notin Locked
  BY <1>1, Alone DEF Locked
<1>3. Roles' /\ Mutex' /\ NotYet'
  BY <1>1, <1>2 DEF CallsInv, Roles, Mutex, NotYet, Locked, InStart
<1>4. OnePinger' /\ AfterFailure'
  BY <1>1, <1>2 DEF CallsInv, Roles, OnePinger, AfterFailure, Alive, In, Locked
<1>5. Channels' /\ Building' /\ Whole' /\ Gone'
  BY <1>1, <1>2 DEF CallsInv, Channels, Building, Whole, Gone, Locked, In
<1>6. StoppingIsCalled' /\ ReconnectingIsCalled' /\ StatusFollows'
  BY <1>1, <1>2 DEF CallsInv, StoppingIsCalled, ReconnectingIsCalled, StatusFollows,
                    In, InStart, InStop, InReconnect
<1>7. QED
  BY <1>3, <1>4, <1>5, <1>6 DEF CallsInv

LEMMA StopConnCalls ==
    ASSUME TypeOK, CallsInv, NEW t \in Callers, StopConn(t)
    PROVE  CallsInv'
<1>1. /\ pc[t] = "closeConn" /\ conn' = 0
      /\ UNCHANGED <<mu, running, stopping, reconnecting, stopCh, closed, session, status, held>>
      /\ pc'[t] = "stopped" /\ \A u \in Callers \ {t} : pc'[u] = pc[u]
  BY Went DEF StopConn, flags, loops
<1> USE Places
<1>2. ~running /\ \A u \in Callers \ {t} : pc[u] \notin Locked
  BY <1>1, Alone DEF Locked
<1>3. Roles' /\ Mutex' /\ NotYet'
  BY <1>1, <1>2 DEF CallsInv, Roles, Mutex, NotYet, Locked, InStart
<1>4. OnePinger' /\ AfterFailure'
  BY <1>1, <1>2 DEF CallsInv, Roles, OnePinger, AfterFailure, Alive, In, Locked
<1>5. Channels' /\ Building' /\ Whole' /\ Gone'
  BY <1>1, <1>2 DEF CallsInv, Channels, Building, Whole, Gone, Locked, In
<1>6. StoppingIsCalled' /\ ReconnectingIsCalled' /\ StatusFollows'
  BY <1>1, <1>2 DEF CallsInv, StoppingIsCalled, ReconnectingIsCalled, StatusFollows,
                    In, InStart, InStop, InReconnect
<1>7. QED
  BY <1>3, <1>4, <1>5, <1>6 DEF CallsInv

LEMMA StopDoneCalls ==
    ASSUME TypeOK, CallsInv, NEW t \in Callers, StopDone(t)
    PROVE  CallsInv'
<1>1. /\ pc[t] = "stopped" /\ t # Opener /\ stopping' = FALSE /\ mu' = Nobody
      /\ pc[Opener] = "done"
      /\ status' = IF reconnecting THEN status ELSE "disconnected"
      /\ UNCHANGED <<running, reconnecting, stopCh, closed, conn, session, held>>
      /\ pc'[t] = IF t \in Gens THEN "restart" ELSE "return"
      /\ \A u \in Callers \ {t} : pc'[u] = pc[u]
  BY Went, Places DEF StopDone, Return, AfterStop, CallsInv, Roles, InStart, tunnel, loops
<1> USE Places
<1>2. ~running /\ \A u \in Callers \ {t} : pc[u] \notin Locked
  BY <1>1, Alone DEF Locked
<1>3. Roles' /\ Mutex' /\ NotYet'
  BY <1>1, <1>2 DEF CallsInv, Roles, Mutex, NotYet, Locked, InStart
<1>4. OnePinger' /\ AfterFailure'
  BY <1>1, <1>2 DEF CallsInv, Roles, OnePinger, AfterFailure, Alive, In, Locked
<1>5. Channels' /\ Building' /\ Whole' /\ Gone'
  BY <1>1, <1>2 DEF CallsInv, Channels, Building, Whole, Gone, Locked, In
<1>6. StoppingIsCalled' /\ ReconnectingIsCalled' /\ StatusFollows'
  BY <1>1, <1>2 DEF CallsInv, StoppingIsCalled, ReconnectingIsCalled, StatusFollows,
                    In, InStart, InStop, InReconnect
<1>7. QED
  BY <1>3, <1>4, <1>5, <1>6 DEF CallsInv

LEMMA StopReturnCalls ==
    ASSUME TypeOK, CallsInv, NEW t \in Callers, StopReturn(t)
    PROVE  CallsInv'
<1>1. /\ pc[t] = "return" /\ t \in Users /\ pc[Opener] = "done"
      /\ IF t = Closer THEN mu = Nobody /\ session' = 0 /\ status' = status
                       ELSE session' = session /\ status' = "disconnected" /\ t \in Stoppers
      /\ UNCHANGED <<mu, running, stopping, reconnecting, stopCh, closed, conn, held>>
      /\ pc'[t] = "done" /\ \A u \in Callers \ {t} : pc'[u] = pc[u]
  BY Went, Places DEF StopReturn, Users, CallsInv, Roles, InStart, flags, loops
<1> USE Places
<1>2. Roles' /\ Mutex' /\ NotYet'
  BY <1>1 DEF CallsInv, Roles, Mutex, NotYet, Locked, InStart
<1>3. OnePinger' /\ AfterFailure'
  BY <1>1 DEF CallsInv, Roles, OnePinger, AfterFailure, Alive, In, Locked
<1>4. Channels' /\ Building' /\ Whole' /\ Gone'
  <2>1. t = Closer => \A u \in Callers : pc[u] \notin Locked
    BY <1>1 DEF CallsInv, Mutex
  <2>2. Channels'
    BY <1>1 DEF CallsInv, Channels
  <2>3. Building'
    BY <1>1, <2>1 DEF CallsInv, Building, Locked
  <2>4. Whole'
    BY <1>1 DEF CallsInv, Whole
  <2>5. Gone'
    BY <1>1 DEF CallsInv, Gone, In
  <2>6. QED
    BY <2>2, <2>3, <2>4, <2>5
<1>5. StoppingIsCalled' /\ ReconnectingIsCalled' /\ StatusFollows'
  BY <1>1 DEF CallsInv, StoppingIsCalled, ReconnectingIsCalled, StatusFollows,
                    In, InStart, InStop, InReconnect
<1>6. QED
  BY <1>2, <1>3, <1>4, <1>5 DEF CallsInv

LEMMA PingTopCalls ==
    ASSUME TypeOK, CallsInv, NEW t \in Gens, PingTop(t)
    PROVE  CallsInv'
<1>1. /\ pc[t] = "top" /\ t \in Gens /\ pc[Opener] = "done"
      /\ UNCHANGED <<mu, running, stopping, reconnecting, stopCh, closed, conn, session, status, held>>
      /\ pc'[t] \in {"done", "judge"} /\ \A u \in Callers \ {t} : pc'[u] = pc[u]
  BY Went, Places DEF PingTop, CallsInv, Roles, tunnel, flags, loops
<1> USE Places
<1>2. Roles' /\ Mutex' /\ NotYet'
  BY <1>1 DEF CallsInv, Roles, Mutex, NotYet, Locked, InStart
<1>3. OnePinger' /\ AfterFailure'
  BY <1>1 DEF CallsInv, Roles, OnePinger, AfterFailure, Alive, In, Locked
<1>4. Channels' /\ Building' /\ Whole' /\ Gone'
  BY <1>1 DEF CallsInv, Channels, Building, Whole, Gone, Locked, In
<1>5. StoppingIsCalled' /\ ReconnectingIsCalled' /\ StatusFollows'
  BY <1>1 DEF CallsInv, StoppingIsCalled, ReconnectingIsCalled, StatusFollows,
                    In, InStart, InStop, InReconnect
<1>6. QED
  BY <1>2, <1>3, <1>4, <1>5 DEF CallsInv

LEMMA PingJudgeCalls ==
    ASSUME TypeOK, CallsInv, NEW t \in Gens, PingJudge(t)
    PROVE  CallsInv'
<1>1. /\ pc[t] = "judge" /\ t \in Gens /\ pc[Opener] = "done"
      /\ held' = [held EXCEPT ![t] = stopCh]
      /\ \/ status' = "reconnecting" /\ pc'[t] = "reconnect"
         \/ status' = status /\ pc'[t] \in {"top", "select"}
      /\ UNCHANGED <<mu, running, stopping, reconnecting, stopCh, closed, conn, session>>
      /\ pc'[t] # "idle" /\ \A u \in Callers \ {t} : pc'[u] = pc[u]
  BY Went, Places DEF PingJudge, CallsInv, Roles, tunnel, flags, loops
<1> USE Places
<1>2. Roles' /\ Mutex' /\ NotYet'
  BY <1>1 DEF CallsInv, Roles, Mutex, NotYet, Locked, InStart
<1>3. OnePinger' /\ AfterFailure'
  BY <1>1 DEF CallsInv, Roles, OnePinger, AfterFailure, Alive, In, Locked
<1>4. Channels' /\ Building' /\ Whole' /\ Gone'
  BY <1>1 DEF CallsInv, Channels, Building, Whole, Gone, Locked, In
<1>5. StoppingIsCalled' /\ ReconnectingIsCalled' /\ StatusFollows'
  BY <1>1 DEF CallsInv, StoppingIsCalled, ReconnectingIsCalled, StatusFollows,
                    In, InStart, InStop, InReconnect
<1>6. QED
  BY <1>2, <1>3, <1>4, <1>5 DEF CallsInv

LEMMA PingSelectCalls ==
    ASSUME TypeOK, CallsInv, NEW t \in Gens, PingSelect(t)
    PROVE  CallsInv'
<1>1. /\ pc[t] = "select" /\ t \in Gens /\ pc[Opener] = "done"
      /\ UNCHANGED <<mu, running, stopping, reconnecting, stopCh, closed, conn, session, status, held>>
      /\ pc'[t] \in {"done", "top"} /\ \A u \in Callers \ {t} : pc'[u] = pc[u]
  BY Went, Places DEF PingSelect, CallsInv, Roles, tunnel, flags, loops
<1> USE Places
<1>2. Roles' /\ Mutex' /\ NotYet'
  BY <1>1 DEF CallsInv, Roles, Mutex, NotYet, Locked, InStart
<1>3. OnePinger' /\ AfterFailure'
  BY <1>1 DEF CallsInv, Roles, OnePinger, AfterFailure, Alive, In, Locked
<1>4. Channels' /\ Building' /\ Whole' /\ Gone'
  BY <1>1 DEF CallsInv, Channels, Building, Whole, Gone, Locked, In
<1>5. StoppingIsCalled' /\ ReconnectingIsCalled' /\ StatusFollows'
  BY <1>1 DEF CallsInv, StoppingIsCalled, ReconnectingIsCalled, StatusFollows,
                    In, InStart, InStop, InReconnect
<1>6. QED
  BY <1>2, <1>3, <1>4, <1>5 DEF CallsInv

LEMMA ReconnectStopCalls ==
    ASSUME TypeOK, CallsInv, NEW t \in Gens, ReconnectStop(t)
    PROVE  CallsInv'
<1>1. /\ pc[t] = "reconnect" /\ t \in Gens /\ pc[Opener] = "done" /\ reconnecting' = TRUE
      /\ UNCHANGED <<mu, running, stopping, stopCh, closed, conn, session, status, held>>
      /\ pc'[t] = "stop" /\ \A u \in Callers \ {t} : pc'[u] = pc[u]
  BY Went, Places DEF ReconnectStop, CallsInv, Roles, tunnel, flags, loops
<1> USE Places
<1>2. Roles' /\ Mutex' /\ NotYet'
  BY <1>1 DEF CallsInv, Roles, Mutex, NotYet, Locked, InStart
<1>3. OnePinger' /\ AfterFailure'
  BY <1>1 DEF CallsInv, Roles, OnePinger, AfterFailure, Alive, In, Locked
<1>4. Channels' /\ Building' /\ Whole' /\ Gone'
  BY <1>1 DEF CallsInv, Channels, Building, Whole, Gone, Locked, In
<1>5. StoppingIsCalled' /\ ReconnectingIsCalled' /\ StatusFollows'
  BY <1>1 DEF CallsInv, StoppingIsCalled, ReconnectingIsCalled, StatusFollows,
                    In, InStart, InStop, InReconnect
<1>6. QED
  BY <1>2, <1>3, <1>4, <1>5 DEF CallsInv

LEMMA ReconnectStartCalls ==
    ASSUME TypeOK, CallsInv, NEW t \in Gens, ReconnectStart(t)
    PROVE  CallsInv'
<1>1. /\ pc[t] = "restart" /\ t \in Gens /\ pc[Opener] = "done" /\ reconnecting' = FALSE
      /\ UNCHANGED <<mu, running, stopping, stopCh, closed, conn, session, status, held>>
      /\ pc'[t] = "start" /\ \A u \in Callers \ {t} : pc'[u] = pc[u]
  BY Went, Places DEF ReconnectStart, CallsInv, Roles, tunnel, flags, loops
<1> USE Places
<1>2. Roles' /\ Mutex' /\ NotYet'
  BY <1>1 DEF CallsInv, Roles, Mutex, NotYet, Locked, InStart
<1>3. OnePinger' /\ AfterFailure'
  BY <1>1 DEF CallsInv, Roles, OnePinger, AfterFailure, Alive, In, Locked
<1>4. Channels' /\ Building' /\ Whole' /\ Gone'
  BY <1>1 DEF CallsInv, Channels, Building, Whole, Gone, Locked, In
<1>5. StoppingIsCalled' /\ ReconnectingIsCalled' /\ StatusFollows'
  BY <1>1 DEF CallsInv, StoppingIsCalled, ReconnectingIsCalled, StatusFollows,
                    In, InStart, InStop, InReconnect
<1>6. QED
  BY <1>2, <1>3, <1>4, <1>5 DEF CallsInv

-----------------------------------------------------------------------------
(* The other loops, the network and the gateway leave all of this alone.    *)
OtherStep ==
    \/ \E g \in Gens : WriterStep(g) \/ ReaderStep(g) \/ RouteStep(g)
    \/ LinkDies \/ GatewayMoves

LEMMA Others == ASSUME OtherStep \/ UNCHANGED vars PROVE UNCHANGED still
  BY DEF OtherStep, WriterStep, WriterTop, WriterEncrypt, WriterWrite, ReaderStep, ReaderTop,
         ReaderSelect, RouteStep, RouteEnds, RouteTick, RouteTickTo, RouteAdd,
         RouteDone, LinkDies,
         GatewayMoves, vars, still, loops

LEMMA StillCalls == ASSUME CallsInv, UNCHANGED still PROVE CallsInv'
<1>1. UNCHANGED <<mu, running, stopping, reconnecting, stopCh, closed, conn, session, status,
                  pc, held>>
  BY DEF still, flags, tunnel
<1>2. Roles' /\ Mutex' /\ NotYet' /\ OnePinger' /\ AfterFailure'
  BY <1>1 DEF CallsInv, Roles, Mutex, NotYet, OnePinger, AfterFailure, Alive, In
<1>3. Channels' /\ Building' /\ Whole' /\ Gone'
  BY <1>1 DEF CallsInv, Channels, Building, Whole, Gone, In
<1>4. StoppingIsCalled' /\ ReconnectingIsCalled' /\ StatusFollows'
  BY <1>1 DEF CallsInv, StoppingIsCalled, ReconnectingIsCalled, StatusFollows, In
<1>5. QED
  BY <1>2, <1>3, <1>4 DEF CallsInv

\* A step is that of a caller, of a user, of a ping loop, or of the others.
LEMMA Steps ==
    ASSUME [Next]_vars
    PROVE  \/ \E t \in Callers : Locking(t) \/ CallerStep(t)
           \/ \E t \in Users : pc[Opener] = "done" /\ CallStop(t, "idle")
           \/ \E g \in Gens : PingStep(g)
           \/ OtherStep \/ UNCHANGED vars
  BY Places DEF Next, OtherStep, DoDisconnect, Destroy, Published

LEMMA CallsKept == ASSUME TypeOK, CallsInv, [Next]_vars PROVE CallsInv'
<1> USE Places
<1>1. ASSUME NEW t \in Callers, Locking(t) \/ CallerStep(t) PROVE CallsInv'
  BY <1>1, StartEnterCalls, StopLockCalls, StartDialCalls, StartOpenCalls, StartSpawnCalls,
     StopTunnelCalls, StopConnCalls, StopDoneCalls, StopReturnCalls DEF Locking, CallerStep
<1>2. ASSUME NEW t \in Users, pc[Opener] = "done" /\ CallStop(t, "idle") PROVE CallsInv'
  BY <1>2, CallStopCalls
<1>3. ASSUME NEW g \in Gens, PingStep(g) PROVE CallsInv'
  BY <1>3, PingTopCalls, PingJudgeCalls, PingSelectCalls, ReconnectStopCalls, CallStopCalls,
     ReconnectStartCalls DEF PingStep
<1>4. CASE OtherStep \/ UNCHANGED vars
  BY <1>4, Others, StillCalls
<1>5. QED
  BY <1>1, <1>2, <1>3, <1>4, Steps

-----------------------------------------------------------------------------
(* Type correctness.                                                        *)
LEMMA MovesPc ==
    ASSUME TypeOK, NEW t \in Callers, NEW label \in CallerLabels, Goto(t, label),
           t \in Users => label \in StopperLabels
    PROVE  pc' \in [Callers -> CallerLabels] /\ \A u \in Users : pc'[u] \in StopperLabels
  BY Places DEF TypeOK, Goto

LEMMA RoutingTypes ==
    ASSUME RoutingTypeOK
    PROVE  /\ Detected \subseteq Hops
           /\ \A opened : NoGatewayFound \/ NoAdapter \/ SetRoutes(opened) => RoutingTypeOK'
           /\ CloseRoutes \/ Deactivate \/ DestroyRoutes \/ Activate \/ Move => RoutingTypeOK'
           /\ \A gw \in Hops : ServerRoute(gw) \/ RememberGateway(gw) => RoutingTypeOK'
           /\ DropServerRoute \/ UNCHANGED routing => RoutingTypeOK'
<1>1. FirstHop \subseteq Hops /\ Detected \subseteq Hops
  BY DEF RoutingTypeOK, Detected, FirstHop, Hops
<1>2. NoGatewayFound \/ NoAdapter => RoutingTypeOK'
  BY <1>1 DEF NoGatewayFound, NoAdapter, RoutingTypeOK, Hops, table
<1>3. ASSUME NEW opened, SetRoutes(opened) PROVE RoutingTypeOK'
  <2>1. /\ net' = net /\ restored' = restored /\ realGateway' \in Gateways
        /\ ifIndex' \in BOOLEAN /\ server' \in ServerRoutes(realGateway')
        /\ tunDefault' \in BOOLEAN
    BY <1>1, <1>3 DEF SetRoutes, Routed, RoutingTypeOK, Hops
  <2>2. undone' \subseteq {"server", "default", "tunnel"}
    BY <1>3 DEF SetRoutes, Routed, Tag
  <2>3. QED
    BY <2>1, <2>2 DEF RoutingTypeOK, ServerRoutes, Hops
<1>4. ASSUME NEW gw \in Hops, AddDefault(gw) PROVE restored' \subseteq Gateways
  BY <1>4 DEF AddDefault, RoutingTypeOK, Hops
<1>5. ASSUME NEW gw \in Hops, Restore(gw) PROVE RoutingTypeOK'
  <2>1. restored' \subseteq Gateways /\ tunDefault' \in BOOLEAN
    BY <1>4, <1>5 DEF Restore, RoutingTypeOK
  <2>2. undone' \subseteq {"server", "default", "tunnel"}
    BY <1>5 DEF Restore, Tag
  <2>3. QED
    BY <1>5, <2>1, <2>2 DEF Restore, RoutingTypeOK, plat
<1>6. CloseRoutes => RoutingTypeOK'
  BY <1>1, <1>5 DEF CloseRoutes, RoutingTypeOK
<1>7. Deactivate => RoutingTypeOK'
  BY <1>1, <1>4 DEF Deactivate, RoutingTypeOK, plat
<1>8. /\ DestroyRoutes \/ Activate \/ Move => RoutingTypeOK'
      /\ DropServerRoute \/ UNCHANGED routing => RoutingTypeOK'
  BY DEF DestroyRoutes, Activate, Move, DropServerRoute, RoutingTypeOK, routing, plat, table
<1>9. \A gw \in Hops : ServerRoute(gw) \/ RememberGateway(gw) => RoutingTypeOK'
  BY DEF ServerRoute, ServerRoutes, Tag, RememberGateway, RoutingTypeOK, plat, table
<1>10. QED
  BY <1>1, <1>2, <1>3, <1>6, <1>7, <1>8, <1>9

\* Everything but pc.
RestType ==
    /\ mu \in Callers \cup {Nobody}
    /\ running \in BOOLEAN /\ stopping \in BOOLEAN /\ reconnecting \in BOOLEAN
    /\ stopCh \in 0..MaxGen /\ closed \subseteq Gens
    /\ conn \in 0..MaxGen /\ session \in 0..MaxGen
    /\ dead \in BOOLEAN
    /\ status \in {"disconnected", "connecting", "connected", "reconnecting"}
    /\ held \in [Gens -> 0..MaxGen]
    /\ writer \in [Gens -> {"unborn", "top", "encrypt", "write", "ended"}]
    /\ loop \in [Selecting -> [Gens -> -2..MaxGen]]
    /\ crashed \in BOOLEAN
    /\ RoutingTypeOK
    /\ refresh \in [Gens -> [at : {"no", "route", "field"}, gw : Hops]]
    /\ crossed \in BOOLEAN /\ moves \in 0..MaxMoves

LEMMA StartTypes ==
    ASSUME TypeOK, CallsInv, NEW t \in Callers,
           StartEnter(t) \/ StartDial(t) \/ StartOpen(t) \/ StartSpawn(t)
    PROVE  TypeOK'
<1> USE Places
<1>1. t \notin Users /\ pc[t] \in InStart
  BY DEF StartEnter, StartDial, StartOpen, StartSpawn, TypeOK, StopperLabels, InStop, InStart
<1>2. {"failed", "dial", "open", "spawn", "done", "top"} \subseteq CallerLabels
  BY DEF CallerLabels, StopperLabels, InStart
<1>3. CASE StartEnter(t)
  <2>1. pc' \in [Callers -> CallerLabels] /\ \A u \in Users : pc'[u] \in StopperLabels
    BY <1>1, <1>2, <1>3, MovesPc DEF StartEnter
  <2>2. mu' \in Callers \cup {Nobody} /\ stopCh' \in 0..MaxGen /\ dead' \in BOOLEAN
        /\ status' \in {"disconnected", "connecting", "connected", "reconnecting"}
    <3>1. stopCh \in 0..MaxGen /\ mu \in Callers \cup {Nobody} /\ dead \in BOOLEAN
          /\ status \in {"disconnected", "connecting", "connected", "reconnecting"}
      BY DEF TypeOK
    <3>2. stopCh < MaxGen => stopCh + 1 \in 0..MaxGen
      BY <3>1
    <3>3. QED
      BY <1>3, <3>1, <3>2 DEF StartEnter
  <2>3. UNCHANGED <<running, stopping, reconnecting, closed, conn, session, held, writer, loop,
                    crashed, routing, refresh, crossed, moves>>
    BY <1>3 DEF StartEnter, flags, tunnel, loops, routes
  <2>4. QED
    BY <2>1, <2>2, <2>3, RoutingTypes DEF TypeOK
<1>4. CASE StartDial(t)
  <2>1. pc' \in [Callers -> CallerLabels] /\ \A u \in Users : pc'[u] \in StopperLabels
    BY <1>1, <1>2, <1>4, MovesPc DEF StartDial, Return
  <2>2. RestType'
    BY <1>4, RoutingTypes DEF StartDial, Return, TypeOK, RestType, flags, tunnel, loops, routes
  <2>3. QED
    BY <2>1, <2>2 DEF TypeOK, RestType
<1>5. CASE StartOpen(t)
  <2>1. pc' \in [Callers -> CallerLabels] /\ \A u \in Users : pc'[u] \in StopperLabels
    BY <1>1, <1>2, <1>5, MovesPc DEF StartOpen, Return
  <2>2. RoutingTypeOK'
    BY <1>5, RoutingTypes DEF StartOpen, OpenFails, TypeOK
  <2>3. RestType'
    BY <1>5, <2>2 DEF StartOpen, Return, TypeOK, RestType, flags, tunnel, loops, routes
  <2>4. QED
    BY <2>1, <2>3 DEF TypeOK, RestType
<1>6. CASE StartSpawn(t)
  <2>1. stopCh \in Gens /\ pc[stopCh] = "idle"
    BY <1>6 DEF StartSpawn, CallsInv, Channels
  <2>2. pc' \in [Callers -> CallerLabels] /\ \A u \in Users : pc'[u] \in StopperLabels
    BY <1>1, <1>2, <1>6, <2>1 DEF StartSpawn, TypeOK
  <2>3. writer' \in [Gens -> {"unborn", "top", "encrypt", "write", "ended"}]
    BY <1>6 DEF StartSpawn, Spawn, TypeOK
  <2>4. loop' \in [Selecting -> [Gens -> -2..MaxGen]]
    <3>1. AtTop \in -2..MaxGen
      BY DEF AtTop
    <3>2. ASSUME NEW l \in Selecting
          PROVE  [loop[l] EXCEPT ![stopCh] = AtTop] \in [Gens -> -2..MaxGen]
      BY <3>1 DEF TypeOK
    <3>3. QED
      BY <1>6, <3>2 DEF StartSpawn, Spawn
  <2>5. RestType'
    BY <1>6, <2>3, <2>4, RoutingTypes DEF StartSpawn, TypeOK, RestType, tunnel, routes
  <2>6. QED
    BY <2>2, <2>5 DEF TypeOK, RestType
<1>7. QED
  BY <1>3, <1>4, <1>5, <1>6

LEMMA StopTypes ==
    ASSUME TypeOK, CallsInv, NEW t \in Callers,
           \/ StopLock(t) \/ StopTunnel(t) \/ StopConn(t) \/ StopDone(t) \/ StopReturn(t)
           \/ \E label \in {"idle", "stop"} : CallStop(t, label)
    PROVE  TypeOK'
<1> USE Places
<1>1. {"stopLock", "closeTunnel", "closeConn", "stopped", "return", "done"}
          \subseteq StopperLabels \cap CallerLabels /\ "restart" \in CallerLabels
  BY DEF CallerLabels, StopperLabels, InStop, InReconnect
<1>2. AfterStop(t) \in CallerLabels /\ (t \in Users => AfterStop(t) \in StopperLabels)
  BY <1>1 DEF AfterStop
<1>3. pc' \in [Callers -> CallerLabels] /\ \A u \in Users : pc'[u] \in StopperLabels
  BY <1>1, <1>2, MovesPc DEF StopLock, StopTunnel, StopConn, StopDone, StopReturn, CallStop, Return
<1>4. CASE StopLock(t)
  <2>1. running => stopCh \in Gens
    BY DEF CallsInv, Whole
  <2>2. RestType'
    BY <1>4, <2>1, RoutingTypes DEF StopLock, TypeOK, RestType, tunnel, loops, routes
  <2>3. QED
    BY <1>3, <2>2 DEF TypeOK, RestType
<1>5. CASE StopTunnel(t) \/ StopConn(t) \/ StopReturn(t)
  <2>1. RoutingTypeOK'
    BY <1>5, RoutingTypes DEF StopTunnel, StopConn, StopReturn, TypeOK
  <2>2. RestType'
    BY <1>5, <2>1 DEF StopTunnel, StopConn, StopReturn, TypeOK, RestType, flags, tunnel, loops
  <2>3. QED
    BY <1>3, <2>2 DEF TypeOK, RestType
<1>6. CASE StopDone(t) \/ \E label \in {"idle", "stop"} : CallStop(t, label)
  <2>1. RestType'
    BY <1>6, RoutingTypes
       DEF StopDone, CallStop, Return, TypeOK, RestType, flags, tunnel, loops, routes
  <2>2. QED
    BY <1>3, <2>1 DEF TypeOK, RestType
<1>7. QED
  BY <1>4, <1>5, <1>6

LEMMA PingTypes ==
    ASSUME TypeOK, NEW g \in Gens,
           \/ PingTop(g) \/ PingJudge(g) \/ PingSelect(g) \/ ReconnectStop(g) \/ ReconnectStart(g)
    PROVE  TypeOK'
<1> USE Places
<1>1. {"top", "judge", "select", "reconnect", "stop", "start", "done"} \subseteq CallerLabels
  BY DEF CallerLabels, StopperLabels, InStart, InReconnect
<1>2. pc' \in [Callers -> CallerLabels] /\ \A u \in Users : pc'[u] \in StopperLabels
  BY <1>1, MovesPc DEF PingTop, PingJudge, PingSelect, ReconnectStop, ReconnectStart
<1>3. RestType'
  <2>1. CASE PingJudge(g)
    BY <2>1, RoutingTypes DEF PingJudge, Activate, TypeOK, RestType, flags, tunnel
  <2>2. CASE PingTop(g) \/ PingSelect(g) \/ ReconnectStop(g) \/ ReconnectStart(g)
    <3>1. /\ reconnecting' \in BOOLEAN
          /\ UNCHANGED <<mu, running, stopping, stopCh, closed, conn, session, dead, status,
                        held, writer, loop, crashed, routing, refresh, crossed, moves>>
      BY <2>2 DEF PingTop, PingSelect, ReconnectStop, ReconnectStart, TypeOK, flags, tunnel,
                  loops, routes
    <3>2. QED
      BY <3>1, RoutingTypes DEF TypeOK, RestType
  <2>3. QED
    BY <2>1, <2>2
<1>4. QED
  BY <1>2, <1>3 DEF TypeOK, RestType

LEMMA LoopType ==
    ASSUME TypeOK, NEW l \in Selecting, NEW g \in Gens, NEW where \in -2..MaxGen,
           LoopGoto(l, g, where)
    PROVE  loop' \in [Selecting -> [Gens -> -2..MaxGen]]
  BY DEF TypeOK, LoopGoto

LEMMA OtherTypes ==
    ASSUME TypeOK, OtherStep \/ UNCHANGED vars
    PROVE  TypeOK'
<1> USE Places
<1>1. UNCHANGED <<mu, running, stopping, reconnecting, stopCh, closed, conn, session, status,
                  pc, held>>
  BY Others DEF still, flags, tunnel
<1>2. -2..MaxGen = {Unborn, Ended} \cup 0..MaxGen /\ AtTop \in 0..MaxGen
  BY CallersAssumption DEF Unborn, Ended, AtTop
<1>3. ASSUME NEW g \in Gens, WriterStep(g) PROVE TypeOK'
  <2>1. writer' \in [Gens -> {"unborn", "top", "encrypt", "write", "ended"}]
    BY <1>3 DEF WriterStep, WriterTop, WriterEncrypt, WriterWrite, TypeOK
  <2>2. crashed' \in BOOLEAN /\ UNCHANGED <<dead, loop, routes>>
    BY <1>3 DEF WriterStep, WriterTop, WriterEncrypt, WriterWrite, TypeOK
  <2>3. QED
    BY <1>1, <2>1, <2>2, RoutingTypes DEF TypeOK, routes
<1>4. ASSUME NEW g \in Gens, ReaderStep(g) PROVE TypeOK'
  <2>1. loop' \in [Selecting -> [Gens -> -2..MaxGen]]
    BY <1>2, <1>4, LoopType DEF ReaderStep, ReaderTop, ReaderSelect, TypeOK
  <2>2. dead' \in BOOLEAN /\ UNCHANGED <<writer, crashed, routes>>
    BY <1>4 DEF ReaderStep, ReaderTop, ReaderSelect, TypeOK
  <2>3. QED
    BY <1>1, <2>1, <2>2, RoutingTypes DEF TypeOK, routes
<1>5. ASSUME NEW g \in Gens, RouteStep(g) PROVE TypeOK'
  <2>1. loop' \in [Selecting -> [Gens -> -2..MaxGen]]
    BY <1>2, <1>5, LoopType DEF RouteStep, RouteEnds, RouteTick, RouteTickTo, RouteAdd,
         RouteDone, TypeOK, routes
  <2>2. refresh' \in [Gens -> [at : {"no", "route", "field"}, gw : Hops]]
    <3> DEFINE R == [at : {"no", "route", "field"}, gw : Hops]
    <3>1. refresh \in [Gens -> R] /\ Detected \subseteq Hops /\ NoRefresh \in R
      BY RoutingTypes DEF TypeOK, NoRefresh, Hops
    <3>2. CASE RouteTick(g)
      BY <3>1, <3>2 DEF RouteTick, RouteTickTo
    <3>3. CASE RouteAdd(g)
      BY <3>1, <3>3 DEF RouteAdd
    <3>4. CASE RouteEnds(g) \/ RouteDone(g)
      BY <3>1, <3>4 DEF RouteEnds, RouteDone, routes
    <3>5. QED
      BY <1>5, <3>2, <3>3, <3>4 DEF RouteStep
  <2>3. RoutingTypeOK'
    BY <1>5, RoutingTypes
       DEF RouteStep, RouteEnds, RouteTick, RouteTickTo, RouteAdd,
         RouteDone, TypeOK, routes
  <2>4. crossed' \in BOOLEAN /\ UNCHANGED <<dead, writer, crashed, moves>>
    BY <1>5 DEF RouteStep, RouteEnds, RouteTick, RouteTickTo, RouteAdd,
         RouteDone, TypeOK, routes
  <2>5. QED
    BY <1>1, <2>1, <2>2, <2>3, <2>4 DEF TypeOK
<1>6. CASE LinkDies \/ GatewayMoves \/ UNCHANGED vars
  <2>1. dead' \in BOOLEAN /\ moves' \in 0..MaxMoves
    <3>1. dead \in BOOLEAN /\ moves \in 0..MaxMoves
      BY DEF TypeOK
    <3>2. moves < MaxMoves => moves + 1 \in 0..MaxMoves
      BY <3>1
    <3>3. QED
      BY <1>6, <3>1, <3>2 DEF LinkDies, GatewayMoves, vars, routes
  <2>2. RoutingTypeOK' /\ UNCHANGED <<writer, loop, crashed, refresh, crossed>>
    BY <1>6, RoutingTypes DEF LinkDies, GatewayMoves, TypeOK, vars, loops, routes
  <2>3. QED
    BY <1>1, <2>1, <2>2 DEF TypeOK
<1>7. QED
  BY <1>3, <1>4, <1>5, <1>6 DEF OtherStep

LEMMA TypesKept == ASSUME TypeOK, CallsInv, [Next]_vars PROVE TypeOK'
<1>1. ASSUME NEW t \in Callers, Locking(t) \/ CallerStep(t) PROVE TypeOK'
  BY <1>1, StartTypes, StopTypes DEF Locking, CallerStep
<1>2. ASSUME NEW t \in Users, CallStop(t, "idle") PROVE TypeOK'
  BY <1>2, StopTypes, Places
<1>3. ASSUME NEW g \in Gens, PingStep(g) PROVE TypeOK'
  BY <1>3, PingTypes, StopTypes, Places DEF PingStep
<1>4. QED
  BY <1>1, <1>2, <1>3, OtherTypes, Steps

-----------------------------------------------------------------------------
(* The loops of a running engine.                                           *)
LoopsWait ==
    /\ Alive(stopCh) /\ held[stopCh] \in {0, stopCh}
    /\ "writer" \in Loops => writer[stopCh] \notin {"unborn", "ended"}
    /\ \A l \in Selecting : loop[l][stopCh] \in {AtTop, stopCh}

\* A Stop is on its way, or shutdown is over.
Ending == In({"stopLock"}) \/ pc[Closer] = "done"

\* Nothing that would end a loop of the running engine is true before a Stop
\* is on its way.
LEMMA NothingEnds ==
    ASSUME TypeOK, CallsInv, HasLoops, running, ~Ending
    PROVE  /\ ~stopping /\ stopCh \in Gens /\ stopCh \notin closed /\ 0 \notin closed
           /\ conn = stopCh /\ session = stopCh /\ stopCh # 0 /\ stopCh # Opener
           /\ LoopsWait
<1>1. \A t \in Callers : pc[t] \notin InStop
  BY DEF CallsInv, NotYet, Ending, In, InStop, Locked
<1>2. ~stopping
  BY <1>1 DEF CallsInv, StoppingIsCalled, In
<1>3. stopCh \in Gens /\ stopCh \notin closed /\ conn = stopCh /\ session = stopCh
  BY DEF CallsInv, Whole, Ending
<1>4. 0 \notin closed /\ stopCh # 0
  BY <1>3 DEF TypeOK, Gens
<1>5. LoopsWait
  BY DEF HasLoops, LoopsWait, Ending
<1>6. QED
  BY <1>2, <1>3, <1>4, <1>5, Places

\* A caller's step that leaves the engine running and his generation alone.
LEMMA EndingStays ==
    ASSUME TypeOK, NEW t \in Callers, \A u \in Callers \ {t} : pc'[u] = pc[u],
           pc[t] \notin {"stopLock", "done"}, Ending
    PROVE  Ending'
  BY Places DEF Ending, In

LEMMA CallersLoops ==
    ASSUME TypeOK, CallsInv, HasLoops, NEW t \in Callers, Locking(t) \/ CallerStep(t)
    PROVE  HasLoops'
<1> USE Places
<1>1. CASE StartSpawn(t)
  <2>1. /\ pc'[stopCh] = "top" /\ stopCh' = stopCh /\ held' = held /\ stopCh \in Gens
        /\ held[stopCh] = 0
    BY <1>1 DEF StartSpawn, CallsInv, Channels, TypeOK
  <2>2. "writer" \in Loops => writer'[stopCh] = "top"
    BY <1>1, <2>1 DEF StartSpawn, Spawn, TypeOK
  <2>3. \A l \in Selecting : loop'[l][stopCh] = AtTop
    BY <1>1, <2>1 DEF StartSpawn, Spawn, TypeOK
  <2>4. QED
    BY <2>1, <2>2, <2>3 DEF HasLoops, Alive
<1>2. CASE StopReturn(t)
  <2>1. /\ pc[t] = "return" /\ t \in Users
        /\ pc'[t] = "done" /\ \A u \in Callers \ {t} : pc'[u] = pc[u]
        /\ UNCHANGED <<running, stopCh, held, writer, loop>>
    BY <1>2, Went DEF StopReturn, CallsInv, Roles, InStart, flags, loops
  <2>2. Ending => Ending'
    BY <2>1, EndingStays
  <2>3. ASSUME running, ~Ending PROVE LoopsWait'
    BY <2>1, <2>3, NothingEnds DEF LoopsWait, Alive
  <2>4. QED
    BY <2>1, <2>2, <2>3 DEF HasLoops, LoopsWait, Ending
<1>3. CASE StopLock(t)
  BY <1>3 DEF StopLock, HasLoops
<1>4. CASE StartEnter(t)
  BY <1>4 DEF StartEnter, HasLoops, CallsInv, NotYet, flags
<1>5. CASE StartDial(t) \/ StartOpen(t) \/ StopTunnel(t) \/ StopConn(t) \/ StopDone(t)
  BY <1>5, Alone DEF StartDial, StartOpen, StopTunnel, StopConn, StopDone, HasLoops, Locked, flags
<1>6. QED
  BY <1>1, <1>2, <1>3, <1>4, <1>5 DEF Locking, CallerStep

LEMMA PingLoops ==
    ASSUME TypeOK, CallsInv, HasLoops, NEW g \in Gens, PingStep(g)
    PROVE  HasLoops'
<1> USE Places
<1>1. CASE CallStop(g, "stop")
  BY <1>1, Went DEF CallStop, HasLoops, In
<1>2. CASE ReconnectStart(g)
  BY <1>2 DEF ReconnectStart, HasLoops, CallsInv, NotYet
<1>3. CASE PingTop(g) \/ PingJudge(g) \/ PingSelect(g) \/ ReconnectStop(g)
  <2>1. /\ UNCHANGED <<running, stopCh, writer, loop>>
        /\ pc[g] \notin {"stopLock", "done"} /\ \A u \in Callers \ {g} : pc'[u] = pc[u]
    BY <1>3, Went
       DEF PingTop, PingJudge, PingSelect, ReconnectStop, flags, loops
  <2>2. Ending => Ending'
    BY <2>1, EndingStays
  <2>3. ASSUME running, ~Ending PROVE pc'[stopCh] \in {pc[stopCh], "top", "judge", "select",
                                                       "reconnect", "stop"}
                                      /\ held'[stopCh] \in {0, stopCh}
    <3>1. /\ ~stopping /\ stopCh \in Gens /\ stopCh \notin closed /\ 0 \notin closed
          /\ held[stopCh] \in {0, stopCh}
      BY <2>3, NothingEnds DEF LoopsWait
    <3>2. CASE PingTop(g)
      BY <3>1, <3>2, Went DEF PingTop, loops
    <3>3. CASE PingJudge(g)
      BY <3>1, <3>3, Went DEF PingJudge, TypeOK
    <3>4. CASE PingSelect(g)
      BY <3>1, <3>4, Went DEF PingSelect, loops
    <3>5. CASE ReconnectStop(g)
      BY <3>1, <3>5, Went DEF ReconnectStop, loops
    <3>6. QED
      BY <1>3, <3>2, <3>3, <3>4, <3>5
  <2>4. ASSUME running, ~Ending PROVE LoopsWait'
    BY <2>1, <2>3, <2>4, NothingEnds DEF LoopsWait, Alive
  <2>5. QED
    BY <2>1, <2>2, <2>4 DEF HasLoops, LoopsWait, Ending
<1>4. QED
  BY <1>1, <1>2, <1>3 DEF PingStep

LEMMA OtherLoops ==
    ASSUME TypeOK, CallsInv, HasLoops, OtherStep \/ UNCHANGED vars
    PROVE  HasLoops'
<1> USE Places
<1>1. UNCHANGED <<running, stopCh, pc, held>>
  BY Others DEF still, flags
<1>2. Ending => Ending'
  BY <1>1 DEF Ending, In
<1>3. SUFFICES ASSUME running, ~Ending PROVE LoopsWait'
  BY <1>1, <1>2 DEF HasLoops, LoopsWait, Ending
<1>4. /\ ~stopping /\ stopCh \in Gens /\ stopCh \notin closed /\ 0 \notin closed
      /\ conn = stopCh /\ session = stopCh /\ stopCh # 0 /\ LoopsWait
  BY <1>3, NothingEnds
<1>5. SUFFICES /\ "writer" \in Loops => writer'[stopCh] \notin {"unborn", "ended"}
               /\ \A l \in Selecting : loop'[l][stopCh] \in {AtTop, stopCh}
  BY <1>1, <1>4 DEF LoopsWait, Alive
<1>6. CASE \E g \in Gens : WriterStep(g)
  BY <1>4, <1>6 DEF WriterStep, WriterTop, WriterEncrypt, WriterWrite, LoopsWait, TypeOK
<1>7. ASSUME NEW l \in Selecting, NEW g \in Gens, NEW where, LoopGoto(l, g, where),
             g = stopCh => where \in {AtTop, stopCh}
      PROVE  \A k \in Selecting : loop'[k][stopCh] \in {AtTop, stopCh}
  BY <1>4, <1>7 DEF LoopGoto, LoopsWait, TypeOK
<1>8. CASE \E g \in Gens : ReaderStep(g)
  <2>1. PICK g \in Gens : ReaderStep(g)
    BY <1>8
  <2>2. "reader" \in Selecting /\ writer' = writer
    BY <2>1 DEF ReaderStep, ReaderTop, ReaderSelect
  <2>3. g = stopCh => loop["reader"][g] \in {AtTop, stopCh}
    BY <1>4, <2>2 DEF LoopsWait
  <2>4. \E where : LoopGoto("reader", g, where) /\ (g = stopCh => where \in {AtTop, stopCh})
    <3>1. CASE ReaderTop(g)
      BY <1>4, <3>1 DEF ReaderTop
    <3>2. CASE ReaderSelect(g)
      BY <1>4, <2>3, <3>2, 0 \notin Gens DEF ReaderSelect, AtTop, Gens
    <3>3. QED
      BY <2>1, <3>1, <3>2 DEF ReaderStep
  <2>5. QED
    BY <1>4, <1>7, <2>2, <2>4 DEF LoopsWait
<1>9. CASE \E g \in Gens : RouteStep(g)
  <2>1. PICK g \in Gens : RouteStep(g)
    BY <1>9
  <2>2. "route" \in Selecting /\ writer' = writer
    BY <2>1 DEF RouteStep, RouteEnds, RouteTick, RouteTickTo, RouteAdd,
         RouteDone
  <2>3. g = stopCh => loop["route"][g] \in {AtTop, stopCh}
    BY <1>4, <2>2 DEF LoopsWait
  <2>4. loop' = loop \/ \E where : LoopGoto("route", g, where)
                                   /\ (g = stopCh => where \in {AtTop, stopCh})
    BY <1>3, <1>4, <2>1, <2>3 DEF RouteStep, RouteEnds, RouteTick, RouteTickTo, RouteAdd,
         RouteDone, AtTop
  <2>5. QED
    BY <1>4, <1>7, <2>2, <2>4 DEF LoopsWait
<1>10. CASE LinkDies \/ GatewayMoves \/ UNCHANGED vars
  BY <1>4, <1>10 DEF LinkDies, GatewayMoves, LoopsWait, vars, loops
<1>11. QED
  BY <1>6, <1>8, <1>9, <1>10 DEF OtherStep

LEMMA LoopsKept == ASSUME TypeOK, CallsInv, HasLoops, [Next]_vars PROVE HasLoops'
<1>1. ASSUME NEW t \in Users, CallStop(t, "idle") PROVE HasLoops'
  BY <1>1, Went, Places DEF CallStop, HasLoops, In
<1>2. QED
  BY <1>1, CallersLoops, PingLoops, OtherLoops, Steps

-----------------------------------------------------------------------------
(* The routes.  Most steps of a caller leave them alone, or only add a      *)
(* default route through a gateway, and a Stop that starts says so.         *)
LEMMA RoutesAlone ==
    ASSUME TypeOK, RoutesInv, NEW t \in Callers,
           \A u \in Callers \ {t} : pc'[u] = pc[u],
           pc[t] \notin {"failed", "spawn", "closeTunnel"},
           \/ t # Opener
           \/ pc[t] \in {"start", "dial"} /\ pc'[t] \in {"dial", "open", "failed"},
           UNCHANGED <<realGateway, ifIndex, server, refresh, crossed>>,
           tunDefault' => tunDefault, restored \subseteq restored',
           undone' = undone \/ (~tunDefault' /\ undone' = undone \ {"tunnel"}),
           running' = running \/ pc'[t] = "closeTunnel"
    PROVE  RoutesInv'
<1> USE Places
<1>1. In({"failed"}) => In({"failed"})'
  BY DEF In
<1>2. pc'[Opener] = "done" => pc[Opener] = "done"
  OBVIOUS
<1>3. TunDefaultGone'
  <2>1. In({"spawn", "closeTunnel"}) => In({"spawn", "closeTunnel"})'
    BY DEF In
  <2>2. pc'[t] = "closeTunnel" => In({"spawn", "closeTunnel"})'
    BY DEF In
  <2>3. QED
    BY <2>1, <2>2 DEF RoutesInv, TunDefaultGone
<1>4. pc'[Opener] = "failed" => In({"failed"})'
  BY DEF In
<1>5. pc[Opener] \in {"start", "dial", "open"} =>
          pc'[Opener] \in {"start", "dial", "open", "failed"}
  OBVIOUS
<1>6. GatewayKnown'
  BY <1>1, <1>4, <1>5 DEF RoutesInv, GatewayKnown, Refreshing
<1>7. DefaultRestored'
  <2>1. In({"closeTunnel"}) => In({"closeTunnel"})'
    BY DEF In
  <2>2. pc'[t] = "closeTunnel" => In({"closeTunnel"})'
    BY DEF In
  <2>3. "default" \in undone => "default" \in undone'
    OBVIOUS
  <2>4. QED
    BY <1>2, <2>1, <2>2, <2>3 DEF RoutesInv, DefaultRestored
<1>8. RouteIsField'
  <2>1. "server" \notin undone' => "server" \notin undone
    OBVIOUS
  <2>2. QED
    BY <1>1, <1>4, <1>5, <2>1 DEF RoutesInv, RouteIsField, Refreshing
<1>9. QED
  BY <1>3, <1>6, <1>7, <1>8 DEF RoutesInv

LEMMA StartOpenRoutes ==
    ASSUME TypeOK, CallsInv, RoutesInv, NEW t \in Callers, StartOpen(t)
    PROVE  RoutesInv'
<1> USE Places
<1>1. /\ pc[t] = "open" /\ pc'[t] \in {"spawn", "failed"} /\ ~running /\ running' = running
      /\ \A u \in Callers \ {t} : pc'[u] = pc[u]
      /\ \/ SetRoutes(TRUE) /\ pc'[t] = "spawn"
         \/ SetRoutes(FALSE) /\ pc'[t] = "failed"
         \/ (NoGatewayFound \/ NoAdapter) /\ pc'[t] = "failed"
      /\ (~crossed' => ~crossed /\ \A g \in Gens : ~Refreshing(g)) /\ refresh' = refresh
  <2>1. pc[t] = "open" /\ ~running /\ running' = running
        /\ (~crossed' => ~crossed /\ \A g \in Gens : ~Refreshing(g)) /\ refresh' = refresh
    BY Alone DEF StartOpen, flags, Locked
  <2>2. CASE SetRoutes(TRUE) /\ Goto(t, "spawn")
    <3>1. pc'[t] = "spawn" /\ \A u \in Callers \ {t} : pc'[u] = pc[u]
      BY <2>2, Went
    <3>2. QED
      BY <2>1, <2>2, <3>1
  <2>3. CASE OpenFails /\ Goto(t, "failed")
    <3>1. pc'[t] = "failed" /\ \A u \in Callers \ {t} : pc'[u] = pc[u]
      BY <2>3, Went
    <3>2. QED
      BY <2>1, <2>3, <3>1 DEF OpenFails
  <2>4. QED
    BY <2>2, <2>3 DEF StartOpen, Return
<1>2. tunDefault => "tunnel" \in undone
  <2>1. ~In({"spawn", "closeTunnel"})
    BY <1>1, Alone DEF In, Locked
  <2>2. QED
    BY <1>1, <2>1 DEF RoutesInv, TunDefaultGone
<1>3. pc'[t] = "failed" => In({"failed"})'
  BY DEF In
<1>4. ASSUME NEW opened \in BOOLEAN, SetRoutes(opened)
      PROVE  /\ realGateway' # NoGateway /\ restored' = restored
             /\ "server" \notin undone' => server' = {realGateway'}
             /\ tunDefault' => "tunnel" \in undone' \/ (opened /\ ifIndex')
             /\ "default" \in undone => "default" \in undone'
  BY <1>2, <1>4 DEF SetRoutes, Routed, Tag
<1>5. NoGatewayFound \/ NoAdapter => UNCHANGED <<ifIndex, server, tunDefault, restored, undone>>
  BY DEF NoGatewayFound, NoAdapter, table
<1>6. TunDefaultGone'
  BY <1>1, <1>2, <1>4, <1>5 DEF TunDefaultGone, In
<1>7. GatewayKnown'
  BY <1>1, <1>3, <1>4 DEF RoutesInv, GatewayKnown, Refreshing
<1>8. pc'[Opener] # "done" \/ (pc[Opener] = "done" /\ t # Opener)
  BY <1>1
<1>9. DefaultRestored'
  <2>1. restored' = restored /\ ("default" \in undone => "default" \in undone')
    BY <1>1, <1>4, <1>5
  <2>2. \A u \in Callers : pc[u] # "closeTunnel"
    BY <1>1, Alone DEF Locked
  <2>3. QED
    BY <1>1, <1>8, <2>1, <2>2 DEF RoutesInv, DefaultRestored, In
<1>10. RouteIsField'
  BY <1>1, <1>3, <1>4 DEF RouteIsField, Refreshing
<1>11. QED
  BY <1>6, <1>7, <1>9, <1>10 DEF RoutesInv

LEMMA StartSpawnRoutes ==
    ASSUME TypeOK, CallsInv, RoutesInv, NEW t \in Callers, StartSpawn(t)
    PROVE  RoutesInv'
<1> USE Places
<1>1. /\ pc[t] = "spawn" /\ running' = TRUE /\ stopCh \in Gens /\ pc[stopCh] = "idle"
      /\ pc'[t] = "done" /\ \A u \in Callers \ {t, stopCh} : pc'[u] = pc[u]
      /\ UNCHANGED <<realGateway, ifIndex, server, tunDefault, undone, refresh, crossed>>
  BY DEF StartSpawn, TypeOK, CallsInv, Channels, routes, routing, plat, table
<1>2. In({"failed"}) => In({"failed"})'
  BY <1>1 DEF In
<1>3. pc[Opener] \notin {"start", "dial", "open"}
  BY <1>1, Alone DEF CallsInv, Roles, Locked
<1>4. TunDefaultGone' /\ DefaultRestored'
  BY <1>1 DEF RoutesInv, TunDefaultGone, DefaultRestored
<1>5. GatewayKnown'
  BY <1>1, <1>2, <1>3 DEF RoutesInv, GatewayKnown, Refreshing
<1>6. RouteIsField'
  BY <1>1, <1>2, <1>3 DEF RoutesInv, RouteIsField, Refreshing
<1>7. QED
  BY <1>4, <1>5, <1>6 DEF RoutesInv

LEMMA StopTunnelRoutes ==
    ASSUME TypeOK, CallsInv, RoutesInv, NEW t \in Callers, StopTunnel(t)
    PROVE  RoutesInv'
<1> USE Places
<1>1. /\ pc[t] = "closeTunnel" /\ ~running /\ running' = running /\ t # Opener
      /\ pc'[t] = "closeConn" /\ \A u \in Callers \ {t} : pc'[u] = pc[u]
      /\ UNCHANGED <<realGateway, ifIndex, server, refresh, crossed>>
  BY Went, Alone DEF StopTunnel, CloseRoutes, Restore, CallsInv, Roles, InStart, Locked,
                     flags, plat
<1>2. /\ tunDefault' => tunDefault /\ (ifIndex \/ "tunnel" \in undone => "tunnel" \in undone')
      /\ restored' # {} \/ "default" \in undone'
      /\ "server" \in undone => "server" \in undone'
  BY DEF StopTunnel, CloseRoutes, Restore, Tag
<1>3. In({"failed"}) => In({"failed"})'
  BY <1>1 DEF In
<1>4. TunDefaultGone'
  BY <1>1, <1>2 DEF RoutesInv, TunDefaultGone
<1>5. GatewayKnown'
  BY <1>1, <1>3 DEF RoutesInv, GatewayKnown, Refreshing
<1>6. DefaultRestored'
  BY <1>2 DEF DefaultRestored
<1>7. RouteIsField'
  BY <1>1, <1>2, <1>3 DEF RoutesInv, RouteIsField, Refreshing
<1>8. QED
  BY <1>4, <1>5, <1>6, <1>7 DEF RoutesInv

LEMMA CallersRoutes ==
    ASSUME TypeOK, CallsInv, RoutesInv, NEW t \in Callers, Locking(t) \/ CallerStep(t)
    PROVE  RoutesInv'
<1> USE Places
<1>1. CASE StartEnter(t) \/ StartDial(t)
  <2>1. /\ pc[t] \in {"start", "dial"} /\ pc'[t] \in {"dial", "open", "failed"}
        /\ \A u \in Callers \ {t} : pc'[u] = pc[u]
        /\ UNCHANGED <<running, realGateway, ifIndex, server, refresh, crossed,
                       tunDefault, restored, undone>>
    BY <1>1, Went DEF StartEnter, StartDial, Return, flags, routes, routing, plat, table
  <2>2. QED
    BY <2>1, RoutesAlone
<1>2. CASE StopLock(t) \/ StopDone(t)
  <2>1. /\ pc[t] \in {"stopLock", "stopped"}
        /\ \A u \in Callers \ {t} : pc'[u] = pc[u]
        /\ running' = running \/ pc'[t] = "closeTunnel"
        /\ UNCHANGED <<realGateway, ifIndex, server, refresh, crossed, tunDefault, restored,
                       undone>>
    BY <1>2, Went DEF StopLock, StopDone, Return, flags, routes, routing, plat, table
  <2>2. t # Opener
    BY <2>1 DEF CallsInv, Roles, InStart
  <2>3. QED
    BY <2>1, <2>2, RoutesAlone
<1>3. CASE StopConn(t) \/ StopReturn(t)
  <2>1. /\ pc[t] \in {"closeConn", "return"} /\ running' = running
        /\ \A u \in Callers \ {t} : pc'[u] = pc[u]
        /\ UNCHANGED <<realGateway, ifIndex, server, refresh, crossed>>
        /\ (tunDefault' => tunDefault) /\ restored \subseteq restored'
        /\ undone' = undone \/ (~tunDefault' /\ undone' = undone \ {"tunnel"})
    BY <1>3, Went DEF StopConn, StopReturn, Deactivate, DestroyRoutes, AddDefault, flags, routing,
                      plat, table
  <2>2. t # Opener
    BY <2>1 DEF CallsInv, Roles, InStart
  <2>3. QED
    BY <2>1, <2>2, RoutesAlone
<1>4. QED
  BY <1>1, <1>2, <1>3, StartOpenRoutes, StartSpawnRoutes, StopTunnelRoutes
     DEF Locking, CallerStep

LEMMA CallStopRoutes ==
    ASSUME TypeOK, RoutesInv, NEW t \in Callers \ {Opener}, NEW label \in {"idle", "stop"},
           CallStop(t, label)
    PROVE  RoutesInv'
<1>1. /\ pc[t] = label /\ running' = running /\ \A u \in Callers \ {t} : pc'[u] = pc[u]
      /\ UNCHANGED <<realGateway, ifIndex, server, refresh, crossed, tunDefault, restored,
                     undone>>
  BY Went DEF CallStop, routes, routing, plat, table
<1>2. QED
  BY <1>1, RoutesAlone

LEMMA PingRoutes ==
    ASSUME TypeOK, CallsInv, RoutesInv, NEW g \in Gens, PingStep(g)
    PROVE  RoutesInv'
<1> USE Places
<1>1. CASE CallStop(g, "stop")
  BY <1>1, CallStopRoutes
<1>2. CASE \/ PingTop(g) \/ PingJudge(g) \/ PingSelect(g) \/ ReconnectStop(g)
           \/ ReconnectStart(g)
  <2>1. /\ pc[g] \in {"top", "judge", "select", "reconnect", "restart"} /\ running' = running
        /\ \A u \in Callers \ {g} : pc'[u] = pc[u]
        /\ UNCHANGED <<realGateway, ifIndex, server, refresh, crossed, tunDefault, restored,
                       undone>>
    BY <1>2, Went DEF PingTop, PingJudge, PingSelect, ReconnectStop, ReconnectStart, Activate,
                      flags, routes, routing, plat, table
  <2>2. QED
    BY <2>1, RoutesAlone
<1>3. QED
  BY <1>1, <1>2 DEF PingStep

(* The route monitor.                                                       *)
LEMMA RouteRoutes ==
    ASSUME TypeOK, CallsInv, RoutesInv, NEW g \in Gens, RouteStep(g)
    PROVE  RoutesInv'
<1> USE Places
<1> DEFINE R == [at : {"no", "route", "field"}, gw : Hops]
<1>1. /\ UNCHANGED <<running, pc>> /\ refresh \in [Gens -> R]
      /\ UNCHANGED <<ifIndex, tunDefault, restored>> /\ undone \ {"server"} = undone' \ {"server"}
  <2>1. UNCHANGED <<running, pc>> /\ refresh \in [Gens -> R]
    BY Others DEF OtherStep, still, flags, TypeOK
  <2>2. UNCHANGED <<ifIndex, tunDefault, restored>> /\ undone \ {"server"} = undone' \ {"server"}
    BY DEF RouteStep, RouteEnds, RouteTick, RouteTickTo, RouteAdd, RouteDone, ServerRoute,
           DropServerRoute, RememberGateway, Tag, routes, routing, plat, table
  <2>3. QED
    BY <2>1, <2>2
<1>2. TunDefaultGone' /\ DefaultRestored'
  BY <1>1 DEF RoutesInv, TunDefaultGone, DefaultRestored, In
<1>3. In({"failed"})' = In({"failed"})
  BY <1>1 DEF In
<1>4. CASE RouteEnds(g)
  BY <1>1, <1>2, <1>3, <1>4 DEF RouteEnds, RoutesInv, GatewayKnown, RouteIsField, Refreshing,
                                routes, routing, plat, table
<1>5. CASE RouteTick(g)
  <2>1. pc[Opener] \notin {"start", "dial", "open"}
    BY <1>5 DEF RouteTick, RouteTickTo, CallsInv, NotYet, Locked
  <2>2. In({"failed"}) \/ realGateway # NoGateway
    BY <2>1 DEF RoutesInv, GatewayKnown
  <2>3. PICK gw \in Detected : RouteTickTo(g, gw)
    BY <1>5 DEF RouteTick
  <2>4. realGateway' = realGateway /\ undone' = undone /\ ~Refreshing(g)
    BY <2>3 DEF RouteTickTo, DropServerRoute, routing, plat
  <2>5. CASE gw \in {NoGateway, realGateway}
    <3>1. refresh' = refresh /\ crossed' = crossed
      BY <2>3, <2>5 DEF RouteTickTo
    <3>2. In({"failed"}) \/ server' = server
      BY <2>2, <2>3, <2>5 DEF RouteTickTo, routing, table
    <3>3. GatewayKnown'
      BY <1>1, <1>3, <2>4, <3>1 DEF RoutesInv, GatewayKnown, Refreshing
    <3>4. RouteIsField'
      BY <1>1, <1>3, <2>4, <3>1, <3>2 DEF RoutesInv, RouteIsField, Refreshing
    <3>5. QED
      BY <1>2, <3>3, <3>4 DEF RoutesInv
  <2>6. CASE gw \notin {NoGateway, realGateway}
    <3>1. /\ refresh' = [refresh EXCEPT ![g] = [at |-> "route", gw |-> gw]]
          /\ crossed' = (crossed \/ \E h \in Gens \ {g} : Refreshing(h))
          /\ server' = server
      BY <2>3, <2>6 DEF RouteTickTo, routing, table
    <3>2. /\ refresh'[g].at = "route" /\ refresh'[g].gw # NoGateway
          /\ \A h \in Gens \ {g} : refresh'[h] = refresh[h]
      BY <1>1, <2>6, <3>1
    <3>3. GatewayKnown'
      BY <1>1, <1>3, <2>4, <3>2 DEF RoutesInv, GatewayKnown, Refreshing
    <3>4. ASSUME ~crossed', ~In({"failed"})
          PROVE  /\ \A h \in Gens : refresh[h].at = "no"
                 /\ "server" \notin undone => server = {realGateway}
      BY <2>1, <2>4, <3>1, <3>4 DEF RoutesInv, RouteIsField, Refreshing
    <3>5. RouteIsField'
      BY <1>1, <1>3, <2>4, <3>1, <3>2, <3>4 DEF RouteIsField, Refreshing
    <3>6. QED
      BY <1>2, <3>3, <3>5 DEF RoutesInv
  <2>7. QED
    BY <2>5, <2>6
<1>6. CASE RouteAdd(g)
  <2>1. /\ refresh[g].at = "route" /\ refresh' = [refresh EXCEPT ![g].at = "field"]
        /\ "server" \notin undone' => server' = {refresh[g].gw}
        /\ realGateway' = realGateway /\ crossed' = crossed
    BY <1>6 DEF RouteAdd, ServerRoute, Tag, plat
  <2>2. /\ refresh'[g].at = "field" /\ refresh'[g].gw = refresh[g].gw
        /\ \A h \in Gens \ {g} : refresh'[h] = refresh[h]
    BY <1>1, <2>1
  <2>3. GatewayKnown'
    BY <1>1, <1>3, <2>1, <2>2 DEF RoutesInv, GatewayKnown, Refreshing
  <2>4. RouteIsField'
    BY <1>3, <2>1, <2>2 DEF RoutesInv, RouteIsField, Refreshing
  <2>5. QED
    BY <1>2, <2>3, <2>4 DEF RoutesInv
<1>7. CASE RouteDone(g)
  <2>1. /\ refresh[g].at = "field" /\ refresh' = [refresh EXCEPT ![g] = NoRefresh]
        /\ realGateway' = refresh[g].gw /\ UNCHANGED <<server, undone, crossed>>
    BY <1>7 DEF RouteDone, RememberGateway, table
  <2>2. refresh'[g].at = "no" /\ \A h \in Gens \ {g} : refresh'[h] = refresh[h]
    BY <1>1, <2>1 DEF NoRefresh
  <2>3. GatewayKnown'
    BY <1>1, <1>3, <2>1, <2>2 DEF RoutesInv, GatewayKnown, Refreshing
  <2>4. RouteIsField'
    BY <1>3, <2>1, <2>2 DEF RoutesInv, RouteIsField, Refreshing
  <2>5. QED
    BY <1>2, <2>3, <2>4 DEF RoutesInv
<1>8. QED
  BY <1>4, <1>5, <1>6, <1>7 DEF RouteStep

LEMMA RoutesKept == ASSUME TypeOK, CallsInv, RoutesInv, [Next]_vars PROVE RoutesInv'
<1>1. ASSUME NEW t \in Users, CallStop(t, "idle") PROVE RoutesInv'
  BY <1>1, CallStopRoutes, Places
<1>2. ASSUME OtherStep \/ UNCHANGED vars, ~\E g \in Gens : RouteStep(g) PROVE RoutesInv'
  <2>1. UNCHANGED <<running, pc, plat, table, undone, refresh, crossed>>
    <3>1. UNCHANGED <<running, pc>>
      BY <1>2, Others DEF still, flags
    <3>2. UNCHANGED <<plat, table, undone, refresh, crossed>>
      BY <1>2 DEF OtherStep, WriterStep, WriterTop, WriterEncrypt, WriterWrite, ReaderStep,
                  ReaderTop, ReaderSelect, LinkDies, GatewayMoves, Move, vars, routes, routing
    <3>3. QED
      BY <3>1, <3>2
  <2>2. QED
    BY <2>1 DEF RoutesInv, TunDefaultGone, GatewayKnown, DefaultRestored, RouteIsField,
                Refreshing, In, plat, table
<1>3. QED
  BY <1>1, <1>2, CallersRoutes, PingRoutes, RouteRoutes, Steps DEF OtherStep

-----------------------------------------------------------------------------
LEMMA Initially == Init => IInv
<1> SUFFICES ASSUME Init PROVE IInv
  OBVIOUS
<1> USE Places
<1>1. pc[Opener] = "start" /\ \A t \in Callers \ {Opener} : pc[t] = "idle"
  BY DEF Init
<1>2. RoutingTypeOK
  BY DEF Init, RoutingInit, RoutingTypeOK, Hops
<1>3. TypeOK
  <2>1. pc \in [Callers -> CallerLabels] /\ \A t \in Users : pc[t] \in StopperLabels
    BY <1>1 DEF Init, CallerLabels, StopperLabels, InStart
  <2>2. loop \in [Selecting -> [Gens -> -2..MaxGen]]
    BY DEF Init, Unborn
  <2>3. /\ held \in [Gens -> 0..MaxGen] /\ stopCh \in 0..MaxGen /\ conn \in 0..MaxGen
        /\ session \in 0..MaxGen /\ moves \in 0..MaxMoves
    BY DEF Init
  <2>4. refresh \in [Gens -> [at : {"no", "route", "field"}, gw : Hops]]
    BY DEF Init, NoRefresh, Hops
  <2>5. QED
    BY <1>2, <2>1, <2>2, <2>3, <2>4 DEF Init, TypeOK
<1>4. Roles /\ Mutex /\ NotYet /\ OnePinger /\ AfterFailure
  BY <1>1 DEF Init, Roles, Mutex, NotYet, OnePinger, AfterFailure, In, Alive, InStart, Locked
<1>5. Channels /\ Building /\ Whole /\ Gone
  BY <1>1 DEF Init, Channels, Building, Whole, Gone
<1>6. StoppingIsCalled /\ ReconnectingIsCalled /\ StatusFollows /\ HasLoops
  BY DEF Init, StoppingIsCalled, ReconnectingIsCalled, StatusFollows, HasLoops
<1>7. RoutesInv
  BY <1>1 DEF Init, RoutingInit, RoutesInv, TunDefaultGone, GatewayKnown, DefaultRestored,
              RouteIsField, Refreshing, NoRefresh, In
<1>8. QED
  BY <1>3, <1>4, <1>5, <1>6, <1>7 DEF IInv, CallsInv

-----------------------------------------------------------------------------
(* The theorems.                                                            *)
(***************************************************************************)
(* The invariant holds in every reachable state, for any callers, any      *)
(* number of generations and of changes of the gateway.                    *)
(***************************************************************************)
THEOREM Invariance == Spec => []IInv
<1>1. IInv /\ [Next]_vars => IInv'
  BY CallsKept, TypesKept, LoopsKept, RoutesKept DEF IInv
<1>2. QED
  BY <1>1, Initially, PTL DEF Spec

\* Every variable of the engine and of the routes keeps its type; in particular
\* no channel of a generation that was never begun is closed.
THEOREM TypeCorrect == Spec => []TypeOK
  BY Invariance, PTL DEF IInv

\* While IsRunning says TRUE the stop channel is open, so that Stop never closes
\* one twice, and connection and session are those of the last Start; after the
\* last call a stopped engine holds neither (Start and Stop of core/vpn.go).
THEOREM RunningEngineIsWhole == Spec => []RunningIsWhole
<1>1. CallsInv => RunningIsWhole
  BY DEF CallsInv, Whole, Gone, RunningIsWhole, Quiet, NoFailure, In, InStart, InStop
<1>2. QED
  BY <1>1, Invariance, PTL DEF IInv

\* No loop of a running engine has returned, although the loops test the flag
\* stopping, which belongs to no generation, and read v.stopCh anew each time.
THEOREM LoopsAreThere == Spec => []Manned
<1>1. TypeOK /\ CallsInv /\ HasLoops => Manned
  <2>1. CallsInv /\ running => stopCh \in Gens
    BY DEF CallsInv, Whole
  <2>2. QED
    BY <2>1, CallersAssumption DEF HasLoops, Manned, Alive, AtTop, Gens
<1>2. QED
  BY <1>1, Invariance, PTL DEF IInv

\* The ping loop that restarts the engine ends before the one it spawned finds
\* the link dead: there are never two that could run Reconnect.
THEOREM OnePingLoop == Spec => []OnePinger
  BY Invariance, PTL DEF IInv, CallsInv

\* The status the listener was last given is that of the engine when no call is
\* under way, although Stop says nothing while reconnecting is set; the emission at
\* the end of DoDisconnect may have come last, while a Reconnect ran the engine
\* again.
THEOREM StatusIsHonest == Spec => []StatusHonest
<1>1. CallsInv => StatusHonest
  <2>1. ASSUME CallsInv, Quiet, NoFailure, pc[Opener] = "done"
        PROVE  \/ status = IF running THEN "connected" ELSE "disconnected"
               \/ running /\ \E t \in Stoppers : pc[t] = "done"
    <3>1. \A g \in Gens : pc[g] \notin InReconnect \cup InStop
      BY <2>1, Places DEF Quiet, In
    <3>2. ~In({"closeTunnel", "closeConn", "stopped", "failed"} \cup InStart)
      BY <2>1 DEF Quiet, NoFailure, In, InStop
    <3>3. QED
      BY <2>1, <3>1, <3>2 DEF CallsInv, StatusFollows, InReconnect, InStop
  <2>2. QED
    BY <2>1 DEF StatusHonest
<1>2. QED
  BY <1>1, Invariance, PTL DEF IInv

\* Whichever call stopped the engine, a default route into the tunnel is left, or
\* none through a gateway was added, only where the command for it failed or the
\* session did not start (closeTunnel, destroyTunnel, openTunnel).
THEOREM TrafficGivenBack == Spec => []RoutesGivenBack
<1>1. RoutesInv => RoutesGivenBack
  BY DEF RoutesInv, TunDefaultGone, DefaultRestored, RoutesGivenBack, Quiet, In, InStart, InStop
<1>2. QED
  BY <1>1, Invariance, PTL DEF IInv

\* refreshServerRoute compares with what it set: between refreshs that met no
\* other and no Start, and unless the last commands for it failed, there is one
\* route to the server and plat.realGateway is its gateway.
THEOREM FieldFollowsRoute == Spec => []FieldIsRoute
<1>1. CallsInv /\ RoutesInv => FieldIsRoute
  BY Places DEF CallsInv, AfterFailure, NotYet, Locked, RoutesInv, RouteIsField, FieldIsRoute,
                Refreshing
<1>2. QED
  BY <1>1, Invariance, PTL DEF IInv
=============================================================================
