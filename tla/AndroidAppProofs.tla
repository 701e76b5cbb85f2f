--------------------------- MODULE AndroidAppProofs ---------------------------
(***************************************************************************)
(* Proofs about AndroidApp for any configurations and any number of starts *)
(* and events: no descriptor is closed twice, and, as long as no stop or   *)
(* start overlaps another, the service and the screen tell the truth about *)
(* the engines.                                                            *)
(***************************************************************************)
EXTENDS AndroidApp, FiniteSetTheorems, WellFoundedInduction, TLAPS

USE BoundsAssumption

(***************************************************************************)
(* The inductive invariant, part by part.                                  *)
(***************************************************************************)
\* A descriptor belongs to its thread, then to an os.File, which closes it.
Descriptors ==
    /\ owned = 0
    /\ \A s \in Starts :
           /\ thread[s] \in {"check", "file"} => file[s] = "fd"
           /\ file[s] = "none" => thread[s] = "none"
           /\ file[s] # "closed" => closes[s] = 0
    /\ FdClosedOnce

\* Flags of an engine and the place of its ping loop.  Whoever stopped the engine
\* has let go of the tunnel of its own start, which comes only once.
Engines == \A e \in Starts :
    /\ ping[e] # "none" => thread[e] \in {"publish", "done"}
    /\ engine[e].running => ~engine[e].stopped /\ ping[e] \in {"wait", "judge", "stop"}
    /\ Locked(e) => ~engine[e].stopped
    /\ ping[e] # "none" /\ ~engine[e].running => tunFile # e

\* The tunnels plat.tunFile has held so far.  Each Start of an engine uses up one,
\* so that MaxStarts bounds the Starts of each engine too.
Tunnels == {s \in Starts : file[s] \notin {"none", "fd"}}
Credit == \A e \in Starts :
    /\ engine[e].gens <= Cardinality(Tunnels)
    /\ ~engine[e].running /\ tunFile # 0 => engine[e].gens < Cardinality(Tunnels)
    /\ Locked(e) => engine[e].gens < Cardinality(Tunnels)

(***************************************************************************)
(* What is true as long as nothing has overlapped.                         *)
(***************************************************************************)
OneStart == \A s, t \in Starts : UnderWay(s) /\ UnderWay(t) => s = t

\* While the main thread is busy, or the service down, nothing runs or starts.
Asleep == main # Idle \/ ~service.up => ~Startup /\ \A e \in Starts : ~engine[e].running

\* globalVPN is the engine that runs.
Known == \A e \in Starts : engine[e].running =>
    thread[e] = "publish" \/ (thread[e] = "done" /\ globalVPN = e)

\* While a ping loop is about nobody else starts; an engine that was stopped finds
\* no tunnel.
Last == \A e \in Starts : ping[e] # "none" =>
    /\ \A s \in Starts \ {e} : ~UnderWay(s)
    /\ ~engine[e].running => tunFile = 0
    /\ ping[e] # "dial"

Ordered == OneStart /\ Asleep /\ Known /\ Last
NoOverlap == ~overlap => Ordered

IInv == TypeOK /\ Descriptors /\ Engines /\ Credit /\ NoOverlap

-----------------------------------------------------------------------------
(* The types by name.                                                       *)
Items == [kind : {"start"}, cfg : Configs] \cup [kind : {"STOP"}] \cup [kind : {"post"}, of : Starts]
Mains == [pc : {"idle", "clear", "rest", "establish"},
          next : {"", "intent", "stopped", "restart", "destroyed"}]
Services == [up : BOOLEAN, cfg : Configs \cup {""}, doomed : BOOLEAN]
States == {"none", "fd", "open", "closing", "closed"}
EngineStates == [running : BOOLEAN, conn : BOOLEAN, stopped : BOOLEAN, gens : 0..MaxStarts]
PingLabels == {"none", "wait", "judge", "stop", "open", "dial"}
Writers == Starts \X Starts
WriterStates == [pc : {"none", "top", "read", "send"}, fd : 0..MaxStarts]

AppType ==
    /\ queue \in Seq(Items) /\ main \in Mains /\ service \in Services
    /\ owned \in 0..MaxStarts /\ live \subseteq Starts
    /\ events \in 0..MaxEvents /\ overlap \in BOOLEAN
CoreType ==
    /\ globalVPN \in 0..MaxStarts /\ tunFile \in 0..MaxStarts
    /\ file \in [Starts -> States] /\ closes \in [Starts -> Nat]
LoopType ==
    /\ thread \in [Starts -> Labels]
    /\ engine \in [Starts -> EngineStates] /\ ping \in [Starts -> PingLabels]
    /\ writer \in [Writers -> WriterStates]

LEMMA Types == TypeOK <=> AppType /\ CoreType /\ LoopType
  BY DEF TypeOK, AppType, CoreType, LoopType, Items, Mains, Services, States, EngineStates,
         PingLabels, Writers, WriterStates

LEMMA TypesNext == AppType' /\ CoreType' /\ LoopType' => TypeOK'
  BY DEF TypeOK, AppType, CoreType, LoopType, Items, Mains, Services, States, EngineStates,
         PingLabels, Writers, WriterStates

LEMMA Busy == main.pc # "idle" => main # Idle
<1>1. Idle.pc = "idle"
  BY DEF Idle
<1>2. QED
  BY <1>1

LEMMA Numbers == /\ Starts \subseteq 0..MaxStarts /\ 0 \in 0..MaxStarts /\ 0 \notin Starts
                 /\ \A n \in 0..MaxStarts : n # 0 => n \in Starts
                 /\ Starts \subseteq Nat
  BY DEF Starts

(***************************************************************************)
(* Each kind of variable by itself.                                        *)
(***************************************************************************)
\* What becomes of descriptors that belong to an os.File.
FilesGoOn ==
    /\ file' \in [Starts -> States] /\ closes' \in [Starts -> Nat]
    /\ \A s \in Starts :
           \/ file'[s] = file[s] /\ closes'[s] = closes[s]
           \/ file[s] = "open" /\ file'[s] = "closing" /\ closes'[s] = closes[s]
           \/ /\ file[s] \in {"open", "closing"} /\ file'[s] = "closed"
              /\ closes'[s] = closes[s] + 1

LEMMA FilesKept ==
    ASSUME Descriptors, FilesGoOn, owned' = 0, CoreType,
           \A s \in Starts : thread'[s] = thread[s]
                             \/ (thread'[s] \notin {"check", "file"} /\ thread[s] # "none")
                             \/ (thread'[s] = "file" /\ thread[s] = "check")
    PROVE  Descriptors' /\ Tunnels' = Tunnels
<1>1. ASSUME NEW s \in Starts
      PROVE  /\ thread'[s] \in {"check", "file"} => file'[s] = "fd"
             /\ file'[s] = "none" => thread'[s] = "none"
             /\ file'[s] # "closed" => closes'[s] = 0
             /\ closes'[s] <= 1
             /\ file'[s] \in {"none", "fd"} <=> file[s] \in {"none", "fd"}
  BY <1>1 DEF Descriptors, FilesGoOn, FdClosedOnce, CoreType
<1>2. QED
  BY <1>1 DEF Descriptors, FdClosedOnce, Tunnels

LEMMA TunnelCount ==
    /\ IsFiniteSet(Tunnels) /\ Cardinality(Tunnels) \in 0..MaxStarts
    /\ \A s \in Starts : file[s] = "fd" => Cardinality(Tunnels \cup {s}) = Cardinality(Tunnels) + 1
<1>1. IsFiniteSet(Starts) /\ Cardinality(Starts) = MaxStarts
  BY FS_Interval DEF Starts
<1>2. Tunnels \subseteq Starts
  BY DEF Tunnels
<1>3. IsFiniteSet(Tunnels) /\ Cardinality(Tunnels) \in Nat /\ Cardinality(Tunnels) <= MaxStarts
  BY <1>1, <1>2, FS_Subset, FS_CardinalityType
<1>4. ASSUME NEW s \in Starts, file[s] = "fd"
      PROVE  Cardinality(Tunnels \cup {s}) = Cardinality(Tunnels) + 1
  BY <1>3, <1>4, FS_AddElement DEF Tunnels
<1>5. QED
  BY <1>3, <1>4

(***************************************************************************)
(* The engine's Stop and Start.                                            *)
(***************************************************************************)
LEMMA CloseFacts ==
    ASSUME CoreType, CloseTunFile
    PROVE  FilesGoOn /\ tunFile' = 0
<1>1. CASE tunFile = 0 \/ file[tunFile] # "open"
  BY <1>1 DEF CloseTunFile, FilesGoOn, CoreType
<1>2. CASE tunFile # 0 /\ file[tunFile] = "open"
  <2>1. tunFile \in Starts
    BY <1>2, Numbers DEF CoreType
  <2>2. QED
    BY <1>2, <2>1 DEF CloseTunFile, FilesGoOn, CoreType, States
<1>3. QED
  BY <1>1, <1>2

LEMMA StopFacts ==
    ASSUME CoreType, LoopType, NEW e \in Starts, Stop(e)
    PROVE  /\ FilesGoOn /\ tunFile' \in 0..MaxStarts
           /\ engine' \in [Starts -> EngineStates]
           /\ \A d \in Starts : engine'[d].gens = engine[d].gens
           /\ \A d \in Starts \ {e} : engine'[d] = engine[d]
           /\ ~engine'[e].running /\ ~Locked(e)
           /\ \/ engine' = engine /\ tunFile' = tunFile /\ ~engine[e].running
              \/ tunFile' = 0
<1>1. ~Locked(e)
  BY DEF Stop
<1>2. CASE engine[e].running
  <2>1. engine' = [engine EXCEPT ![e].running = FALSE, ![e].conn = FALSE, ![e].stopped = TRUE]
        /\ CloseTunFile
    BY <1>2 DEF Stop
  <2>2. /\ engine' \in [Starts -> EngineStates] /\ ~engine'[e].running
        /\ \A d \in Starts : engine'[d].gens = engine[d].gens
        /\ \A d \in Starts \ {e} : engine'[d] = engine[d]
    BY <2>1 DEF LoopType, EngineStates
  <2>3. QED
    BY <1>1, <2>1, <2>2, CloseFacts, Numbers
<1>3. CASE ~engine[e].running
  BY <1>1, <1>3 DEF Stop, FilesGoOn, CoreType, LoopType
<1>4. QED
  BY <1>2, <1>3

LEMMA RunFacts ==
    ASSUME LoopType, Credit, NEW e \in Starts, Locked(e), StartRuns(e)
    PROVE  /\ engine' \in [Starts -> EngineStates] /\ writer' \in [Writers -> WriterStates]
           /\ engine'[e].running /\ engine'[e].stopped = engine[e].stopped
           /\ engine'[e].gens = engine[e].gens + 1
           /\ \A d \in Starts \ {e} : engine'[d] = engine[d]
<1> DEFINE g == engine[e].gens + 1
<1>1. engine[e].gens \in 0..MaxStarts /\ g \in Starts
  BY TunnelCount DEF LoopType, EngineStates, Credit, Starts
<1>2. engine' = [engine EXCEPT ![e].running = TRUE, ![e].conn = TRUE, ![e].gens = g]
      /\ writer' = [writer EXCEPT ![<<e, g>>] = [pc |-> "top", fd |-> 0]]
  BY DEF StartRuns
<1>3. writer' \in [Writers -> WriterStates]
  BY <1>1, <1>2, Numbers DEF LoopType, Writers, WriterStates
<1>4. QED
  BY <1>1, <1>2, <1>3, Numbers DEF LoopType, EngineStates

LEMMA OpenFacts ==
    ASSUME LoopType, NEW e \in Starts, StartOpens(e)
    PROVE  /\ engine' \in [Starts -> EngineStates]
           /\ ~engine'[e].stopped /\ engine'[e].running = engine[e].running
           /\ engine'[e].gens = engine[e].gens
           /\ \A d \in Starts \ {e} : engine'[d] = engine[d]
  BY DEF StartOpens, LoopType, EngineStates

-----------------------------------------------------------------------------
(* The main thread.                                                         *)
LEMMA StopVPNKeeps ==
    ASSUME IInv, NEW next \in {"", "intent", "stopped", "restart", "destroyed"}, StopVPN(next),
           queue' \in Seq(Items), service' \in Services, events' \in 0..MaxEvents
    PROVE  IInv'
<1> USE Numbers
<1>1. AppType /\ CoreType /\ LoopType
  BY Types DEF IInv
<1>2. /\ UNCHANGED <<owned, live, thread, globalVPN, ping, writer>>
      /\ main' = [pc |-> IF globalVPN = 0 THEN "rest" ELSE "clear", next |-> next]
      /\ overlap' = (overlap \/ Startup)
  BY DEF StopVPN
<1>3. /\ FilesGoOn /\ tunFile' \in 0..MaxStarts
      /\ engine' \in [Starts -> EngineStates]
      /\ \A d \in Starts : engine'[d].gens = engine[d].gens
      /\ \A d \in Starts : \/ engine'[d] = engine[d]
                           \/ d = globalVPN /\ ~engine'[d].running /\ ~Locked(d)
      /\ globalVPN \in Starts => ~engine'[globalVPN].running
      /\ \/ engine' = engine /\ tunFile' = tunFile
         \/ tunFile' = 0
  <2>1. CASE globalVPN = 0
    BY <1>1, <2>1 DEF StopVPN, FilesGoOn, CoreType, LoopType
  <2>2. CASE globalVPN # 0
    <3>1. globalVPN \in Starts /\ Stop(globalVPN)
      BY <1>1, <2>2 DEF StopVPN, CoreType
    <3>2. QED
      BY <1>1, <3>1, StopFacts
  <2>3. QED
    BY <2>1, <2>2
<1>4. TypeOK'
  <2>1. main' \in Mains
    BY <1>2 DEF Mains
  <2>2. overlap' \in BOOLEAN
    BY <1>1, <1>2 DEF AppType
  <2>3. QED
    BY <1>1, <1>2, <1>3, <2>1, <2>2, TypesNext DEF AppType, CoreType, LoopType, FilesGoOn
<1>5. Descriptors' /\ Tunnels' = Tunnels
  BY <1>1, <1>2, <1>3, FilesKept DEF IInv, Descriptors
<1>6. \A s \in Starts : UnderWay(s)' = UnderWay(s) /\ Locked(s)' = Locked(s)
  BY <1>2 DEF UnderWay, Locked
<1>7. Engines'
  BY <1>2, <1>3, <1>6 DEF IInv, Engines
<1>8. Credit'
  BY <1>3, <1>5, <1>6 DEF IInv, Credit
<1>9. NoOverlap'
  <2>1. SUFFICES ASSUME ~overlap' PROVE Ordered'
    BY DEF NoOverlap
  <2>2. ~overlap /\ Ordered /\ ~Startup
    BY <1>2, <2>1 DEF IInv, NoOverlap
  <2>3. \A e \in Starts : ~UnderWay(e) /\ ~UnderWay(e)'
    BY <1>6, <2>2 DEF Startup
  <2>4. \A e \in Starts : ~engine'[e].running
    BY <1>3, <2>2, <2>3 DEF Ordered, Known, UnderWay
  <2>5. \A e \in Starts : ping'[e] # "none" => tunFile' = 0
    BY <1>2, <1>3, <2>2, <2>4 DEF Ordered, Last
  <2>6. \A e \in Starts : ping'[e] # "none" => ping'[e] # "dial"
    BY <1>2, <2>2 DEF Ordered, Last
  <2>7. QED
    BY <2>3, <2>4, <2>5, <2>6 DEF Ordered, OneStart, Asleep, Known, Last, Startup
<1>10. QED
  BY <1>4, <1>5, <1>7, <1>8, <1>9 DEF IInv

\* What leaves the threads, the engines and the core alone, or clears globalVPN
\* when nothing runs: the other steps of the main thread.
LEMMA MainAlone ==
    ASSUME IInv, AppType', owned' = 0, closes' = closes, UNCHANGED <<thread, tunFile, file, loops, overlap>>,
           globalVPN' \in {0, globalVPN},
           ~overlap => \/ /\ globalVPN' = globalVPN
                          /\ main' # Idle \/ ~service'.up => main # Idle \/ ~service.up
                       \/ main # Idle
    PROVE  IInv'
<1>1. AppType /\ CoreType /\ LoopType
  BY Types DEF IInv
<1>2. UNCHANGED <<thread, tunFile, file, engine, ping, writer, overlap>>
  BY DEF loops
<1>3. TypeOK'
  BY <1>1, <1>2, TypesNext, Numbers DEF CoreType, LoopType
<1>4. FilesGoOn
  BY <1>1, <1>2 DEF FilesGoOn, CoreType
<1>5. Descriptors' /\ Tunnels' = Tunnels
  BY <1>1, <1>2, <1>4, FilesKept DEF IInv
<1>6. Engines' /\ Credit'
  BY <1>2, <1>5 DEF IInv, Engines, Credit, Locked
<1>7. NoOverlap'
  <2>1. SUFFICES ASSUME ~overlap PROVE Ordered'
    BY <1>2 DEF NoOverlap
  <2>2. OneStart /\ Asleep /\ Known /\ Last
    BY <2>1 DEF IInv, NoOverlap, Ordered
  <2>3. OneStart' /\ Last'
    BY <1>2, <2>2 DEF OneStart, Last, UnderWay
  <2>4. Asleep'
    BY <1>2, <2>1, <2>2 DEF Asleep, Startup, UnderWay
  <2>5. Known'
    BY <1>2, <2>1, <2>2 DEF Known, Asleep, Startup
  <2>6. QED
    BY <2>3, <2>4, <2>5 DEF Ordered
<1>8. QED
  BY <1>3, <1>5, <1>6, <1>7 DEF IInv

LEMMA ItemTypes ==
    ASSUME queue \in Seq(Items)
    PROVE  /\ queue # <<>> => Head(queue) \in Items /\ Tail(queue) \in Seq(Items)
           /\ \A m \in Items : Append(queue, m) \in Seq(Items)
           /\ \A m \in Items : m.kind = "start" => m.cfg \in Configs
           /\ \A c \in Configs : [kind |-> "start", cfg |-> c] \in Items
           /\ [kind |-> "STOP"] \in Items
           /\ \A s \in Starts : [kind |-> "post", of |-> s] \in Items
<1>1. queue # <<>> => Head(queue) \in Items /\ Tail(queue) \in Seq(Items)
  OBVIOUS
<1>2. \A m \in Items : Append(queue, m) \in Seq(Items)
  OBVIOUS
<1>3. QED
  BY <1>1, <1>2 DEF Items

LEMMA Asks ==
    ASSUME IInv, StopButton \/ OnRevoke \/ \E c \in Configs : StartButton(c)
    PROVE  IInv'
<1>1. AppType /\ main = Idle /\ events' \in 0..MaxEvents
  <2>1. AppType
    BY Types DEF IInv
  <2>2. Asked
    BY DEF StopButton, OnRevoke, StartButton
  <2>3. events \in 0..MaxEvents /\ events < MaxEvents /\ events' = events + 1
    BY <2>1, <2>2 DEF AppType, Asked
  <2>4. QED
    BY <2>1, <2>2, <2>3 DEF Asked
<1>2. CASE StopButton \/ OnRevoke
  BY <1>1, <1>2, StopVPNKeeps DEF StopButton, OnRevoke, AppType
<1>3. CASE \E c \in Configs : StartButton(c)
  <2>1. /\ UNCHANGED <<main, service, owned, live, thread, core, loops, overlap>>
        /\ queue' \in Seq(Items)
    BY <1>1, <1>3, ItemTypes DEF StartButton, AppType
  <2>2. AppType'
    BY <1>1, <2>1 DEF AppType
  <2>3. QED
    BY <1>1, <2>1, <2>2, MainAlone DEF IInv, Descriptors, core
<1>4. QED
  BY <1>2, <1>3

LEMMA MainRuns ==
    ASSUME IInv, \/ StopClears \/ MainGoesOn \/ OnStop \/ OnPost \/ OnStart \/ OnDestroy
                 \/ EstablishFails
    PROVE  IInv'
<1>1. AppType /\ owned = 0
  BY Types DEF IInv, Descriptors
<1>2. ASSUME NEW kind, Handle(kind)
      PROVE  /\ main = Idle /\ queue' \in Seq(Items) /\ Head(queue) \in Items
             /\ Head(queue).kind = kind
  BY <1>1, <1>2, ItemTypes DEF Handle, AppType
<1>3. CASE StopClears
  <2>1. /\ main.pc = "clear" /\ main' = [main EXCEPT !.pc = "rest"] /\ globalVPN' = 0
        /\ UNCHANGED <<queue, service, owned, live, thread, tunFile, file, closes, loops, events,
                       overlap>>
    BY <1>3 DEF StopClears, history
  <2>2. AppType'
    BY <1>1, <2>1 DEF AppType, Mains
  <2>3. main # Idle
    BY <2>1, Busy
  <2>4. QED
    BY <1>1, <2>1, <2>2, <2>3, MainAlone
<1>4. CASE MainGoesOn
  <2>1. /\ main.pc = "rest" /\ closes' = closes /\ owned' = 0
        /\ UNCHANGED <<thread, globalVPN, tunFile, file, loops, events, overlap>>
    BY <1>1, <1>4 DEF MainGoesOn, CloseTunFd, history
  <2>2. queue' \in Seq(Items)
    BY <1>1, <1>4, ItemTypes DEF MainGoesOn, AppType
  <2>3. service' \in Services
    BY <1>1, <1>4 DEF MainGoesOn, AppType, Services, Fresh
  <2>4. main' \in Mains /\ live' \subseteq Starts
    BY <1>1, <1>4 DEF MainGoesOn, AppType, Mains, Idle
  <2>5. AppType'
    BY <1>1, <2>1, <2>2, <2>3, <2>4 DEF AppType
  <2>6. main # Idle
    BY <2>1, Busy
  <2>7. QED
    BY <2>1, <2>5, <2>6, MainAlone
<1>5. CASE OnStop
  BY <1>1, <1>2, <1>5, StopVPNKeeps DEF OnStop, AppType, Services
<1>6. CASE OnPost
  BY <1>1, <1>2, <1>6, StopVPNKeeps DEF OnPost, AppType, Services
<1>7. CASE OnDestroy
  BY <1>1, <1>7, StopVPNKeeps DEF OnDestroy, AppType
<1>8. CASE OnStart
  <2> DEFINE c == Head(queue).cfg
  <2>1. /\ main = Idle /\ queue' \in Seq(Items) /\ c \in Configs /\ events' = events
        /\ service \in Services
    BY <1>1, <1>2, <1>8, ItemTypes DEF OnStart, AppType
  <2>2. CASE service.up /\ service.cfg = c
    <3>1. /\ service' = [service EXCEPT !.doomed = FALSE]
          /\ UNCHANGED <<main, owned, live, thread, core, loops, overlap>>
      BY <1>8, <2>2 DEF OnStart
    <3>2. AppType' /\ service'.up = service.up
      BY <1>1, <2>1, <3>1 DEF AppType, Services
    <3>3. QED
      BY <1>1, <2>1, <3>1, <3>2, MainAlone DEF core
  <2>3. CASE ~(service.up /\ service.cfg = c) /\ service.up
    <3>1. service' = [up |-> FALSE, cfg |-> c, doomed |-> FALSE] /\ StopVPN("restart")
      BY <1>8, <2>3 DEF OnStart
    <3>2. service' \in Services
      BY <2>1, <3>1 DEF Services
    <3>3. QED
      BY <1>1, <2>1, <3>1, <3>2, StopVPNKeeps DEF AppType
  <2>4. CASE ~service.up
    <3>1. /\ service' = [up |-> FALSE, cfg |-> c, doomed |-> FALSE]
          /\ main' = [pc |-> "establish", next |-> ""]
          /\ UNCHANGED <<owned, live, thread, core, loops, overlap>>
      BY <1>8, <2>4 DEF OnStart
    <3>2. service' \in Services /\ main' \in Mains
      BY <2>1, <3>1 DEF Services, Mains
    <3>3. AppType'
      BY <1>1, <2>1, <3>1, <3>2 DEF AppType
    <3>4. QED
      BY <1>1, <2>4, <3>1, <3>3, MainAlone DEF core
  <2>5. QED
    BY <2>2, <2>3, <2>4
<1>9. CASE EstablishFails
  <2>1. CASE StopVPN("stopped") /\ UNCHANGED <<queue, service, events>>
    BY <1>1, <2>1, StopVPNKeeps DEF AppType
  <2>2. CASE /\ service' = [service EXCEPT !.doomed = TRUE] /\ main' = Idle
             /\ UNCHANGED <<queue, owned, live, thread, core, loops, history>>
    <3>1. AppType'
      BY <1>1, <2>2 DEF AppType, Services, Mains, Idle, history
    <3>2. main # Idle
      BY <1>9, Busy DEF EstablishFails
    <3>3. QED
      BY <1>1, <2>2, <3>1, <3>2, MainAlone DEF core, history
  <2>3. QED
    BY <1>9, <2>1, <2>2 DEF EstablishFails
<1>10. QED
  BY <1>3, <1>4, <1>5, <1>6, <1>7, <1>8, <1>9

(* startVpnInternal.                                                        *)
LEMMA SmallestStart ==
    ASSUME NEW S, S \subseteq Starts, S # {}
    PROVE  \E r \in S : \A t \in S : r <= t
<1> DEFINE R == {ss \in Nat \X Nat : ss[1] < ss[2]}
<1>1. S \subseteq Nat
  BY Numbers
<1>2. IsWellFoundedOn(R, Nat)
  BY NatLessThanWellFounded DEF OpToRel
<1>3. \E r \in S : \A t \in S : ~(<<t, r>> \in R)
  <2> HIDE DEF R
  <2> QED
    BY <1>1, <1>2, WFMin
<1>4. ASSUME NEW t \in Nat, NEW r \in Nat, t < r PROVE <<t, r>> \in R
  <2>1. <<t, r>> \in Nat \X Nat /\ <<t, r>>[1] = t /\ <<t, r>>[2] = r
    OBVIOUS
  <2>2. QED
    BY <1>4, <2>1
<1>5. QED
  <2> HIDE DEF R
  <2>1. PICK r \in S : \A t \in S : ~(<<t, r>> \in R)
    BY <1>3
  <2>2. \A t \in S : ~(t < r)
    BY <1>1, <1>4, <2>1
  <2>3. QED
    BY <1>1, <2>2

\* A tunnel is established only when nothing runs, unless overlap is set.
LEMMA EstablishKeeps == ASSUME IInv, Establish PROVE IInv'
<1> USE Numbers
<1>1. AppType /\ CoreType /\ LoopType
  BY Types DEF IInv
<1>2. PICK s \in FreeStarts : /\ file' = [file EXCEPT ![s] = "fd"] /\ owned' = 0
                              /\ thread' = [thread EXCEPT ![s] = "check"]
                              /\ live' = live \cup {s}
  <2> DEFINE s == CHOOSE s \in FreeStarts : \A t \in FreeStarts : s <= t
  <2>1. \E r \in FreeStarts : \A t \in FreeStarts : r <= t
    BY SmallestStart DEF Establish, FreeStarts
  <2>2. s \in FreeStarts
    BY <2>1
  <2>3. QED
    BY <2>2 DEF Establish, Detach
<1>3. /\ main.pc = "establish" /\ main' = Idle
      /\ service' = [service EXCEPT !.up = TRUE]
      /\ overlap' = (overlap \/ Startup \/ \E e \in Starts : ping[e] # "none")
      /\ UNCHANGED <<queue, globalVPN, tunFile, closes, engine, ping, writer, events>>
  BY DEF Establish, loops
<1>4. s \in Starts /\ file[s] = "none" /\ thread[s] = "none" /\ closes[s] = 0
  BY DEF FreeStarts, IInv, Descriptors
<1>5. /\ file'[s] = "fd" /\ \A t \in Starts \ {s} : file'[t] = file[t]
      /\ thread'[s] = "check" /\ \A t \in Starts \ {s} : thread'[t] = thread[t]
  BY <1>1, <1>2, <1>4 DEF CoreType, LoopType
<1>6. TypeOK'
  <2>1. file' \in [Starts -> States] /\ thread' \in [Starts -> Labels]
    BY <1>1, <1>2 DEF CoreType, LoopType, States, Labels
  <2>2. service' \in Services /\ main' \in Mains /\ live' \subseteq Starts
    BY <1>1, <1>2, <1>3, <1>4 DEF AppType, Services, Mains, Idle
  <2>3. overlap' \in BOOLEAN
    BY <1>1, <1>3 DEF AppType
  <2>4. QED
    BY <1>1, <1>2, <1>3, <2>1, <2>2, <2>3, TypesNext DEF AppType, CoreType, LoopType
<1>7. Descriptors'
  BY <1>2, <1>3, <1>4, <1>5 DEF IInv, Descriptors, FdClosedOnce
<1>8. Tunnels' = Tunnels
  BY <1>4, <1>5 DEF Tunnels
<1>9. /\ ping[s] = "none" /\ ~engine[s].running
      /\ \A e \in Starts : Locked(e)' = Locked(e)
  BY <1>3, <1>4, <1>5 DEF IInv, Engines, Locked
<1>10. Engines' /\ Credit'
  BY <1>3, <1>4, <1>5, <1>8, <1>9 DEF IInv, Engines, Credit
<1>11. NoOverlap'
  <2>1. SUFFICES ASSUME ~overlap' PROVE Ordered'
    BY DEF NoOverlap
  <2>2. /\ \A t \in Starts : ~UnderWay(t)
        /\ \A e \in Starts : ping'[e] = "none"
    BY <1>3, <2>1 DEF Startup
  <2>3. \A e \in Starts : ~engine'[e].running
    BY <1>3, <2>2 DEF IInv, Engines
  <2>4. \A t \in Starts : UnderWay(t)' => t = s
    BY <1>5, <2>2 DEF UnderWay
  <2>5. service'.up
    BY <1>1, <1>3 DEF AppType, Services
  <2>6. QED
    BY <1>3, <2>2, <2>3, <2>4, <2>5 DEF Ordered, OneStart, Asleep, Known, Last
<1>12. QED
  BY <1>6, <1>7, <1>10, <1>11 DEF IInv

-----------------------------------------------------------------------------
(* The threads of startVPN.                                                 *)
\* A step of one thread.
LEMMA Stepped ==
    ASSUME LoopType, NEW s \in Starts, NEW from, NEW to \in Labels, Step(s, from, to)
    PROVE  /\ thread[s] = from /\ thread'[s] = to
           /\ \A t \in Starts \ {s} : thread'[t] = thread[t]
           /\ thread' \in [Starts -> Labels]
  BY DEF Step, LoopType

\* A thread that gives up, goes on to set the file, or ends: only thread, queue and
\* globalVPN change.
LEMMA ThreadAlone ==
    ASSUME IInv, NEW s \in Starts, NEW from, NEW to \in Labels, Step(s, from, to),
           \/ from \in {"check", "dial", "failed"} /\ to = "failed" /\ globalVPN' = globalVPN
           \/ from = "check" /\ to = "file" /\ globalVPN' = globalVPN
           \/ from = "failed" /\ to = "done" /\ globalVPN' = globalVPN
           \/ from = "publish" /\ to = "done" /\ globalVPN' = s,
           queue' \in Seq(Items),
           UNCHANGED <<main, service, owned, live, tunFile, file, closes, loops, history>>
    PROVE  IInv'
<1> USE Numbers
<1>1. AppType /\ CoreType /\ LoopType
  BY Types DEF IInv
<1>2. UNCHANGED <<main, service, owned, live, tunFile, file, closes, engine, ping, writer, events,
                  overlap>>
  BY DEF loops, history
<1>3. /\ thread[s] = from /\ thread'[s] = to
      /\ \A t \in Starts \ {s} : thread'[t] = thread[t]
      /\ thread' \in [Starts -> Labels]
  BY <1>1, Stepped
<1>4. TypeOK'
  BY <1>1, <1>2, <1>3, TypesNext DEF AppType, CoreType, LoopType
<1>5. FilesGoOn
  BY <1>1, <1>2 DEF FilesGoOn, CoreType
<1>6. Descriptors' /\ Tunnels' = Tunnels
  BY <1>1, <1>2, <1>3, <1>5, FilesKept DEF IInv, Descriptors
<1>7. ping[s] # "none" => from = "publish"
  BY <1>3 DEF IInv, Engines
<1>8. \A e \in Starts : Locked(e)' => Locked(e)
  BY <1>2, <1>3 DEF Locked
<1>9. Engines' /\ Credit'
  BY <1>2, <1>3, <1>6, <1>7, <1>8 DEF IInv, Engines, Credit
<1>10. NoOverlap'
  <2>1. SUFFICES ASSUME ~overlap PROVE Ordered'
    BY <1>2 DEF NoOverlap
  <2>2. OneStart /\ Asleep /\ Known /\ Last
    BY <2>1 DEF IInv, NoOverlap, Ordered
  <2>3. \A t \in Starts : UnderWay(t)' => UnderWay(t)
    BY <1>3 DEF UnderWay
  <2>4. OneStart' /\ Asleep' /\ Last'
    BY <1>2, <2>2, <2>3 DEF OneStart, Asleep, Last, Startup
  <2>5. Known'
    <3>1. ASSUME NEW e \in Starts, engine[e].running
          PROVE  thread'[e] = "publish" \/ (thread'[e] = "done" /\ globalVPN' = e)
      <4>1. /\ ping[e] # "none" /\ \A t \in Starts \ {e} : ~UnderWay(t)
            /\ thread[e] = "publish" \/ (thread[e] = "done" /\ globalVPN = e)
        BY <2>2, <3>1 DEF IInv, Engines, Last, Known
      <4>2. QED
        BY <1>3, <4>1 DEF UnderWay
    <3>2. QED
      BY <1>2, <3>1 DEF Known
  <2>6. QED
    BY <2>4, <2>5 DEF Ordered
<1>11. QED
  BY <1>4, <1>6, <1>9, <1>10 DEF IInv

LEMMA SetTunFileKeeps == ASSUME IInv, NEW s \in Starts, SetTunFile(s) PROVE IInv'
<1> USE Numbers
<1>1. AppType /\ CoreType /\ LoopType
  BY Types DEF IInv
<1>2. /\ UNCHANGED <<queue, main, service, owned, live, globalVPN, closes, engine, ping, writer,
                     events, overlap>>
      /\ tunFile' = s /\ file' = [file EXCEPT ![s] = "open"]
  BY DEF SetTunFile, app, loops, history
<1>3. /\ thread[s] = "file" /\ thread'[s] = "open" /\ thread' \in [Starts -> Labels]
      /\ \A t \in Starts \ {s} : thread'[t] = thread[t]
  BY <1>1, Stepped DEF SetTunFile, Labels
<1>4. /\ file[s] = "fd" /\ closes[s] = 0 /\ file'[s] = "open"
      /\ \A t \in Starts \ {s} : file'[t] = file[t]
      /\ file' \in [Starts -> States]
  BY <1>1, <1>2, <1>3 DEF IInv, Descriptors, CoreType, States
<1>5. TypeOK'
  BY <1>1, <1>2, <1>3, <1>4, TypesNext DEF AppType, CoreType, LoopType
<1>6. Descriptors'
  BY <1>2, <1>3, <1>4 DEF IInv, Descriptors, FdClosedOnce
<1>7. Tunnels' = Tunnels \cup {s}
  BY <1>4 DEF Tunnels
<1>8. Cardinality(Tunnels') = Cardinality(Tunnels) + 1 /\ Cardinality(Tunnels) \in Nat
  BY <1>4, <1>7, TunnelCount
<1>9. \A e \in Starts : Locked(e)' = Locked(e) /\ UnderWay(e)' = UnderWay(e)
  BY <1>2, <1>3 DEF Locked, UnderWay
<1>10. Engines'
  BY <1>2, <1>3, <1>9 DEF IInv, Engines
<1>11. Credit'
  <2>1. \A e \in Starts : engine[e].gens \in Nat
    BY <1>1 DEF LoopType, EngineStates
  <2>2. QED
    BY <1>2, <1>8, <2>1 DEF IInv, Credit
<1>12. NoOverlap'
  <2>1. SUFFICES ASSUME ~overlap PROVE Ordered'
    BY <1>2 DEF NoOverlap
  <2>2. OneStart /\ Asleep /\ Known /\ Last
    BY <2>1 DEF IInv, NoOverlap, Ordered
  <2>3. UnderWay(s)
    BY <1>3 DEF UnderWay
  <2>4. \A e \in Starts : ping[e] = "none"
    BY <1>3, <2>2, <2>3 DEF IInv, Engines, Last
  <2>5. OneStart' /\ Asleep' /\ Last'
    BY <1>2, <1>9, <2>2, <2>4 DEF OneStart, Asleep, Last, Startup
  <2>6. Known'
    BY <1>2, <1>3, <2>2 DEF Known
  <2>7. QED
    BY <2>5, <2>6 DEF Ordered
<1>13. QED
  BY <1>5, <1>6, <1>10, <1>11, <1>12 DEF IInv

LEMMA ThreadOpensKeeps == ASSUME IInv, NEW s \in Starts, ThreadOpens(s) PROVE IInv'
<1> USE Numbers
<1>1. AppType /\ CoreType /\ LoopType
  BY Types DEF IInv
<1>2. UNCHANGED <<queue, main, service, owned, live, globalVPN, tunFile, file, closes, ping,
                  writer, events, overlap>>
  BY DEF ThreadOpens, app, core, history
<1>3. /\ thread[s] = "open" /\ thread'[s] = IF tunFile = 0 THEN "failed" ELSE "dial"
      /\ \A t \in Starts \ {s} : thread'[t] = thread[t]
      /\ thread' \in [Starts -> Labels]
  BY <1>1, Stepped DEF ThreadOpens, Labels
<1>4. /\ engine' \in [Starts -> EngineStates]
      /\ ~engine'[s].stopped /\ engine'[s].running = engine[s].running
      /\ engine'[s].gens = engine[s].gens
      /\ \A d \in Starts \ {s} : engine'[d] = engine[d]
  BY <1>1, OpenFacts DEF ThreadOpens
<1>5. TypeOK'
  BY <1>1, <1>2, <1>3, <1>4, TypesNext DEF AppType, CoreType, LoopType
<1>6. FilesGoOn
  BY <1>1, <1>2 DEF FilesGoOn, CoreType
<1>7. Descriptors' /\ Tunnels' = Tunnels
  BY <1>1, <1>2, <1>3, <1>6, FilesKept DEF IInv, Descriptors
<1>8. ping[s] = "none" /\ ~engine[s].running
  BY <1>3 DEF IInv, Engines
<1>9. \A e \in Starts : Locked(e)' => Locked(e) \/ (e = s /\ tunFile # 0)
  BY <1>2, <1>3 DEF Locked
<1>10. Engines'
  BY <1>2, <1>3, <1>4, <1>8, <1>9 DEF IInv, Engines
<1>11. Credit'
  BY <1>2, <1>4, <1>7, <1>8, <1>9 DEF IInv, Credit
<1>12. NoOverlap'
  <2>1. SUFFICES ASSUME ~overlap PROVE Ordered'
    BY <1>2 DEF NoOverlap
  <2>2. OneStart /\ Asleep /\ Known /\ Last
    BY <2>1 DEF IInv, NoOverlap, Ordered
  <2>3. /\ \A t \in Starts : UnderWay(t)' => UnderWay(t)
        /\ \A e \in Starts : engine'[e].running = engine[e].running
    BY <1>3, <1>4 DEF UnderWay
  <2>4. OneStart' /\ Asleep' /\ Last'
    BY <1>2, <2>2, <2>3 DEF OneStart, Asleep, Last, Startup
  <2>5. Known'
    BY <1>2, <1>3, <1>8, <2>2, <2>3 DEF Known
  <2>6. QED
    BY <2>4, <2>5 DEF Ordered
<1>13. QED
  BY <1>5, <1>7, <1>10, <1>11, <1>12 DEF IInv

LEMMA ThreadRunsKeeps == ASSUME IInv, NEW s \in Starts, ThreadRuns(s) PROVE IInv'
<1> USE Numbers
<1>1. AppType /\ CoreType /\ LoopType
  BY Types DEF IInv
<1>2. /\ UNCHANGED <<queue, main, service, owned, live, globalVPN, tunFile, file, closes, events,
                     overlap>>
      /\ ping' = [ping EXCEPT ![s] = "wait"]
  BY DEF ThreadRuns, app, core, history
<1>3. /\ thread[s] = "dial" /\ thread'[s] = "publish"
      /\ \A t \in Starts \ {s} : thread'[t] = thread[t]
      /\ thread' \in [Starts -> Labels]
  BY <1>1, Stepped DEF ThreadRuns, Labels
<1>4. Locked(s) /\ ~engine[s].stopped /\ engine[s].gens < Cardinality(Tunnels)
  BY <1>3 DEF Locked, IInv, Engines, Credit
<1>5. /\ engine' \in [Starts -> EngineStates] /\ writer' \in [Writers -> WriterStates]
      /\ engine'[s].running /\ ~engine'[s].stopped
      /\ engine'[s].gens = engine[s].gens + 1
      /\ \A d \in Starts \ {s} : engine'[d] = engine[d]
  BY <1>1, <1>4, RunFacts DEF ThreadRuns, IInv
<1>6. /\ ping' \in [Starts -> PingLabels] /\ ping'[s] = "wait"
      /\ \A e \in Starts \ {s} : ping'[e] = ping[e]
  BY <1>1, <1>2 DEF LoopType, PingLabels
<1>7. TypeOK'
  BY <1>1, <1>2, <1>3, <1>5, <1>6, TypesNext DEF AppType, CoreType, LoopType
<1>8. FilesGoOn
  BY <1>1, <1>2 DEF FilesGoOn, CoreType
<1>9. Descriptors' /\ Tunnels' = Tunnels
  BY <1>1, <1>2, <1>3, <1>8, FilesKept DEF IInv, Descriptors
<1>10. ~Locked(s)' /\ \A e \in Starts \ {s} : Locked(e)' = Locked(e)
  BY <1>3, <1>6 DEF Locked
<1>11. Engines'
  BY <1>2, <1>3, <1>5, <1>6, <1>10 DEF IInv, Engines
<1>12. Credit'
  <2>1. engine[s].gens \in Nat /\ Cardinality(Tunnels) \in Nat
    BY <1>1, TunnelCount DEF LoopType, EngineStates
  <2>2. engine'[s].gens <= Cardinality(Tunnels)
    BY <1>4, <1>5, <2>1
  <2>3. \A e \in Starts \ {s} : engine'[e] = engine[e] /\ Locked(e)' = Locked(e)
    BY <1>5, <1>10
  <2>4. QED
    BY <1>2, <1>5, <1>9, <1>10, <2>2, <2>3 DEF IInv, Credit
<1>13. NoOverlap'
  <2>1. SUFFICES ASSUME ~overlap PROVE Ordered'
    BY <1>2 DEF NoOverlap
  <2>2. OneStart /\ Asleep /\ Known /\ Last
    BY <2>1 DEF IInv, NoOverlap, Ordered
  <2>3. UnderWay(s) /\ \A t \in Starts : UnderWay(t)' = UnderWay(t)
    BY <1>3 DEF UnderWay
  <2>4. \A t \in Starts \ {s} : ~UnderWay(t) /\ ping[t] = "none"
    BY <1>3, <2>2, <2>3 DEF OneStart, Last
  <2>5. main = Idle /\ service.up
    BY <2>2, <2>3 DEF Asleep, Startup
  <2>6. OneStart' /\ Asleep' /\ Last'
    BY <1>2, <1>5, <1>6, <2>2, <2>3, <2>4, <2>5 DEF OneStart, Asleep, Last
  <2>7. Known'
    BY <1>2, <1>3, <1>5, <2>2 DEF Known
  <2>8. QED
    BY <2>6, <2>7 DEF Ordered
<1>14. QED
  BY <1>7, <1>9, <1>11, <1>12, <1>13 DEF IInv

LEMMA ThreadKeeps == ASSUME IInv, NEW s \in Starts, ThreadStep(s) PROVE IInv'
<1>1. AppType
  BY Types DEF IInv
<1>2. queue \in Seq(Items)
  BY <1>1 DEF AppType
<1>3. CASE Refuse(s) \/ PassCheck(s) \/ ThreadFails(s)
  BY <1>2, <1>3, ThreadAlone DEF Refuse, PassCheck, ThreadFails, Labels, app, core
<1>4. CASE Publish(s)
  BY <1>2, <1>4, ThreadAlone DEF Publish, Labels, app
<1>5. CASE PostStop(s)
  <2>1. queue' \in Seq(Items)
    BY <1>2, <1>5, ItemTypes DEF PostStop
  <2>2. QED
    BY <1>5, <2>1, ThreadAlone DEF PostStop, Labels, core
<1>6. QED
  BY <1>3, <1>4, <1>5, SetTunFileKeeps, ThreadOpensKeeps, ThreadRunsKeeps DEF ThreadStep

-----------------------------------------------------------------------------
(* The ping loops, which may stop and start their engine.                   *)
LEMMA PingStepped ==
    ASSUME LoopType, NEW e \in Starts, NEW from, NEW to \in PingLabels, PingStep(e, from, to)
    PROVE  /\ ping[e] = from /\ ping'[e] = to /\ ping' \in [Starts -> PingLabels]
           /\ \A d \in Starts \ {e} : ping'[d] = ping[d]
  BY DEF PingStep, LoopType

LEMMA PingTickKeeps == ASSUME IInv, NEW e \in Starts, PingTick(e) PROVE IInv'
<1> USE Numbers
<1>1. AppType /\ CoreType /\ LoopType
  BY Types DEF IInv
<1>2. UNCHANGED <<queue, main, service, owned, live, thread, globalVPN, tunFile, file, closes,
                  engine, writer, events, overlap>>
  BY DEF PingTick, app, core, history
<1>3. /\ ping[e] \in {"wait", "judge"} /\ ping' \in [Starts -> PingLabels]
      /\ ping'[e] \in {"wait", "judge", "stop"} \/ (ping'[e] = "none" /\ engine[e].stopped)
      /\ \A d \in Starts \ {e} : ping'[d] = ping[d]
  BY <1>1, PingStepped DEF PingTick, PingLabels
<1>4. TypeOK'
  BY <1>1, <1>2, <1>3, TypesNext DEF AppType, CoreType, LoopType
<1>5. FilesGoOn
  BY <1>1, <1>2 DEF FilesGoOn, CoreType
<1>6. Descriptors' /\ Tunnels' = Tunnels
  BY <1>1, <1>2, <1>5, FilesKept DEF IInv, Descriptors
<1>7. \A d \in Starts : Locked(d)' = Locked(d) /\ UnderWay(d)' = UnderWay(d)
  BY <1>2, <1>3 DEF Locked, UnderWay
<1>8. Engines' /\ Credit'
  BY <1>2, <1>3, <1>6, <1>7 DEF IInv, Engines, Credit
<1>9. NoOverlap'
  <2>1. Asleep' = Asleep /\ OneStart' = OneStart /\ Known' = Known
    BY <1>2, <1>7 DEF Asleep, OneStart, Known, Startup
  <2>2. Last => Last'
    BY <1>2, <1>3, <1>7 DEF Last
  <2>3. QED
    BY <1>2, <2>1, <2>2 DEF IInv, NoOverlap, Ordered
<1>10. QED
  BY <1>4, <1>6, <1>8, <1>9 DEF IInv

LEMMA PingStopsKeeps == ASSUME IInv, NEW e \in Starts, PingStops(e) PROVE IInv'
<1> USE Numbers
<1>1. AppType /\ CoreType /\ LoopType
  BY Types DEF IInv
<1>2. UNCHANGED <<queue, main, service, owned, live, thread, globalVPN, writer, events, overlap>>
  BY DEF PingStops, app, history
<1>3. /\ ping[e] = "stop" /\ ping'[e] = "open" /\ ping' \in [Starts -> PingLabels]
      /\ \A d \in Starts \ {e} : ping'[d] = ping[d]
  BY <1>1, PingStepped DEF PingStops, PingLabels
<1>4. /\ FilesGoOn /\ tunFile' \in 0..MaxStarts
      /\ engine' \in [Starts -> EngineStates]
      /\ \A d \in Starts : engine'[d].gens = engine[d].gens
      /\ \A d \in Starts \ {e} : engine'[d] = engine[d]
      /\ ~engine'[e].running /\ ~Locked(e)
      /\ \/ engine' = engine /\ tunFile' = tunFile /\ ~engine[e].running
         \/ tunFile' = 0
  BY <1>1, StopFacts DEF PingStops
<1>5. TypeOK'
  BY <1>1, <1>2, <1>3, <1>4, TypesNext DEF AppType, CoreType, LoopType, FilesGoOn
<1>6. Descriptors' /\ Tunnels' = Tunnels
  BY <1>1, <1>2, <1>4, FilesKept DEF IInv, Descriptors
<1>7. \A d \in Starts : Locked(d)' = Locked(d) /\ UnderWay(d)' = UnderWay(d)
  BY <1>2, <1>3 DEF Locked, UnderWay
<1>8. Engines'
  BY <1>2, <1>3, <1>4, <1>7 DEF IInv, Engines
<1>9. Credit'
  BY <1>4, <1>6, <1>7 DEF IInv, Credit
<1>10. NoOverlap'
  <2>1. SUFFICES ASSUME ~overlap PROVE Ordered'
    BY <1>2 DEF NoOverlap
  <2>2. OneStart /\ Asleep /\ Known /\ Last
    BY <2>1 DEF IInv, NoOverlap, Ordered
  <2>3. \A d \in Starts : engine'[d].running => d # e /\ engine[d].running
    BY <1>4
  <2>4. OneStart' /\ Asleep' /\ Known'
    BY <1>2, <1>7, <2>2, <2>3 DEF OneStart, Asleep, Known, Startup
  <2>5. Last'
    BY <1>3, <1>4, <1>7, <2>2 DEF Last
  <2>6. QED
    BY <2>4, <2>5 DEF Ordered
<1>11. QED
  BY <1>5, <1>6, <1>8, <1>9, <1>10 DEF IInv

LEMMA PingOpensKeeps == ASSUME IInv, NEW e \in Starts, PingOpens(e) PROVE IInv'
<1> USE Numbers
<1>1. AppType /\ CoreType /\ LoopType
  BY Types DEF IInv
<1>2. UNCHANGED <<queue, main, service, owned, live, thread, globalVPN, tunFile, file, closes,
                  writer, events, overlap>>
  BY DEF PingOpens, app, core, history
<1>3. ping[e] = "open" /\ ~engine[e].running
  <2>1. ping[e] = "open"
    BY DEF PingOpens, PingStep
  <2>2. QED
    BY <2>1 DEF IInv, Engines
<1>4. /\ ping'[e] = IF tunFile = 0 THEN "none" ELSE "dial"
      /\ ping' \in [Starts -> PingLabels]
      /\ \A d \in Starts \ {e} : ping'[d] = ping[d]
  BY <1>1, <1>3, PingStepped DEF PingOpens, PingLabels
<1>5. /\ engine' \in [Starts -> EngineStates]
      /\ ~engine'[e].stopped /\ engine'[e].running = engine[e].running
      /\ engine'[e].gens = engine[e].gens
      /\ \A d \in Starts \ {e} : engine'[d] = engine[d]
  BY <1>1, <1>3, OpenFacts DEF PingOpens
<1>6. TypeOK'
  BY <1>1, <1>2, <1>4, <1>5, TypesNext DEF AppType, CoreType, LoopType
<1>7. FilesGoOn
  BY <1>1, <1>2 DEF FilesGoOn, CoreType
<1>8. Descriptors' /\ Tunnels' = Tunnels
  BY <1>1, <1>2, <1>7, FilesKept DEF IInv, Descriptors
<1>9. \A d \in Starts : /\ Locked(d)' => Locked(d) \/ (d = e /\ tunFile # 0)
                        /\ UnderWay(d)' = UnderWay(d)
  BY <1>2, <1>4 DEF Locked, UnderWay
<1>10. Engines'
  BY <1>2, <1>3, <1>4, <1>5, <1>9 DEF IInv, Engines
<1>11. Credit'
  BY <1>2, <1>3, <1>5, <1>8, <1>9 DEF IInv, Credit
<1>12. NoOverlap'
  <2>1. SUFFICES ASSUME ~overlap PROVE Ordered'
    BY <1>2 DEF NoOverlap
  <2>2. OneStart /\ Asleep /\ Known /\ Last
    BY <2>1 DEF IInv, NoOverlap, Ordered
  <2>3. tunFile = 0
    BY <1>3, <2>2 DEF Last
  <2>4. \A d \in Starts : engine'[d].running = engine[d].running
    BY <1>5
  <2>5. OneStart' /\ Asleep' /\ Known'
    BY <1>2, <1>9, <2>2, <2>4 DEF OneStart, Asleep, Known, Startup
  <2>6. Last'
    BY <1>2, <1>4, <1>9, <2>2, <2>3, <2>4 DEF Last
  <2>7. QED
    BY <2>5, <2>6 DEF Ordered
<1>13. QED
  BY <1>6, <1>8, <1>10, <1>11, <1>12 DEF IInv

\* A dial of a ping loop happens only after an overlap: what is left to show is
\* that the flags and the credit agree.
LEMMA PingDialKeeps == ASSUME IInv, NEW e \in Starts, PingFails(e) \/ PingRuns(e) PROVE IInv'
<1> USE Numbers
<1>1. AppType /\ CoreType /\ LoopType
  BY Types DEF IInv
<1>2. UNCHANGED <<queue, main, service, owned, live, thread, globalVPN, tunFile, file, closes,
                  events, overlap>>
  BY DEF PingFails, PingRuns, app, core, history
<1>3. /\ ping[e] = "dial" /\ ping' \in [Starts -> PingLabels]
      /\ \A d \in Starts \ {e} : ping'[d] = ping[d]
      /\ PingRuns(e) => ping'[e] = "wait"
      /\ PingFails(e) => ping'[e] = "none"
  BY <1>1, PingStepped DEF PingFails, PingRuns, PingLabels
<1>4. Locked(e) /\ ~engine[e].stopped /\ engine[e].gens < Cardinality(Tunnels)
  BY <1>3 DEF Locked, IInv, Engines, Credit
<1>5. FilesGoOn
  BY <1>1, <1>2 DEF FilesGoOn, CoreType
<1>6. Descriptors' /\ Tunnels' = Tunnels
  BY <1>1, <1>2, <1>5, FilesKept DEF IInv, Descriptors
<1>7. overlap
  BY <1>3 DEF IInv, NoOverlap, Ordered, Last
<1>8. NoOverlap'
  BY <1>2, <1>7 DEF NoOverlap
<1>9. thread[e] # "dial"
  BY <1>3 DEF IInv, Engines
<1>10. ~Locked(e)' /\ \A d \in Starts \ {e} : Locked(d)' = Locked(d)
  BY <1>2, <1>3, <1>9 DEF Locked
<1>11. CASE PingFails(e)
  <2>1. UNCHANGED <<engine, writer>> /\ ping'[e] = "none"
    BY <1>3, <1>11 DEF PingFails
  <2>2. TypeOK'
    BY <1>1, <1>2, <1>3, <2>1, TypesNext DEF AppType, CoreType, LoopType
  <2>3. Engines'
    BY <1>2, <1>3, <1>10, <2>1 DEF IInv, Engines
  <2>4. Credit'
    BY <1>2, <1>6, <1>10, <2>1 DEF IInv, Credit
  <2>5. QED
    BY <1>6, <1>8, <2>2, <2>3, <2>4 DEF IInv
<1>12. CASE PingRuns(e)
  <2>1. /\ engine' \in [Starts -> EngineStates] /\ writer' \in [Writers -> WriterStates]
        /\ engine'[e].running /\ ~engine'[e].stopped
        /\ engine'[e].gens = engine[e].gens + 1
        /\ \A d \in Starts \ {e} : engine'[d] = engine[d]
    BY <1>1, <1>4, <1>12, RunFacts DEF PingRuns, IInv
  <2>2. ping'[e] = "wait"
    BY <1>3, <1>12
  <2>3. TypeOK'
    BY <1>1, <1>2, <1>3, <2>1, TypesNext DEF AppType, CoreType, LoopType
  <2>4. Engines'
    BY <1>2, <1>3, <1>10, <2>1, <2>2 DEF IInv, Engines
  <2>5. Credit'
    <3>1. engine[e].gens \in Nat /\ Cardinality(Tunnels) \in Nat
      BY <1>1, TunnelCount DEF LoopType, EngineStates
    <3>2. QED
      BY <1>2, <1>4, <1>6, <1>10, <2>1, <3>1 DEF IInv, Credit
  <2>6. QED
    BY <1>6, <1>8, <2>3, <2>4, <2>5 DEF IInv
<1>13. QED
  BY <1>11, <1>12

LEMMA PingKeeps == ASSUME IInv, NEW e \in Starts, PingLoop(e) PROVE IInv'
  BY PingTickKeeps, PingStopsKeeps, PingOpensKeeps, PingDialKeeps DEF PingLoop

-----------------------------------------------------------------------------
(* The writer loops, the finalizer, and the end of the process.             *)
\* What only descriptors and writer loops notice.
LEMMA FilesAlone ==
    ASSUME IInv, UNCHANGED <<app, thread, globalVPN, tunFile, engine, ping, history>>,
           FilesGoOn, writer' \in [Writers -> WriterStates]
    PROVE  IInv'
<1>1. AppType /\ CoreType /\ LoopType
  BY Types DEF IInv
<1>2. UNCHANGED <<queue, main, service, owned, live, thread, globalVPN, tunFile, engine, ping,
                  events, overlap>>
  BY DEF app, history
<1>3. TypeOK'
  BY <1>1, <1>2, TypesNext DEF AppType, CoreType, LoopType, FilesGoOn
<1>4. Descriptors' /\ Tunnels' = Tunnels
  BY <1>1, <1>2, FilesKept DEF IInv, Descriptors
<1>5. Engines' /\ Credit'
  BY <1>2, <1>4 DEF IInv, Engines, Credit, Locked
<1>6. NoOverlap'
  BY <1>2 DEF IInv, NoOverlap, Ordered, OneStart, Asleep, Known, Last, Startup, UnderWay
<1>7. QED
  BY <1>3, <1>4, <1>5, <1>6 DEF IInv

LEMMA WriterKeeps == ASSUME IInv, NEW w \in Writers, WriterLoop(w) PROVE IInv'
<1> USE Numbers
<1>1. CoreType /\ LoopType
  BY Types DEF IInv
<1>2. ASSUME NEW label \in {"none", "top", "read", "send"}, NEW fd \in 0..MaxStarts,
             Moved(w, label, fd)
      PROVE  writer' \in [Writers -> WriterStates]
  BY <1>1, <1>2 DEF Moved, LoopType, WriterStates
<1>3. writer' \in [Writers -> WriterStates]
  BY <1>1, <1>2 DEF WriterLoop, WriterLooks, WriterReads, WriterSends, CoreType
<1>4. CASE WriterLooks(w) \/ WriterSends(w)
  <2>1. /\ UNCHANGED <<app, thread, globalVPN, tunFile, engine, ping, history>>
        /\ UNCHANGED <<file, closes>>
    BY <1>4 DEF WriterLooks, WriterSends, core
  <2>2. FilesGoOn
    BY <1>1, <2>1 DEF FilesGoOn, CoreType
  <2>3. QED
    BY <1>3, <2>1, <2>2, FilesAlone
<1>5. CASE WriterReads(w)
  <2> DEFINE fd == writer[w].fd
  <2>1. UNCHANGED <<app, thread, globalVPN, tunFile, engine, ping, history>>
    BY <1>5 DEF WriterReads
  <2>2. \/ UNCHANGED <<file, closes>>
        \/ /\ file[fd] = "closing" /\ file' = [file EXCEPT ![fd] = "closed"]
           /\ closes' = [closes EXCEPT ![fd] = @ + 1]
    BY <1>5 DEF WriterReads
  <2>3. FilesGoOn
    BY <1>1, <2>2 DEF FilesGoOn, CoreType, States
  <2>4. QED
    BY <1>3, <2>1, <2>3, FilesAlone
<1>6. QED
  BY <1>4, <1>5 DEF WriterLoop

LEMMA FinalizeKeeps == ASSUME IInv, NEW s \in Starts, Finalize(s) PROVE IInv'
<1>1. CoreType /\ LoopType
  BY Types DEF IInv
<1>2. /\ file[s] = "open" /\ file' = [file EXCEPT ![s] = "closed"]
      /\ closes' = [closes EXCEPT ![s] = @ + 1]
      /\ UNCHANGED <<app, thread, globalVPN, tunFile, engine, ping, writer, history>>
  BY DEF Finalize, loops
<1>3. FilesGoOn
  BY <1>1, <1>2 DEF FilesGoOn, CoreType, States
<1>4. QED
  BY <1>1, <1>2, <1>3, FilesAlone DEF LoopType

\* After the end of the process nothing runs, and no descriptor is left.
LEMMA DiesKeeps == ASSUME IInv, Dies PROVE IInv'
<1> USE Numbers
<1>1. AppType /\ CoreType /\ LoopType
  BY Types DEF IInv
<1>2. /\ queue' = <<>> /\ main' = Idle /\ owned' = 0 /\ live' = {}
      /\ globalVPN' = 0 /\ tunFile' = 0
      /\ service' = [Fresh EXCEPT !.doomed = TRUE]
      /\ UNCHANGED <<closes, events, overlap>>
  BY DEF Dies, history
<1>3. /\ engine' = [s \in Starts |-> [running |-> FALSE, conn |-> FALSE, stopped |-> FALSE, gens |-> 0]]
      /\ ping' = [s \in Starts |-> "none"]
      /\ writer' = [w \in Writers |-> NoWriter]
      /\ thread' = [s \in Starts |-> IF thread[s] = "none" THEN "none" ELSE "done"]
      /\ file' = [s \in Starts |-> IF file[s] = "none" THEN "none" ELSE "closed"]
  BY DEF Dies, Writers
<1>4. TypeOK'
  <2>1. AppType'
    <3>1. queue' \in Seq(Items) /\ live' \subseteq Starts
      BY <1>2
    <3>2. main' \in Mains /\ service' \in Services
      BY <1>2 DEF Mains, Idle, Services, Fresh
    <3>3. QED
      BY <1>1, <1>2, <3>1, <3>2 DEF AppType
  <2>2. CoreType'
    BY <1>1, <1>2, <1>3 DEF CoreType, States
  <2>3. LoopType'
    BY <1>1, <1>3 DEF LoopType, Labels, EngineStates, PingLabels, WriterStates, NoWriter
  <2>4. QED
    BY <2>1, <2>2, <2>3, TypesNext
<1>5. Descriptors'
  BY <1>2, <1>3 DEF IInv, Descriptors, FdClosedOnce
<1>6. Engines'
  BY <1>2, <1>3 DEF Engines, Locked
<1>7. Credit'
  <2>1. Tunnels' \subseteq Starts
    BY DEF Tunnels
  <2>2. IsFiniteSet(Starts)
    BY FS_Interval DEF Starts
  <2>3. Cardinality(Tunnels') \in Nat
    BY <2>1, <2>2, FS_Subset, FS_CardinalityType
  <2>4. QED
    BY <1>2, <1>3, <2>3 DEF Credit, Locked
<1>8. Ordered'
  BY <1>2, <1>3 DEF Ordered, OneStart, Asleep, Known, Last, Startup, UnderWay
<1>9. QED
  BY <1>4, <1>5, <1>6, <1>7, <1>8 DEF IInv, NoOverlap

-----------------------------------------------------------------------------
(* The specification.                                                       *)
LEMMA Initially == Init => IInv
<1> SUFFICES ASSUME Init PROVE IInv
  OBVIOUS
<1> USE Numbers
<1>1. TypeOK
  <2>1. AppType
    <3>1. queue \in Seq(Items) /\ live \subseteq Starts
      BY DEF Init, Empty
    <3>2. main \in Mains /\ service \in Services
      BY DEF Init, Empty, Mains, Idle, Services, Fresh
    <3>3. owned = 0 /\ events = 0 /\ overlap = FALSE
      BY DEF Init, Empty
    <3>4. QED
      BY <3>1, <3>2, <3>3, 0 \in 0..MaxEvents DEF AppType
  <2>2. CoreType
    BY DEF Init, Empty, CoreType, States
  <2>3. LoopType
    BY DEF Init, Empty, LoopType, Labels, EngineStates, PingLabels, Writers, WriterStates, NoWriter
  <2>4. QED
    BY <2>1, <2>2, <2>3, Types
<1>2. Descriptors
  BY DEF Init, Empty, Descriptors, FdClosedOnce
<1>3. Engines
  BY DEF Init, Empty, Engines, Locked
<1>4. Credit
  BY TunnelCount DEF Init, Empty, Credit, Locked
<1>5. Ordered
  BY DEF Init, Empty, Ordered, OneStart, Asleep, Known, Last, Startup, UnderWay
<1>6. QED
  BY <1>1, <1>2, <1>3, <1>4, <1>5 DEF IInv, NoOverlap

LEMMA StepKeeps == IInv /\ [Next]_vars => IInv'
<1> SUFFICES ASSUME IInv, [Next]_vars PROVE IInv'
  OBVIOUS
<1>1. CASE StopButton \/ OnRevoke \/ \E c \in Configs : StartButton(c)
  BY <1>1, Asks
<1>2. CASE MainStep
  BY <1>2, MainRuns, EstablishKeeps DEF MainStep
<1>3. CASE \E s \in Starts : ThreadStep(s) \/ PingLoop(s) \/ Finalize(s)
  BY <1>3, ThreadKeeps, PingKeeps, FinalizeKeeps
<1>4. CASE \E w \in Starts \X Starts : WriterLoop(w)
  BY <1>4, WriterKeeps DEF Writers
<1>5. CASE Dies
  BY <1>5, DiesKeeps
<1>6. CASE UNCHANGED vars
  <2>1. CoreType /\ LoopType
    BY Types DEF IInv
  <2>2. FilesGoOn /\ writer' \in [Writers -> WriterStates]
    BY <1>6, <2>1 DEF FilesGoOn, CoreType, LoopType, vars, core, loops
  <2>3. QED
    BY <1>6, <2>2, FilesAlone DEF vars, core, loops
<1>7. QED
  BY <1>1, <1>2, <1>3, <1>4, <1>5, <1>6 DEF Next

\* The inductive invariant holds in every reachable state: whatever the user, the
\* system, the threads and the loops do, in whatever order, and after each death of
\* the process.
THEOREM Invariance == Spec => []IInv
  BY Initially, StepKeeps, PTL DEF Spec

\* The variables stay in their types: the bound on starts bounds the Starts of each
\* engine as well, since each of them uses up a tunnel.
THEOREM TypeCorrect == Spec => []TypeOK
<1>1. IInv => TypeOK
  BY DEF IInv
<1>2. QED
  BY <1>1, Invariance, PTL

\* Kotlin, closeTunnel and the finalizer of os.File close a TUN's descriptor at most
\* once between them (detachFd, plat.tunFile = nil).
THEOREM NoDescriptorTwice == Spec => []FdClosedOnce
<1>1. IInv => FdClosedOnce
  BY DEF IInv, Descriptors
<1>2. QED
  BY <1>1, Invariance, PTL

\* If isRunning is false and nothing has overlapped, no engine is running: doStop,
\* onRevoke, onDestroy and Reconnect leave none behind.
THEOREM ServiceIsHonest == Spec => []ServiceHonest
<1>1. IInv => ServiceHonest
  BY DEF IInv, NoOverlap, Ordered, Asleep, ServiceHonest
<1>2. QED
  BY <1>1, Invariance, PTL

\* If nothing has overlapped, getStats says "online" exactly while an engine runs,
\* but for the moment before startVPN sets globalVPN.
THEOREM ScreenIsHonest == Spec => []StatsHonest
<1>1. IInv => StatsHonest
  <2>1. SUFFICES ASSUME IInv, ~overlap, \A s \in Starts : thread[s] # "publish"
                 PROVE  Online <=> \E e \in Starts : engine[e].running
    BY DEF StatsHonest
  <2>2. Known /\ globalVPN \in 0..MaxStarts
    BY <2>1, Types DEF IInv, NoOverlap, Ordered, CoreType
  <2>3. \A e \in Starts : engine[e].running => globalVPN = e
    BY <2>1, <2>2 DEF Known
  <2>4. QED
    BY <2>2, <2>3, Numbers DEF Online
<1>2. QED
  BY <1>1, Invariance, PTL
=============================================================================
