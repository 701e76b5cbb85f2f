------------------------------ MODULE Routing ------------------------------
(***************************************************************************)
(* What the engine does to the routing table of Windows and what it keeps  *)
(* of it in plat (core/vpn_windows.go, core/killswitch_windows.go), for a  *)
(* profile that sends all traffic through the tunnel.  The engine calls    *)
(* these pieces from Start, Stop, Destroy and the route monitor.           *)
(*                                                                         *)
(* The system's own default route goes through net, its gateway now; the   *)
(* code never deletes it.  Every command may fail and the code looks at no *)
(* result: a step leaves any table that some of its commands make.         *)
(***************************************************************************)
CONSTANTS
    Gateways,       \* the gateways of the networks the machine moves between
    TenNet,         \* those in 10.0.0.0/8, which getDefaultGateway takes for the tunnel
    NoGateway,
    KillSwitch      \* v.killSwitchEnabled

ASSUME GatewaysAssumption ==
    /\ Gateways # {} /\ TenNet \subseteq Gateways
    /\ NoGateway \notin Gateways /\ KillSwitch \in BOOLEAN

VARIABLES
    net,            \* the gateway of the system's default route
    realGateway,    \* plat.realGateway
    ifIndex,        \* plat.ifIndex is known
    server,         \* the gateways of the routes to the server
    tunDefault,     \* the default route into the tunnel
    restored,       \* the gateways of the default routes the code has added
    undone          \* history: what the last attempt at it did not bring about

plat == <<realGateway, ifIndex>>
table == <<server, tunDefault, restored>>
routing == <<net, plat, table, undone>>

Hops == Gateways \cup {NoGateway}

RoutingTypeOK ==
    /\ net \in Hops /\ realGateway \in Hops /\ server \subseteq Hops
    /\ ifIndex \in BOOLEAN /\ tunDefault \in BOOLEAN
    /\ restored \subseteq Gateways /\ undone \subseteq {"server", "default", "tunnel"}

RoutingInit ==
    /\ net \in Gateways
    /\ realGateway = NoGateway /\ ifIndex = FALSE
    /\ server = {} /\ tunDefault = FALSE /\ restored = {} /\ undone = {}

\* detectGateway of the kill switch: the next hop of the default route with the
\* smallest metric, the system's or one that the code has added; nothing, when
\* PowerShell fails.
FirstHop == {NoGateway, net} \cup restored

\* getDefaultGateway: the same, without the range of the tunnel.
Detected == {NoGateway} \cup (FirstHop \ TenNet)

-----------------------------------------------------------------------------
\* What "route delete" and "route add" for the server may leave.
ServerRoutes(gw) == {server, {}, {gw}, server \cup {gw}}

Tag(name, holds) == IF holds THEN {name} ELSE {}

(* openTunnel after the dial, as far as it gets.                            *)
NoGatewayFound ==
    /\ realGateway' = NoGateway
    /\ UNCHANGED <<net, ifIndex, table, undone>>

NoAdapter ==
    /\ realGateway' \in Detected \ {NoGateway}
    /\ UNCHANGED <<net, ifIndex, table, undone>>

\* The default route into the tunnel is deleted and added again when the index
\* of the adapter is known.  The session starts or the caller has an error; the
\* routes are not taken back.
Routed(opened, gw) ==
    /\ realGateway' \in Detected \ {NoGateway}
    /\ ifIndex' \in BOOLEAN
    /\ server' \in ServerRoutes(gw)
    /\ tunDefault' \in IF ifIndex' THEN BOOLEAN ELSE {tunDefault}
    /\ undone' = (undone \cap {"default"}) \cup Tag("server", server' # {gw})
           \cup Tag("tunnel", tunDefault' /\ (~opened \/ (~ifIndex' /\ "tunnel" \in undone)))
    /\ UNCHANGED <<net, restored>>

SetRoutes(opened) == Routed(opened, realGateway')

-----------------------------------------------------------------------------
AddDefault(gw) == restored' \in {restored, restored \cup ({gw} \ {NoGateway})}

\* A default route through gw, and none into the tunnel as far as the index of
\* the adapter is known; the route to the server stays.
Restore(gw) ==
    /\ AddDefault(gw)
    /\ tunDefault' \in IF ifIndex THEN {FALSE, tunDefault} ELSE {tunDefault}
    /\ undone' = (undone \cap {"server"}) \cup Tag("default", gw \notin restored')
           \cup Tag("tunnel", tunDefault' /\ (ifIndex \/ "tunnel" \in undone))
    /\ UNCHANGED <<net, plat, server>>

\* A plausible slip: the gateway is looked for again, and without one all routes
\* are left alone.
WrongCloseRoutes ==
    \E gw \in Detected : IF gw = NoGateway THEN UNCHANGED routing ELSE Restore(gw)

\* closeTunnel: through the gateway it knows, or else finds.
CloseRoutes ==
    \E gw \in IF realGateway = NoGateway THEN Detected ELSE {realGateway} : Restore(gw)

\* windowsKillSwitch.Activate: the ping loop gives it no gateway, and it returns.
Activate == UNCHANGED routing

\* windowsKillSwitch.Deactivate: one more default route.
Deactivate ==
    /\ IF KillSwitch THEN \E gw \in FirstHop : AddDefault(gw) ELSE UNCHANGED restored
    /\ UNCHANGED <<net, plat, server, tunDefault, undone>>

\* destroyTunnel: with the adapter, if it closes, go the routes into it.
DestroyRoutes ==
    /\ tunDefault' \in {FALSE, tunDefault}
    /\ undone' = IF tunDefault' THEN undone ELSE undone \ {"tunnel"}
    /\ UNCHANGED <<net, plat, server, restored>>

-----------------------------------------------------------------------------
(* refreshServerRoute, in the steps between which others may come: what it  *)
(* finds, the route, the field.                                             *)
\* No gateway now and none from before: "route delete" only.
DropServerRoute ==
    /\ server' \in {server, {}}
    /\ UNCHANGED <<net, plat, tunDefault, restored, undone>>

ServerRoute(gw) ==
    /\ server' \in ServerRoutes(gw)
    /\ undone' = (undone \ {"server"}) \cup Tag("server", server' # {gw})
    /\ UNCHANGED <<net, plat, tunDefault, restored>>

\* A plausible slip: the field is set only if there is none yet.
WrongRememberGateway(gw) ==
    /\ realGateway' = IF realGateway = NoGateway THEN gw ELSE realGateway
    /\ UNCHANGED <<net, ifIndex, table, undone>>

\* The field follows whatever became of the route.
RememberGateway(gw) ==
    /\ realGateway' = gw
    /\ UNCHANGED <<net, ifIndex, table, undone>>

\* The machine moves to another network, or loses its own.
Move ==
    /\ net' \in Hops \ {net}
    /\ UNCHANGED <<plat, table, undone>>
=============================================================================
