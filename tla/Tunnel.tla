------------------------------- MODULE Tunnel -------------------------------
(***************************************************************************)
(* The tunnels of pkg/wgtun and the routes pushed to them: UpdateRoutes,   *)
(* which the helper's watchRoutes runs outside its lock, against the       *)
(* tunnels that Up brings up and Close takes down under it.                *)
(*                                                                         *)
(* The interfaces of successive tunnels have the same name ("utun", or the *)
(* next free number of it), and routes are added and deleted by that name. *)
(* (Windows keys them on the adapter's LUID, which may differ.)  A change  *)
(* of one route is one step, and so is Up, and so is Close, whose device   *)
(* takes its routes along.                                                 *)
(*                                                                         *)
(* Left out: the address, the DNS servers and the MTU, set once by Up, and *)
(* entries that do not parse, which the device refuses with all the rest.  *)
(* AllowedIPs is a set: an entry is not sent twice.  But several entries   *)
(* may name one route (10.2.3.4/16 and 10.2.0.0/16): nothing in the client *)
(* refuses them, and planNetwork expects them.                             *)
(***************************************************************************)
EXTENDS Naturals

CONSTANTS
    Entries,      \* the AllowedIPs a server may send
    RouteOf,      \* the route of each (net.ParseCIDR, parseRoute)
    Systems,      \* the operating systems: of "unix", "windows"
    AddsMayFail,  \* whether the system may refuse to add a route
    MaxTunnels    \* bound: tunnels brought up

Tunnels == 1..MaxTunnels
Routes  == {RouteOf[e] : e \in Entries}

ASSUME TunnelAssumption ==
    /\ MaxTunnels \in Nat
    /\ Systems \subseteq {"unix", "windows"}
    /\ AddsMayFail \in BOOLEAN
    /\ DOMAIN RouteOf = Entries

VARIABLES
    os,      \* the system
    begun,   \* how many tunnels were brought up
    open,    \* whether the last of them is up
    cfg,     \* t.cfg.AllowedIPs
    allowed, \* the device's allowed IPs
    routes,  \* the routes on the interface of that name
    spoilt,  \* history: the tunnels whose update failed, or took away a route
             \* that an entry it keeps has too, or whose routes the update of
             \* a tunnel that is closed has changed
    upd      \* UpdateRoutes, in the goroutine that watches for each tunnel

vars == <<os, begun, open, cfg, allowed, routes, spoilt, upd>>

-----------------------------------------------------------------------------
\* "checked": the watch's context was not cancelled.  "routes": the device is
\* set, del and add are the entries whose routes are still to be changed.
Update == [pc : {"idle", "checked", "routes"}, want : SUBSET Entries,
           del : SUBSET Entries, add : SUBSET Entries]

Idle == [pc |-> "idle", want |-> {}, del |-> {}, add |-> {}]

TypeOK ==
    /\ os \in {"unix", "windows"}
    /\ begun \in 0..MaxTunnels
    /\ open \in BOOLEAN
    /\ cfg \in [Tunnels -> SUBSET Entries]
    /\ allowed \in [Tunnels -> SUBSET Entries]
    /\ routes \subseteq Routes
    /\ spoilt \subseteq Tunnels
    /\ upd \in [Tunnels -> Update]

Init ==
    /\ os \in Systems
    /\ begun = 0
    /\ open = FALSE
    /\ cfg = [t \in Tunnels |-> {}]
    /\ allowed = [t \in Tunnels |-> {}]
    /\ routes = {}
    /\ spoilt = {}
    /\ upd = [t \in Tunnels |-> Idle]

IsOpen(t) == open /\ t = begun

\* Mutant: routes are taken as they are written, their host bits not masked.
RoutesOf_Unmasked(es) == es

\* The routes of a set of entries.
RoutesOf(es) == {RouteOf[e] : e \in es}

\* No two of them name one route.
Distinct(es) == \A d, e \in es : RouteOf[d] = RouteOf[e] => d = e

-----------------------------------------------------------------------------
\* Up, with what the server enrolled.  On Unix adding a route twice fails, and
\* so does Up; on Windows planNetwork removes the duplicates.
Up(es) ==
    /\ ~open
    /\ begun < MaxTunnels
    /\ os = "windows" \/ Distinct(es)
    /\ begun' = begun + 1
    /\ open' = TRUE
    /\ cfg' = [cfg EXCEPT ![begun'] = es]
    /\ allowed' = [allowed EXCEPT ![begun'] = es]
    /\ routes' = RoutesOf(es)
    /\ UNCHANGED <<os, spoilt, upd>>

Close ==
    /\ open
    /\ open' = FALSE
    /\ routes' = {}
    /\ UNCHANGED <<os, begun, cfg, allowed, spoilt, upd>>

\* watchRoutes: an update was received, and the tunnel is not going down.
Push(t, es) ==
    /\ IsOpen(t)
    /\ upd[t] = Idle
    /\ upd' = [upd EXCEPT ![t] = [Idle EXCEPT !.pc = "checked", !.want = es]]
    /\ UNCHANGED <<os, begun, open, cfg, allowed, routes, spoilt>>

\* Mutant: the device is not told to replace the allowed IPs it has.
SetDevice_AddsOnly(t) ==
    /\ upd[t].pc = "checked"
    /\ IsOpen(t)
    /\ allowed' = [allowed EXCEPT ![t] = @ \cup upd[t].want]
    /\ upd' = [upd EXCEPT ![t].pc = "routes",
                          ![t].del = cfg[t] \ upd[t].want,
                          ![t].add = upd[t].want \ cfg[t]]
    /\ UNCHANGED <<os, begun, open, cfg, routes, spoilt>>

\* UpdateRoutes sets the device, and compares what it had with what it wants.
SetDevice(t) ==
    /\ upd[t].pc = "checked"
    /\ IsOpen(t)
    /\ allowed' = [allowed EXCEPT ![t] = upd[t].want]
    /\ upd' = [upd EXCEPT ![t].pc = "routes",
                          ![t].del = cfg[t] \ upd[t].want,
                          ![t].add = upd[t].want \ cfg[t]]
    /\ UNCHANGED <<os, begun, open, cfg, routes, spoilt>>

\* A device that is closed refuses.
DeviceIsClosed(t) ==
    /\ upd[t].pc = "checked"
    /\ ~IsOpen(t)
    /\ upd' = [upd EXCEPT ![t] = Idle]
    /\ UNCHANGED <<os, begun, open, cfg, allowed, routes, spoilt>>

\* History: t changes a route of the tunnel that is open.
SpoiltBy(t) == IF IsOpen(t) \/ ~open THEN spoilt ELSE spoilt \cup {begun}

\* An entry that the update keeps has this one's route.
Shared(t, e) == \E d \in cfg[t] \cap upd[t].want : RouteOf[d] = RouteOf[e]

\* routeDel, in the order of a map.  What it answers is not looked at, and the
\* difference is one of entries: the route goes though another has it too.
DeleteRoute(t, e) ==
    /\ upd[t].pc = "routes"
    /\ e \in upd[t].del
    /\ routes' = routes \ {RouteOf[e]}
    /\ upd' = [upd EXCEPT ![t].del = @ \ {e}]
    /\ spoilt' = SpoiltBy(t) \cup {u \in {t} : Shared(t, e)}
    /\ UNCHANGED <<os, begun, open, cfg, allowed>>

\* The system accepts a route: there is an interface, and no such route yet, or
\* Windows' ERROR_OBJECT_ALREADY_EXISTS is no error.
Accepts(e) == open /\ (os = "windows" \/ RouteOf[e] \notin routes)

AddRoute(t, e) ==
    /\ upd[t].pc = "routes"
    /\ upd[t].del = {}
    /\ e \in upd[t].add
    /\ Accepts(e)
    /\ routes' = routes \cup {RouteOf[e]}
    /\ upd' = [upd EXCEPT ![t].add = @ \ {e}]
    /\ spoilt' = SpoiltBy(t)
    /\ UNCHANGED <<os, begun, open, cfg, allowed>>

\* UpdateRoutes gives up where it is: t.cfg.AllowedIPs stays what it was.
AddFails(t, e) ==
    /\ upd[t].pc = "routes"
    /\ upd[t].del = {}
    /\ e \in upd[t].add
    /\ AddsMayFail \/ ~Accepts(e)
    /\ spoilt' = spoilt \cup {t}
    /\ upd' = [upd EXCEPT ![t] = Idle]
    /\ UNCHANGED <<os, begun, open, cfg, allowed, routes>>

\* Mutant: t.cfg.AllowedIPs is left what it was.
Updated_Unrecorded(t) ==
    /\ upd[t].pc = "routes"
    /\ upd[t].del = {} /\ upd[t].add = {}
    /\ upd' = [upd EXCEPT ![t] = Idle]
    /\ UNCHANGED <<os, begun, open, cfg, allowed, routes, spoilt>>

\* All routes are changed: UpdateRoutes keeps what it was given.
Updated(t) ==
    /\ upd[t].pc = "routes"
    /\ upd[t].del = {} /\ upd[t].add = {}
    /\ cfg' = [cfg EXCEPT ![t] = upd[t].want]
    /\ upd' = [upd EXCEPT ![t] = Idle]
    /\ UNCHANGED <<os, begun, open, allowed, routes, spoilt>>

RouteStep(t) == \E e \in Entries : DeleteRoute(t, e) \/ AddRoute(t, e)

Next ==
    \/ \E es \in SUBSET Entries : Up(es) \/ \E t \in Tunnels : Push(t, es)
    \/ Close
    \/ \E t \in Tunnels :
         \/ SetDevice(t)
         \/ DeviceIsClosed(t)
         \/ RouteStep(t)
         \/ \E e \in Entries : AddFails(t, e)
         \/ Updated(t)

Spec == Init /\ [][Next]_vars

-----------------------------------------------------------------------------
(* Safety.                                                                 *)

\* The entries an update has removed and added so far.
Removed(t) == (cfg[t] \ upd[t].want) \ upd[t].del

Added(t) == (upd[t].want \ cfg[t]) \ upd[t].add

\* However updates follow one another, fail or outlive their tunnel, and however
\* entries share routes, the routes of an open tunnel are those of its entries,
\* less the ones its update has removed and with the ones it has added, and none
\* that the update keeps is ever missing.  Three things alone spoil this, for
\* good: an update of its own that failed, or that removed one of two entries of
\* one route (wgtun.go:122-126), and another tunnel's that went on.
RoutesFollowTheUpdate ==
    \A t \in Tunnels : IsOpen(t) /\ t \notin spoilt =>
        IF upd[t].pc = "routes"
        THEN /\ routes = (RoutesOf(cfg[t]) \ RoutesOf(Removed(t))) \cup RoutesOf(Added(t))
             /\ RoutesOf(cfg[t] \cap upd[t].want) \subseteq routes
        ELSE routes = RoutesOf(cfg[t])

\* An update that is refused by the device changes no route, and one that is
\* over leaves the device and the routes with the same entries.
DeviceAndRoutesAgree ==
    \A t \in Tunnels : IsOpen(t) /\ t \notin spoilt /\ upd[t].pc # "routes" =>
        routes = RoutesOf(allowed[t])
=============================================================================
