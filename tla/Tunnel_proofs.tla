---------------------------- MODULE Tunnel_proofs ----------------------------
(***************************************************************************)
(* Theorems of Tunnel: for any entries, whichever of them share a route,   *)
(* and any number of tunnels.                                              *)
(***************************************************************************)
EXTENDS Tunnel, TLAPS

\* A tunnel that is open and was not spoilt.
Sound(t) == IsOpen(t) /\ t \notin spoilt

\* The routes are where the update has got to, and the device has what the
\* update, or the last one, wanted.
Reached(t) ==
    IF upd[t].pc = "routes"
    THEN /\ routes = (RoutesOf(cfg[t]) \ RoutesOf(Removed(t))) \cup RoutesOf(Added(t))
         /\ RoutesOf(cfg[t] \cap upd[t].want) \subseteq routes
    ELSE routes = RoutesOf(cfg[t])

Consistent(t) ==
    /\ Reached(t)
    /\ allowed[t] = IF upd[t].pc = "routes" THEN upd[t].want ELSE cfg[t]

\* What is still to be changed is of the difference, and no route is added before
\* the last is removed.
Diff ==
    \A t \in Tunnels : upd[t].pc = "routes" =>
        /\ upd[t].del \subseteq cfg[t] \ upd[t].want
        /\ upd[t].add \subseteq upd[t].want \ cfg[t]
        /\ upd[t].del # {} => upd[t].add = upd[t].want \ cfg[t]

\* Tunnels that were not begun have no updates.
Unbegun == \A t \in Tunnels : t > begun => upd[t] = Idle

IInv ==
    /\ TypeOK /\ Diff /\ Unbegun
    /\ open => begun \in Tunnels
    /\ \A t \in Tunnels : Sound(t) => Consistent(t)

-----------------------------------------------------------------------------
(* The routes of the entries kept, added and taken away one by one.        *)
LEMMA RoutesMore ==
    ASSUME NEW es \in SUBSET Entries, NEW e \in Entries
    PROVE  RoutesOf(es \cup {e}) = RoutesOf(es) \cup {RouteOf[e]}
BY DEF RoutesOf

LEMMA RoutesOfNone == RoutesOf({}) = {}
BY DEF RoutesOf

(* An update that is over has the routes it wants, if those of the entries *)
(* it keeps are there.                                                     *)
LEMMA RoutesOfTheUpdate ==
    ASSUME NEW old, NEW want,
           RoutesOf(old \cap want) \subseteq
             (RoutesOf(old) \ RoutesOf(old \ want)) \cup RoutesOf(want \ old)
    PROVE  (RoutesOf(old) \ RoutesOf(old \ want)) \cup RoutesOf(want \ old) = RoutesOf(want)
BY DEF RoutesOf

LEMMA RoutesAreRoutes ==
    ASSUME NEW es \in SUBSET Entries
    PROVE  RoutesOf(es) \subseteq Routes
BY DEF RoutesOf, Routes

LEMMA InitIInv == Init => IInv
<1> SUFFICES ASSUME Init PROVE IInv
  OBVIOUS
<1>1. Idle \in Update
  BY DEF Idle, Update
<1>2. TypeOK
  <2>1. os \in {"unix", "windows"}
    BY TunnelAssumption DEF Init
  <2>2. begun \in 0..MaxTunnels
    <3>1. begun = 0 /\ MaxTunnels \in Nat
      BY TunnelAssumption DEF Init
    <3> QED BY <3>1
  <2>3. open \in BOOLEAN
    BY DEF Init
  <2>4. cfg \in [Tunnels -> SUBSET Entries] /\ allowed \in [Tunnels -> SUBSET Entries]
    BY DEF Init
  <2>5. routes \subseteq Routes /\ spoilt \subseteq Tunnels
    BY DEF Init
  <2>6. upd \in [Tunnels -> Update]
    BY <1>1 DEF Init
  <2> QED BY <2>1, <2>2, <2>3, <2>4, <2>5, <2>6 DEF TypeOK
<1>3. Diff /\ Unbegun
  BY DEF Init, Diff, Unbegun, Idle
<1> QED BY <1>2, <1>3 DEF Init, IInv, Sound, IsOpen

LEMMA StepTypeOK ==
    ASSUME IInv, [Next]_vars
    PROVE  TypeOK'
<1> USE TunnelAssumption DEF IInv, TypeOK
<1>1. Idle \in Update
  BY DEF Idle, Update
<1>2. \A t \in Tunnels : upd[t] \in Update
  OBVIOUS
<1>3. ASSUME NEW es \in SUBSET Entries, Up(es) PROVE TypeOK'
  <2>1. begun' \in 0..MaxTunnels
    BY <1>3 DEF Up
  <2> QED BY <1>3, <2>1, RoutesAreRoutes DEF Up
<1>4. ASSUME Close PROVE TypeOK'
  BY <1>4 DEF Close
<1>5. ASSUME NEW t \in Tunnels, NEW es \in SUBSET Entries, Push(t, es) PROVE TypeOK'
  <2>1. [Idle EXCEPT !.pc = "checked", !.want = es] \in Update
    BY DEF Idle, Update
  <2> QED BY <1>5, <2>1 DEF Push
<1>6. ASSUME NEW t \in Tunnels, SetDevice(t) PROVE TypeOK'
  <2>1. upd[t].want \in SUBSET Entries /\ cfg[t] \in SUBSET Entries
    BY <1>2 DEF Update
  <2>2. [upd[t] EXCEPT !.pc = "routes", !.del = cfg[t] \ upd[t].want,
                       !.add = upd[t].want \ cfg[t]] \in Update
    BY <1>2, <2>1 DEF Update
  <2> QED BY <1>6, <2>1, <2>2 DEF SetDevice
<1>7. ASSUME NEW t \in Tunnels, DeviceIsClosed(t) \/ Updated(t) PROVE TypeOK'
  <2>1. upd[t].want \in SUBSET Entries
    BY <1>2 DEF Update
  <2> QED BY <1>1, <1>7, <2>1 DEF DeviceIsClosed, Updated
<1>8. ASSUME NEW t \in Tunnels, NEW e \in Entries, DeleteRoute(t, e) \/ AddRoute(t, e)
      PROVE TypeOK'
  <2>1. /\ [upd[t] EXCEPT !.del = @ \ {e}] \in Update
        /\ [upd[t] EXCEPT !.add = @ \ {e}] \in Update
    BY <1>2 DEF Update
  <2>2. SpoiltBy(t) \subseteq Tunnels /\ {u \in {t} : Shared(t, e)} \subseteq Tunnels
    BY DEF SpoiltBy
  <2>3. RouteOf[e] \in Routes
    BY DEF Routes
  <2> QED BY <1>8, <2>1, <2>2, <2>3 DEF DeleteRoute, AddRoute
<1>9. ASSUME NEW t \in Tunnels, NEW e \in Entries, AddFails(t, e) PROVE TypeOK'
  BY <1>1, <1>9 DEF AddFails
<1>10. ASSUME UNCHANGED vars PROVE TypeOK'
  BY <1>10 DEF vars
<1> QED BY <1>3, <1>4, <1>5, <1>6, <1>7, <1>8, <1>9, <1>10 DEF Next, RouteStep

LEMMA UpdIsTyped ==
    ASSUME IInv, NEW t \in Tunnels
    PROVE  /\ cfg[t] \subseteq Entries
           /\ upd[t].want \subseteq Entries
           /\ upd[t].del \subseteq Entries
           /\ upd[t].add \subseteq Entries
<1>1. upd[t] \in Update /\ cfg[t] \in SUBSET Entries
  BY DEF IInv, TypeOK
<1> QED BY <1>1 DEF Update

-----------------------------------------------------------------------------
(* What a step does to the update of a tunnel.                             *)
LEMMA StepDiff ==
    ASSUME IInv, [Next]_vars
    PROVE  Diff'
<1> SUFFICES ASSUME NEW u \in Tunnels, upd'[u].pc = "routes"
             PROVE  /\ upd'[u].del \subseteq cfg'[u] \ upd'[u].want
                    /\ upd'[u].add \subseteq upd'[u].want \ cfg'[u]
                    /\ upd'[u].del # {} => upd'[u].add = upd'[u].want \ cfg'[u]
  BY DEF Diff
<1> USE DEF IInv, TypeOK, Diff, Unbegun, Idle
<1>0. \A t \in Tunnels : upd[t] \in Update
  OBVIOUS
<1>1. ASSUME NEW es \in SUBSET Entries, Up(es) PROVE upd' = upd /\ cfg'[u] = cfg[u]
  <2>1. begun + 1 \in Nat /\ upd[u].pc = "routes" /\ begun \in Nat /\ u \in Nat
    BY <1>1, TunnelAssumption DEF Up, Tunnels
  <2>2. u # begun + 1
    <3> SUFFICES ASSUME u = begun + 1 PROVE FALSE
      OBVIOUS
    <3>1. u > begun
      BY <2>1
    <3> QED BY <2>1, <3>1
  <2> QED BY <1>1, <2>2 DEF Up
<1>2. ASSUME NEW t \in Tunnels, NEW es \in SUBSET Entries, Push(t, es)
      PROVE  u # t /\ upd'[u] = upd[u] /\ cfg' = cfg
  BY <1>2 DEF Push
<1>3. ASSUME NEW t \in Tunnels, SetDevice(t)
      PROVE  /\ cfg' = cfg
             /\ \/ upd'[u] = upd[u]
                \/ /\ upd'[u].del = cfg[u] \ upd'[u].want
                   /\ upd'[u].add = upd'[u].want \ cfg[u]
  BY <1>0, <1>3 DEF SetDevice, Update
<1>4. ASSUME NEW t \in Tunnels, DeviceIsClosed(t) PROVE upd'[u] = upd[u] /\ cfg' = cfg
  BY <1>4 DEF DeviceIsClosed
<1>5. ASSUME NEW t \in Tunnels, Updated(t) PROVE upd'[u] = upd[u] /\ cfg'[u] = cfg[u]
  BY <1>5 DEF Updated
<1>6. ASSUME NEW t \in Tunnels, NEW e \in Entries, AddFails(t, e)
      PROVE  upd'[u] = upd[u] /\ cfg' = cfg
  BY <1>6 DEF AddFails
<1>7. ASSUME NEW t \in Tunnels, NEW e \in Entries, DeleteRoute(t, e) \/ AddRoute(t, e)
      PROVE  /\ cfg' = cfg /\ upd[u].pc = "routes" /\ upd'[u].want = upd[u].want
             /\ upd'[u].del \subseteq upd[u].del /\ upd'[u].add \subseteq upd[u].add
             /\ upd'[u].add = upd[u].add \/ upd'[u].del = {}
  <2>1. cfg' = cfg /\ upd[t].pc = "routes"
    BY <1>7 DEF DeleteRoute, AddRoute
  <2>2. CASE t = u
    <3>1. \/ upd'[u] = [upd[u] EXCEPT !.del = @ \ {e}]
          \/ upd'[u] = [upd[u] EXCEPT !.add = @ \ {e}] /\ upd[u].del = {}
      BY <1>7, <2>2 DEF DeleteRoute, AddRoute
    <3> QED BY <1>0, <2>1, <2>2, <3>1 DEF Update
  <2>3. CASE t # u
    <3>1. upd'[u] = upd[u]
      BY <1>7, <2>3 DEF DeleteRoute, AddRoute
    <3> QED BY <2>1, <3>1
  <2> QED BY <2>2, <2>3
<1>8. ASSUME Close \/ UNCHANGED vars PROVE upd' = upd /\ cfg' = cfg
  BY <1>8 DEF Close, vars
<1> QED BY <1>1, <1>2, <1>3, <1>4, <1>5, <1>6, <1>7, <1>8 DEF Next, RouteStep

\* Tunnels are counted as they are brought up, and only they are watched.
LEMMA StepBegun ==
    ASSUME IInv, [Next]_vars
    PROVE  Unbegun' /\ (open' => begun' \in Tunnels)
<1> USE TunnelAssumption DEF IInv, TypeOK, Unbegun
<1>0. begun \in Nat /\ \A t \in Tunnels : t \in Nat
  BY DEF Tunnels
<1>1. ASSUME NEW es \in SUBSET Entries, Up(es) PROVE Unbegun' /\ begun' \in Tunnels
  <2>1. begun' = begun + 1 /\ begun < MaxTunnels /\ upd' = upd
    BY <1>1 DEF Up
  <2>2. begun' \in Tunnels
    BY <1>0, <2>1 DEF Tunnels
  <2>3. \A t \in Tunnels : t > begun' => t > begun
    BY <1>0, <2>1
  <2> QED BY <2>1, <2>2, <2>3
<1>2. ASSUME NEW t \in Tunnels, NEW es \in SUBSET Entries, Push(t, es)
      PROVE  Unbegun' /\ begun' = begun /\ open' = open
  <2>1. ~(t > begun)
    BY <1>0, <1>2 DEF Push, IsOpen
  <2> QED BY <1>2, <2>1 DEF Push
<1>3. ASSUME NEW t \in Tunnels, \/ SetDevice(t) \/ DeviceIsClosed(t) \/ Updated(t)
                               \/ RouteStep(t) \/ \E e \in Entries : AddFails(t, e)
      PROVE  Unbegun' /\ begun' = begun /\ open' = open
  <2>1. upd[t].pc # "idle" /\ begun' = begun /\ open' = open
    BY <1>3 DEF SetDevice, DeviceIsClosed, Updated, RouteStep, DeleteRoute, AddRoute, AddFails
  <2>2. ~(t > begun)
    BY <2>1 DEF Idle
  <2>3. \A u \in Tunnels \ {t} : upd'[u] = upd[u]
    BY <1>3 DEF SetDevice, DeviceIsClosed, Updated, RouteStep, DeleteRoute, AddRoute, AddFails
  <2> QED BY <2>1, <2>2, <2>3
<1>4. ASSUME Close \/ UNCHANGED vars
      PROVE  Unbegun' /\ begun' = begun /\ (open' => open)
  BY <1>4 DEF Close, vars
<1> QED BY <1>1, <1>2, <1>3, <1>4 DEF Next

-----------------------------------------------------------------------------
(* Each step changes what the routes should be as it changes the routes.   *)
LEMMA StepConsistent ==
    ASSUME IInv, [Next]_vars, NEW u \in Tunnels, Sound(u)'
    PROVE  Consistent(u)'
<1> USE DEF IInv, TypeOK, Idle
<1>0. upd[u] \in Update /\ upd' \in [Tunnels -> Update] /\ cfg[u] \in SUBSET Entries
  BY StepTypeOK
<1>1. ASSUME NEW es \in SUBSET Entries, Up(es) PROVE Consistent(u)'
  <2>1. u = begun + 1 /\ begun \in Nat
    BY <1>1, TunnelAssumption DEF Up, Sound, IsOpen
  <2>2. upd[u] = Idle
    <3>1. u > begun
      BY <2>1
    <3> QED BY <3>1 DEF Unbegun
  <2> QED BY <1>1, <2>1, <2>2 DEF Up, Consistent, Reached, Removed, Added, RoutesOf
<1>2. ASSUME NEW t \in Tunnels, NEW es \in SUBSET Entries, Push(t, es) PROVE Consistent(u)'
  BY <1>0, <1>2 DEF Push, Sound, IsOpen, Consistent, Reached, Removed, Added, RoutesOf, Update
<1>3. ASSUME NEW t \in Tunnels, SetDevice(t) PROVE Consistent(u)'
  <2>1. t = u /\ Consistent(u)
    BY <1>3 DEF SetDevice, Sound, IsOpen
  <2>2. allowed'[u] = upd'[u].want /\ upd'[u].pc = "routes" /\ routes' = routes /\ cfg' = cfg
    BY <1>3, <1>0, <2>1 DEF SetDevice, Update
  <2>3. /\ upd[u].pc = "checked" /\ upd'[u].del = cfg[u] \ upd[u].want
        /\ upd'[u].add = upd[u].want \ cfg[u] /\ upd'[u].want = upd[u].want
    BY <1>3, <1>0, <2>1 DEF SetDevice, Update
  <2>4. Removed(u)' = {} /\ Added(u)' = {}
    BY <2>2, <2>3 DEF Removed, Added
  <2>5. routes = RoutesOf(cfg[u])
    BY <2>1, <2>3 DEF Consistent, Reached
  <2>6. RoutesOf(cfg[u] \cap upd[u].want) \subseteq RoutesOf(cfg[u])
    BY DEF RoutesOf
  <2>7. Reached(u)'
    <3>1. routes' = (RoutesOf(cfg'[u]) \ RoutesOf({})) \cup RoutesOf({})
      BY <2>2, <2>5, RoutesOfNone
    <3>2. RoutesOf(cfg'[u] \cap upd'[u].want) \subseteq routes'
      BY <2>2, <2>3, <2>5, <2>6
    <3> QED BY <2>2, <2>4, <3>1, <3>2 DEF Reached, RoutesOf
  <2> QED BY <2>2, <2>7 DEF Consistent
<1>4. ASSUME NEW t \in Tunnels, DeviceIsClosed(t) PROVE Consistent(u)'
  BY <1>4 DEF DeviceIsClosed, Sound, IsOpen, Consistent, Reached, Removed, Added, RoutesOf
<1>5. ASSUME NEW t \in Tunnels, NEW e \in Entries, DeleteRoute(t, e) PROVE Consistent(u)'
  <2>1. t = u /\ Consistent(u) /\ ~Shared(u, e)
    BY <1>5 DEF DeleteRoute, Sound, IsOpen, SpoiltBy
  <2>2. /\ e \in upd[u].del /\ upd[u].pc = "routes" /\ upd'[u].pc = "routes"
        /\ upd'[u].want = upd[u].want /\ upd'[u].add = upd[u].add
        /\ upd'[u].del = upd[u].del \ {e}
        /\ cfg' = cfg /\ allowed' = allowed /\ routes' = routes \ {RouteOf[e]}
    BY <1>0, <1>5, <2>1 DEF DeleteRoute, Update
  <2>3. Removed(u)' = Removed(u) \cup {e} /\ Added(u)' = {} /\ Added(u) = {}
    BY <2>2 DEF Removed, Added, Diff
  <2>4. Removed(u) \in SUBSET Entries
    BY <2>2, UpdIsTyped DEF Removed
  <2>5. routes = RoutesOf(cfg[u]) \ RoutesOf(Removed(u))
    BY <2>1, <2>2, <2>3, RoutesOfNone DEF Consistent, Reached
  <2>6. routes' = (RoutesOf(cfg[u]) \ RoutesOf(Removed(u) \cup {e})) \cup RoutesOf({})
    BY <2>2, <2>4, <2>5, RoutesMore, RoutesOfNone
  <2>7. RoutesOf(cfg[u] \cap upd[u].want) \subseteq routes'
    <3>1. RouteOf[e] \notin RoutesOf(cfg[u] \cap upd[u].want)
      BY <2>1 DEF Shared, RoutesOf
    <3> QED BY <2>1, <2>2, <3>1 DEF Consistent, Reached
  <2>8. Reached(u)'
    BY <2>2, <2>3, <2>6, <2>7 DEF Reached, RoutesOf
  <2> QED BY <2>1, <2>2, <2>8 DEF Consistent
<1>6. ASSUME NEW t \in Tunnels, NEW e \in Entries, AddRoute(t, e) PROVE Consistent(u)'
  <2>1. t = u /\ Consistent(u)
    BY <1>6 DEF AddRoute, Sound, IsOpen, SpoiltBy
  <2>2. /\ e \in upd[u].add /\ upd[u].pc = "routes" /\ upd'[u].pc = "routes"
        /\ upd'[u].want = upd[u].want /\ upd'[u].del = upd[u].del
        /\ upd'[u].add = upd[u].add \ {e}
        /\ cfg' = cfg /\ allowed' = allowed /\ routes' = routes \cup {RouteOf[e]}
    BY <1>0, <1>6, <2>1 DEF AddRoute, Update
  <2>3. Removed(u)' = Removed(u) /\ Added(u)' = Added(u) \cup {e}
    BY <2>2 DEF Removed, Added, Diff
  <2>4. Added(u) \in SUBSET Entries
    BY <2>2, UpdIsTyped DEF Added
  <2>5. routes = (RoutesOf(cfg[u]) \ RoutesOf(Removed(u))) \cup RoutesOf(Added(u))
    BY <2>1, <2>2 DEF Consistent, Reached
  <2>6. routes' = (RoutesOf(cfg[u]) \ RoutesOf(Removed(u))) \cup RoutesOf(Added(u) \cup {e})
    BY <2>2, <2>4, <2>5, RoutesMore
  <2>7. RoutesOf(cfg[u] \cap upd[u].want) \subseteq routes'
    BY <2>1, <2>2 DEF Consistent, Reached
  <2>8. Reached(u)'
    BY <2>2, <2>3, <2>6, <2>7 DEF Reached, RoutesOf
  <2> QED BY <2>1, <2>2, <2>8 DEF Consistent
<1>7. ASSUME NEW t \in Tunnels, NEW e \in Entries, AddFails(t, e) PROVE Consistent(u)'
  BY <1>7 DEF AddFails, Sound, IsOpen, Consistent, Reached, Removed, Added, RoutesOf
<1>8. ASSUME NEW t \in Tunnels, Updated(t) PROVE Consistent(u)'
  <2>1. Consistent(u)
    BY <1>8 DEF Updated, Sound, IsOpen
  <2>2. CASE t = u
    <3>1. /\ upd[u].pc = "routes" /\ upd[u].del = {} /\ upd[u].add = {}
          /\ cfg'[u] = upd[u].want /\ upd'[u].pc = "idle"
          /\ routes' = routes /\ allowed' = allowed
      BY <1>8, <2>2 DEF Updated
    <3>2. Removed(u) = cfg[u] \ upd[u].want /\ Added(u) = upd[u].want \ cfg[u]
      BY <3>1 DEF Removed, Added
    <3>3. /\ routes = (RoutesOf(cfg[u]) \ RoutesOf(cfg[u] \ upd[u].want))
                       \cup RoutesOf(upd[u].want \ cfg[u])
          /\ RoutesOf(cfg[u] \cap upd[u].want) \subseteq routes
      BY <2>1, <2>2, <3>1, <3>2 DEF Consistent, Reached
    <3>4. routes = RoutesOf(upd[u].want)
      BY <3>3, RoutesOfTheUpdate
    <3>5. Reached(u)'
      BY <3>1, <3>4 DEF Reached, RoutesOf
    <3> QED BY <2>1, <3>1, <3>5 DEF Consistent
  <2>3. CASE t # u
    BY <1>8, <2>1, <2>3 DEF Updated, Consistent, Reached, Removed, Added, RoutesOf
  <2> QED BY <2>2, <2>3
<1>9. ASSUME Close PROVE Consistent(u)'
  BY <1>9 DEF Close, Sound, IsOpen
<1>10. ASSUME UNCHANGED vars PROVE Consistent(u)'
  BY <1>10 DEF vars, Sound, IsOpen, Consistent, Reached, Removed, Added, RoutesOf
<1> QED BY <1>1, <1>2, <1>3, <1>4, <1>5, <1>6, <1>7, <1>8, <1>9, <1>10 DEF Next, RouteStep

LEMMA Invariant == Spec => []IInv
<1>1. IInv /\ [Next]_vars => IInv'
  <2> SUFFICES ASSUME IInv, [Next]_vars PROVE IInv'
    OBVIOUS
  <2>1. TypeOK' /\ Diff'
    BY StepTypeOK, StepDiff
  <2>2. Unbegun' /\ (open' => begun' \in Tunnels)
    BY StepBegun
  <2>3. \A t \in Tunnels : Sound(t)' => Consistent(t)'
    BY StepConsistent
  <2> QED BY <2>1, <2>2, <2>3 DEF IInv
<1> QED BY InitIInv, <1>1, PTL DEF Spec

-----------------------------------------------------------------------------
\* Every variable of the tunnels keeps its type (pkg/wgtun).
THEOREM TypeCorrect == Spec => []TypeOK
<1>1. IInv => TypeOK
  BY DEF IInv
<1> QED BY <1>1, Invariant, PTL

\* However many routes there are, whichever entries share one, and however
\* updates, failures, Up and Close interleave, the routes of an open tunnel that was not spoilt are those its
\* update has got to (UpdateRoutes).
THEOREM RoutesFollowTheUpdateCorrect == Spec => []RoutesFollowTheUpdate
<1>1. IInv => RoutesFollowTheUpdate
  BY DEF IInv, RoutesFollowTheUpdate, Sound, Consistent, Reached
<1> QED BY <1>1, Invariant, PTL

\* The device has the entries whose routes are installed, once an update is
\* over or refused (UpdateRoutes).
THEOREM DeviceAndRoutesAgreeCorrect == Spec => []DeviceAndRoutesAgree
<1>1. IInv => DeviceAndRoutesAgree
  BY DEF IInv, DeviceAndRoutesAgree, Sound, Consistent, Reached
<1> QED BY <1>1, Invariant, PTL
=============================================================================
