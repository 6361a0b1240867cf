------------------------- MODULE RenewalClock_proofs -------------------------
(***************************************************************************)
(* What holds of RenewalClock for all delays, time-outs and leases.        *)
(***************************************************************************)
EXTENDS RenewalClock, TLAPS

\* The assumptions on the delays, one by one.
LEMMA Constants ==
    /\ HelperFloor \in Nat \ {0} /\ AppFloor \in Nat \ {0}
    /\ RetryAfter \in Nat \ {0} /\ CallTime \in Nat \ {0} /\ Patience \in Nat \ {0}
    /\ HelperCeil \in Nat /\ AppCeil \in Nat
    /\ AppFloor < HelperFloor /\ HelperFloor < HelperCeil
    /\ AppFloor < AppCeil /\ AppCeil < HelperCeil
    /\ RetryAfter <= HelperCeil
    /\ HelperFloor > 2
    /\ TTLs \subseteq Nat \ {0} /\ Naps \subseteq Nat
    /\ MaxUpsets \in Nat /\ MaxMisses \in Nat
<1>1. \A x \in {HelperFloor, HelperCeil, AppFloor, AppCeil, RetryAfter, CallTime, Patience} :
         x \in Nat \ {0}
  BY ClockAssumption, Zenon DEF ClockAssumption
<1>2. /\ HelperFloor \in Nat \ {0} /\ AppFloor \in Nat \ {0}
      /\ RetryAfter \in Nat \ {0} /\ CallTime \in Nat \ {0} /\ Patience \in Nat \ {0}
      /\ HelperCeil \in Nat /\ AppCeil \in Nat
  BY <1>1
<1> QED  BY <1>2, ClockAssumption DEF ClockAssumption

\* 40% is no more than half, in whole units too.
LEMMA Shares ==
    ASSUME NEW r \in Nat
    PROVE  /\ r \div 2 \in Nat
           /\ (r * 2) \div 5 \in Nat
           /\ (r * 2) \div 5 <= r \div 2
           /\ (r * 2) \div 5 = r \div 2 => r < 6
<1>1. r \div 2 \in Nat  OBVIOUS
<1>2. (r * 2) \div 5 \in Nat  OBVIOUS
<1>3. (r * 2) \div 5 <= r \div 2  OBVIOUS
<1>4. (r * 2) \div 5 = r \div 2 => r < 6  OBVIOUS
<1> QED  BY <1>1, <1>2, <1>3, <1>4

\* The app waits no longer for a lease that has less left.
LEMMA SharesGrow ==
    ASSUME NEW r \in Nat, NEW s \in Nat, s <= r
    PROVE  (s * 2) \div 5 <= (r * 2) \div 5
  OBVIOUS

\* The delays are positive and have their ceilings, and a renewal that is
\* retried is not later than a renewal ever is.
LEMMA DelaysAreBounded ==
    ASSUME NEW r \in Nat
    PROVE  /\ HelperDelay(r) \in 1..HelperCeil
           /\ AppDelay(r) \in 1..AppCeil
           /\ RetryIn(r) \in 1..HelperCeil
  BY Constants, Shares DEF HelperDelay, AppDelay, RetryIn, Least, Greatest

\* The app's share of a lease is over before the helper's: "at 40% of what the
\* lease has left: before the helper would renew on its own (at half)"
\* (appcore.go:60).
LEMMA AppDelayIsShorter ==
    ASSUME NEW r \in Nat
    PROVE  AppDelay(r) < HelperDelay(r)
  BY Constants, Shares DEF HelperDelay, AppDelay, Least, Greatest

\* The app waits no longer for a lease that has less left.
LEMMA AppDelayIsMonotonic ==
    ASSUME NEW r \in Nat, NEW s \in Nat, s <= r
    PROVE  AppDelay(s) <= AppDelay(r)
  BY Constants, Shares, SharesGrow DEF AppDelay, Least, Greatest

\* What is left of a date once d has passed.
LEMMA SoonerIsLess ==
    ASSUME NEW n \in Nat, NEW d \in Nat
    PROVE  Sooner(n, d) \in 0..n
  BY DEF Sooner, Greatest

-----------------------------------------------------------------------------
(* Types.                                                                  *)

\* A date that d units bring nearer keeps its bound.
LEMMA SoonerIn ==
    ASSUME NEW m \in Nat, NEW n \in 0..m, NEW d \in Nat
    PROVE  Sooner(n, d) \in 0..m
  BY DEF Sooner, Greatest

\* A lease that is set, and its renewal, are within their bounds.
LEMMA SetLeaseTyped ==
    ASSUME TypeOK, NEW l \in 0..ttl, SetLease(l), ttl' = ttl
    PROVE  /\ leaseLeft' \in 0..ttl' /\ renewIn' \in 0..HelperCeil /\ wake' \in BOOLEAN
           /\ ahead' \in {"no", "now", "slept"} /\ misses' \in 0..MaxMisses /\ napped' \in BOOLEAN
<1>1. ttl \in Nat /\ l \in Nat
  BY Constants DEF TypeOK
<1>2. HelperDelay(l) \in 1..HelperCeil
  BY <1>1, DelaysAreBounded
<1>3. leaseLeft' \in 0..ttl' /\ renewIn' \in 0..HelperCeil /\ misses' \in 0..MaxMisses
  BY <1>1, <1>2, Constants DEF SetLease
<1>4. wake' \in BOOLEAN /\ ahead' \in {"no", "now", "slept"} /\ napped' \in BOOLEAN
  BY DEF SetLease
<1> QED  BY <1>3, <1>4

\* What is left of a lease that was granted.
LEMMA GrantTyped ==
    ASSUME TypeOK, NEW w \in Workers, call[w].grant # Unseen
    PROVE  GrantOf(w) \in 0..ttl
  BY Constants DEF TypeOK, Call, GrantOf, Unseen

\* A worker's call may be replaced by any call.
LEMMA CallTyped ==
    ASSUME TypeOK, ttl' = ttl, NEW w \in Workers, NEW c \in Call,
           call' = [call EXCEPT ![w] = c]
    PROVE  call' \in [Workers -> Call']
  BY DEF TypeOK, Call

\* What a worker begins or ends with is a call.
LEMMA NewCallTyped ==
    ASSUME TypeOK
    PROVE  /\ Idle \in Call
           /\ \A m \in BOOLEAN : \A pc \in {"heartbeat", "enroll"} : Sent(pc, m) \in Call
  BY Constants DEF TypeOK, Call, Idle, Sent, Unseen

\* The tunnel just brought up.
LEMMA TypeInit == Init => TypeOK
<1> SUFFICES ASSUME Init PROVE TypeOK  OBVIOUS
<1>1. /\ ttl \in Nat \ {0} /\ CallTime \in Nat \ {0} /\ HelperCeil \in Nat
      /\ MaxMisses \in Nat /\ MaxUpsets \in Nat
  BY Constants DEF Init
<1>2. HelperDelay(ttl) \in 1..HelperCeil
  BY <1>1, DelaysAreBounded
<1>3. Idle \in Call
  BY <1>1 DEF Idle, Call, Unseen
<1>4. Greatest(AppCeil, Patience) \in Nat
  BY Constants DEF Greatest
<1>5. /\ serverLeft \in 0..ttl /\ leaseLeft \in 0..ttl /\ renewIn \in 0..HelperCeil
      /\ timerIn \in 0..HelperCeil /\ appIn \in 0..Greatest(AppCeil, Patience)
      /\ misses \in 0..MaxMisses /\ cutFor \in Nat /\ upsets \in 0..MaxUpsets
  BY <1>1, <1>2, <1>4 DEF Init
<1>6. /\ ttl \in TTLs /\ up \in BOOLEAN /\ wake \in BOOLEAN /\ napped \in BOOLEAN
      /\ app \in {"away", "status", "sleep", "calling"} /\ ahead \in {"no", "now", "slept"}
      /\ call \in [Workers -> Call]
  BY <1>3 DEF Init
<1> QED  BY <1>5, <1>6 DEF TypeOK

\* A renewal that is over leaves calls, timer and app as they should be.
LEMMA OverTyped ==
    ASSUME TypeOK, NEW w \in Workers, Over(w), ttl' = ttl, renewIn' \in 0..HelperCeil
    PROVE  /\ call' \in [Workers -> Call'] /\ timerIn' \in 0..HelperCeil
           /\ app' \in {"away", "status", "sleep", "calling"}
           /\ appIn' \in 0..Greatest(AppCeil, Patience)
<1>1. Idle \in Call
  BY NewCallTyped
<1>2. call' \in [Workers -> Call']
  BY <1>1, CallTyped DEF Over
<1>3. Greatest(AppCeil, Patience) \in Nat
  BY Constants DEF Greatest
<1>4. CASE w = "loop"
  BY <1>2, <1>4 DEF Over, Rearm, app_vars, TypeOK
<1>5. CASE w # "loop"
  BY <1>2, <1>3, <1>5 DEF Over, AppAnswered, TypeOK
<1> QED  BY <1>4, <1>5

\* drop leaves everything at zero.
LEMMA TunnelDownTyped ==
    ASSUME TypeOK, TunnelDown
    PROVE  TypeOK'
<1>1. ttl \in Nat /\ Greatest(AppCeil, Patience) \in Nat /\ HelperCeil \in Nat /\ MaxMisses \in Nat
  BY Constants DEF TypeOK, Greatest
<1>2. call' \in [Workers -> Call']
  BY NewCallTyped DEF TunnelDown, Call
<1>3. /\ serverLeft' \in 0..ttl' /\ leaseLeft' \in 0..ttl' /\ renewIn' \in 0..HelperCeil
      /\ timerIn' \in 0..HelperCeil /\ appIn' \in 0..Greatest(AppCeil, Patience)
      /\ misses' \in 0..MaxMisses /\ cutFor' \in Nat
  BY <1>1 DEF TunnelDown
<1>4. /\ ttl' \in TTLs /\ up' \in BOOLEAN /\ wake' \in BOOLEAN /\ napped' \in BOOLEAN
      /\ app' \in {"away", "status", "sleep", "calling"} /\ ahead' \in {"no", "now", "slept"}
      /\ upsets' \in 0..MaxUpsets
  BY DEF TunnelDown, TypeOK
<1> QED  BY <1>2, <1>3, <1>4 DEF TypeOK

\* One renewal's step.
LEMMA TypeRenewal ==
    ASSUME TypeOK, NEW w \in Workers, Renewal(w)
    PROVE  TypeOK'
<1> USE DEF server_vars, renewal_vars, app_vars
<1>1. CASE ServerGrants(w)
  <2>1. [call[w] EXCEPT !.grant = ttl] \in Call
    BY Constants DEF TypeOK, Call, Unseen
  <2>2. call' \in [Workers -> Call']
    BY <1>1, <2>1, CallTyped DEF ServerGrants
  <2> QED  BY <1>1, <2>2, Constants DEF ServerGrants, TypeOK
<1>2. CASE Renewed(w)
  <2>1. /\ leaseLeft' \in 0..ttl' /\ renewIn' \in 0..HelperCeil /\ wake' \in BOOLEAN
        /\ ahead' \in {"no", "now", "slept"} /\ misses' \in 0..MaxMisses /\ napped' \in BOOLEAN
    <3>1. CASE call[w].mine
      BY <1>2, <3>1, GrantTyped, SetLeaseTyped DEF Renewed
    <3>2. CASE ~call[w].mine
      BY <1>2, <3>2 DEF Renewed, TypeOK
    <3> QED  BY <3>1, <3>2
  <2> QED  BY <1>2, <2>1, OverTyped DEF Renewed, TypeOK
<1>3. CASE Unanswered(w)
  <2>1. /\ leaseLeft' \in 0..ttl' /\ renewIn' \in 0..HelperCeil /\ wake' \in BOOLEAN
        /\ ahead' \in {"no", "now", "slept"} /\ misses' \in 0..MaxMisses /\ napped' \in BOOLEAN
    <3>1. CASE call[w].mine
      <4>1. leaseLeft \in Nat
        BY Constants DEF TypeOK
      <4>2. RetryIn(leaseLeft) \in 0..HelperCeil
        BY <4>1, DelaysAreBounded, Constants
      <4>3. misses' \in 0..MaxMisses
        BY <1>3, <3>1, Constants DEF Unanswered, Retry, TypeOK
      <4> QED  BY <1>3, <3>1, <4>2, <4>3 DEF Unanswered, Retry, TypeOK
    <3>2. CASE ~call[w].mine
      BY <1>3, <3>2 DEF Unanswered, TypeOK
    <3> QED  BY <3>1, <3>2
  <2> QED  BY <1>3, <2>1, OverTyped DEF Unanswered, TypeOK
<1>4. CASE Forgotten(w)
  <2>1. Sent("enroll", call[w].mine) \in Call
    BY NewCallTyped DEF TypeOK, Call
  <2>2. call' \in [Workers -> Call']
    BY <1>4, <2>1, CallTyped DEF Forgotten
  <2> QED  BY <1>4, <2>2 DEF Forgotten, TypeOK
<1>5. CASE Refused(w)
  BY <1>5, TunnelDownTyped DEF Refused
<1>6. CASE Enrolled(w)
  <2>1. CASE call[w].mine
    <3>1. /\ leaseLeft' \in 0..ttl' /\ renewIn' \in 0..HelperCeil /\ wake' \in BOOLEAN
          /\ ahead' \in {"no", "now", "slept"} /\ misses' \in 0..MaxMisses /\ napped' \in BOOLEAN
      BY <1>6, <2>1, GrantTyped, SetLeaseTyped DEF Enrolled
    <3>2. \A v \in Workers : [call[v] EXCEPT !.mine = FALSE] \in Call
      BY DEF TypeOK, Call
    <3>3. call' \in [Workers -> Call']
      BY <1>6, <2>1, <3>2, NewCallTyped DEF Enrolled, Call
    <3>4. Greatest(AppCeil, Patience) \in Nat
      BY Constants DEF Greatest
    <3>5. /\ app' \in {"away", "status", "sleep", "calling"}
          /\ appIn' \in 0..Greatest(AppCeil, Patience)
      BY <1>6, <2>1, <3>4 DEF Enrolled, AppAnswered, TypeOK
    <3> QED  BY <1>6, <2>1, <3>1, <3>3, <3>5 DEF Enrolled, Rearm, TypeOK
  <2>2. CASE ~call[w].mine
    <3>1. renewIn' \in 0..HelperCeil
      BY <1>6, <2>2 DEF Enrolled, TypeOK
    <3> QED  BY <1>6, <2>2, <3>1, OverTyped DEF Enrolled, TypeOK
  <2> QED  BY <2>1, <2>2
<1>7. CASE EnrollFails(w)
  <2>1. CASE call[w].mine
    BY <1>7, <2>1, TunnelDownTyped DEF EnrollFails
  <2>2. CASE ~call[w].mine
    <3>1. renewIn' \in 0..HelperCeil
      BY <1>7, <2>2 DEF EnrollFails, TypeOK
    <3> QED  BY <1>7, <2>2, <3>1, OverTyped DEF EnrollFails, TypeOK
  <2> QED  BY <2>1, <2>2
<1> QED  BY <1>1, <1>2, <1>3, <1>4, <1>5, <1>6, <1>7 DEF Renewal

\* A unit of time passes.
LEMMA TypeTick ==
    ASSUME TypeOK, Tick
    PROVE  TypeOK'
<1>1. /\ ttl \in Nat /\ HelperCeil \in Nat /\ CallTime \in Nat
      /\ Greatest(AppCeil, Patience) \in Nat
  BY Constants DEF TypeOK, Greatest
<1>2. serverLeft' \in 0..ttl' /\ leaseLeft' \in 0..ttl'
  BY <1>1, SoonerIn DEF Tick, LeasesRunDown, TypeOK
<1>3. /\ renewIn' \in 0..HelperCeil /\ timerIn' \in 0..HelperCeil
      /\ appIn' \in 0..Greatest(AppCeil, Patience)
  BY <1>1, SoonerIn DEF Tick, TypeOK
<1>4. call' \in [Workers -> Call']
  <2> SUFFICES ASSUME NEW w \in Workers
               PROVE  [call[w] EXCEPT !.left = Sooner(@, 1),
                                      !.grant = IF @ = Unseen THEN @ ELSE Sooner(@, 1)] \in Call
    BY DEF Tick, TypeOK, Call
  <2>1. call[w] \in Call /\ call[w].left \in 0..CallTime /\ call[w].grant \in Unseen..ttl
    BY DEF TypeOK, Call
  <2>2. Sooner(call[w].left, 1) \in 0..CallTime
    BY <1>1, <2>1, SoonerIn
  <2>3. call[w].grant # Unseen => Sooner(call[w].grant, 1) \in Unseen..ttl
    <3>1. call[w].grant # Unseen => call[w].grant \in 0..ttl
      BY <1>1, <2>1 DEF Unseen
    <3>2. call[w].grant # Unseen => Sooner(call[w].grant, 1) \in 0..ttl
      BY <1>1, <3>1, SoonerIn
    <3> QED  BY <1>1, <3>2 DEF Unseen
  <2> QED  BY <2>1, <2>2, <2>3 DEF Call
<1>5. cutFor' \in Nat
  <2>1. cutFor + 1 \in Nat /\ 0 \in Nat
    BY DEF TypeOK
  <2> QED  BY <2>1 DEF Tick
<1>6. ahead' \in {"no", "now", "slept"}
  BY DEF Tick, TypeOK
<1> QED  BY <1>2, <1>3, <1>4, <1>5, <1>6 DEF Tick, TypeOK

\* The device is suspended.
LEMMA TypeSuspend ==
    ASSUME TypeOK, NEW d \in Naps, Suspend(d)
    PROVE  TypeOK'
<1>1. ttl \in Nat /\ d \in Nat /\ MaxUpsets \in Nat
  BY Constants DEF TypeOK
<1>2. serverLeft' \in 0..ttl' /\ leaseLeft' \in 0..ttl'
  BY <1>1, SoonerIn DEF Suspend, LeasesRunDown, TypeOK
<1>3. call' \in [Workers -> Call']
  <2> SUFFICES ASSUME NEW w \in Workers
               PROVE  [call[w] EXCEPT !.grant = IF @ = Unseen THEN @ ELSE Sooner(@, d)] \in Call
    BY DEF Suspend, TypeOK, Call
  <2>1. call[w] \in Call /\ call[w].grant \in Unseen..ttl
    BY DEF TypeOK, Call
  <2>2. call[w].grant # Unseen => Sooner(call[w].grant, d) \in Unseen..ttl
    <3>1. call[w].grant # Unseen => call[w].grant \in 0..ttl
      BY <1>1, <2>1 DEF Unseen
    <3>2. call[w].grant # Unseen => Sooner(call[w].grant, d) \in 0..ttl
      BY <1>1, <3>1, SoonerIn
    <3> QED  BY <1>1, <3>2 DEF Unseen
  <2> QED  BY <2>1, <2>2 DEF Call
<1>4. upsets' \in 0..MaxUpsets
  BY <1>1 DEF Suspend, TypeOK
<1> QED  BY <1>2, <1>3, <1>4 DEF Suspend, app_vars, TypeOK

\* The app's loop.
LEMMA TypeKeepRenewing ==
    ASSUME TypeOK, KeepRenewing
    PROVE  TypeOK'
<1> USE DEF server_vars, renewal_vars
<1>1. Greatest(AppCeil, Patience) \in Nat /\ AppCeil \in Nat /\ Patience \in Nat
  BY Constants DEF Greatest
<1>2. CASE AppSleeps
  <2>1. leaseLeft \in Nat
    BY Constants DEF TypeOK
  <2>2. AppDelay(leaseLeft) \in 0..Greatest(AppCeil, Patience)
    BY <1>1, <2>1, DelaysAreBounded DEF Greatest
  <2>3. 0 \in 0..Greatest(AppCeil, Patience)
    BY <1>1
  <2> QED  BY <1>2, <2>2, <2>3 DEF AppSleeps, TypeOK, Call
<1>3. CASE AppReturns
  BY <1>3 DEF AppReturns, TypeOK, Call
<1>4. CASE AppHasNoBearer
  BY <1>4 DEF AppHasNoBearer, TypeOK, Call
<1>5. CASE AppRenews
  <2>1. Sent("heartbeat", TRUE) \in Call
    BY NewCallTyped
  <2>2. call' \in [Workers -> Call']
    BY <1>5, <2>1, CallTyped DEF AppRenews, Workers
  <2>3. Patience \in 0..Greatest(AppCeil, Patience)
    BY <1>1 DEF Greatest
  <2> QED  BY <1>5, <2>2, <2>3 DEF AppRenews, TypeOK
<1>6. CASE AppGivesUp
  BY <1>6 DEF AppGivesUp, TypeOK, Call
<1> QED  BY <1>2, <1>3, <1>4, <1>5, <1>6 DEF KeepRenewing

\* Every step keeps the types.
LEMMA TypeNext ==
    ASSUME TypeOK, [Next]_vars
    PROVE  TypeOK'
<1> USE DEF server_vars, renewal_vars, app_vars
<1>1. CASE Tick
  BY <1>1, TypeTick
<1>2. CASE LoopWoken
  BY <1>2 DEF LoopWoken, TypeOK, Call
<1>3. CASE LoopFires
  <2>1. Sent("heartbeat", TRUE) \in Call
    BY NewCallTyped
  <2>2. call' \in [Workers -> Call']
    BY <1>3, <2>1, CallTyped DEF LoopFires, Workers
  <2> QED  BY <1>3, <2>2 DEF LoopFires, TypeOK
<1>4. CASE \E w \in Workers : Renewal(w)
  BY <1>4, TypeRenewal
<1>5. CASE KeepRenewing
  BY <1>5, TypeKeepRenewing
<1>6. CASE \E d \in Naps : Suspend(d)
  BY <1>6, TypeSuspend
<1>7. CASE ServerForgets
  <2>1. serverLeft' \in 0..ttl' /\ upsets' \in 0..MaxUpsets
    BY <1>7, Constants DEF ServerForgets, TypeOK
  <2> QED  BY <1>7, <2>1 DEF ServerForgets, TypeOK, Call
<1>8. CASE UNCHANGED vars
  BY <1>8 DEF vars, TypeOK, Call
<1> QED  BY <1>1, <1>2, <1>3, <1>4, <1>5, <1>6, <1>7, <1>8 DEF Next

\* TypeOK holds of RenewalClock, whatever the delays and the leases.
THEOREM TypeCorrect == Spec => []TypeOK
<1>1. Init => TypeOK
  BY TypeInit
<1>2. TypeOK /\ [Next]_vars => TypeOK'
  BY TypeNext
<1> QED  BY <1>1, <1>2, PTL DEF Spec

-----------------------------------------------------------------------------
(* The lease is not overestimated.                                         *)

\* Nor is what an answer on its way says of it.
GrantsAreNotOverestimated ==
    serverLeft = 0 \/ \A w \in Workers : call[w].grant <= serverLeft

LeaseInv == TypeOK /\ LeaseIsNotOverestimated /\ GrantsAreNotOverestimated

\* The leases run down together.
LEMMA RunDownTogether ==
    ASSUME TypeOK, LeaseIsNotOverestimated, NEW d \in Nat, LeasesRunDown(d)
    PROVE  LeaseIsNotOverestimated'
<1>1. serverLeft \in Nat /\ leaseLeft \in Nat
  BY Constants DEF TypeOK
<1> QED  BY <1>1 DEF LeasesRunDown, LeaseIsNotOverestimated, Sooner, Greatest

\* So do the leases on their way and the server's.
LEMMA GrantsRunDown ==
    ASSUME TypeOK, GrantsAreNotOverestimated, NEW d \in Nat, LeasesRunDown(d), NEW w \in Workers,
           call'[w].grant = IF call[w].grant = Unseen THEN Unseen ELSE Sooner(call[w].grant, d)
    PROVE  serverLeft' = 0 \/ call'[w].grant <= serverLeft'
<1>1. /\ serverLeft \in Nat /\ ttl \in Nat
      /\ call[w].grant = Unseen \/ call[w].grant \in Nat
  BY Constants DEF TypeOK, Call, Unseen
<1>2. serverLeft = 0 \/ call[w].grant <= serverLeft
  BY DEF GrantsAreNotOverestimated
<1> QED  BY <1>1, <1>2 DEF LeasesRunDown, Sooner, Greatest, Unseen

\* No step of a renewal makes the helper's lease the longer one.
LEMMA LeaseRenewal ==
    ASSUME LeaseInv, NEW w \in Workers, Renewal(w)
    PROVE  LeaseIsNotOverestimated' /\ GrantsAreNotOverestimated'
<1> USE DEF server_vars, renewal_vars, LeaseIsNotOverestimated, GrantsAreNotOverestimated
<1>1. /\ ttl \in Nat \ {0} /\ serverLeft \in 0..ttl /\ leaseLeft \in 0..ttl
      /\ call \in [Workers -> Call]
      /\ \A v \in Workers : call[v].grant \in Unseen..ttl
  BY Constants DEF LeaseInv, TypeOK, Call
<1>2. Unseen = -1 /\ Idle.grant = Unseen /\ \A m \in BOOLEAN : Sent("enroll", m).grant = Unseen
  BY DEF Unseen, Idle, Sent
<1>3. ASSUME Over(w), UNCHANGED serverLeft
      PROVE  GrantsAreNotOverestimated'
  BY <1>1, <1>2, <1>3 DEF Over, LeaseInv
<1>4. ASSUME TunnelDown
      PROVE  serverLeft' = 0
  BY <1>4 DEF TunnelDown
<1>5. ASSUME call[w].grant # Unseen, SetLease(GrantOf(w)), UNCHANGED serverLeft
      PROVE  LeaseIsNotOverestimated'
  BY <1>1, <1>5 DEF SetLease, GrantOf, LeaseInv
<1>6. CASE ServerGrants(w)
  <2>1. LeaseIsNotOverestimated'
    BY <1>1, <1>6 DEF ServerGrants
  <2>2. \A v \in Workers : call'[v].grant = IF v = w THEN ttl ELSE call[v].grant
    BY <1>1, <1>6 DEF ServerGrants, Call
  <2> QED  BY <1>1, <1>6, <2>1, <2>2 DEF ServerGrants
<1>7. CASE Renewed(w)
  BY <1>3, <1>5, <1>7 DEF Renewed, LeaseInv
<1>8. CASE Unanswered(w)
  BY <1>3, <1>8 DEF Unanswered, Retry, LeaseInv
<1>9. CASE Forgotten(w)
  BY <1>9 DEF Forgotten
<1>10. CASE Refused(w)
  BY <1>4, <1>10 DEF Refused
<1>11. CASE Enrolled(w)
  <2>1. CASE call[w].mine
    <3>1. \A v \in Workers : call'[v].grant \in {Unseen, call[v].grant}
      BY <1>1, <1>2, <1>11, <2>1 DEF Enrolled, Call
    <3>2. LeaseIsNotOverestimated'
      BY <1>5, <1>11, <2>1 DEF Enrolled
    <3> QED  BY <1>1, <1>2, <1>11, <3>1, <3>2 DEF Enrolled, LeaseInv
  <2>2. CASE ~call[w].mine
    BY <1>3, <1>11, <2>2 DEF Enrolled, LeaseInv
  <2> QED  BY <2>1, <2>2
<1>12. CASE EnrollFails(w)
  BY <1>3, <1>4, <1>12 DEF EnrollFails, LeaseInv
<1> QED  BY <1>6, <1>7, <1>8, <1>9, <1>10, <1>11, <1>12 DEF Renewal

\* Every step keeps LeaseInv.
LEMMA LeaseNext ==
    ASSUME LeaseInv, [Next]_vars
    PROVE  LeaseInv'
<1> USE DEF server_vars, renewal_vars, app_vars
<1>1. TypeOK'
  BY TypeNext DEF LeaseInv
<1>2. /\ ttl \in Nat \ {0} /\ serverLeft \in 0..ttl
      /\ call \in [Workers -> Call]
      /\ \A v \in Workers : call[v].grant \in Unseen..ttl
  BY Constants DEF LeaseInv, TypeOK, Call
<1>3. Unseen = -1 /\ Sent("heartbeat", TRUE).grant = Unseen
  BY DEF Sent, Unseen
<1>4. CASE Tick
  <2>1. LeasesRunDown(1)
    BY <1>4 DEF Tick
  <2>2. \A w \in Workers :
          call'[w].grant = IF call[w].grant = Unseen THEN Unseen ELSE Sooner(call[w].grant, 1)
    BY <1>2, <1>4 DEF Tick, Call
  <2> QED  BY <1>1, <2>1, <2>2, RunDownTogether, GrantsRunDown DEF LeaseInv, GrantsAreNotOverestimated
<1>5. CASE LoopWoken
  BY <1>1, <1>5 DEF LoopWoken, LeaseInv, LeaseIsNotOverestimated, GrantsAreNotOverestimated
<1>6. CASE LoopFires
  <2>1. \A w \in Workers : call'[w].grant \in {Unseen, call[w].grant}
    BY <1>2, <1>3, <1>6 DEF LoopFires
  <2>2. UNCHANGED <<serverLeft, leaseLeft>>
    BY <1>6 DEF LoopFires
  <2>4. GrantsAreNotOverestimated'
    BY <1>2, <1>3, <2>1, <2>2 DEF LeaseInv, GrantsAreNotOverestimated
  <2> QED  BY <1>1, <2>2, <2>4 DEF LeaseInv, LeaseIsNotOverestimated
<1>7. CASE \E w \in Workers : Renewal(w)
  BY <1>1, <1>7, LeaseRenewal DEF LeaseInv
<1>8. CASE KeepRenewing
  <2>1. UNCHANGED <<serverLeft, leaseLeft>>
    BY <1>8 DEF KeepRenewing, AppSleeps, AppReturns, AppHasNoBearer, AppRenews, AppGivesUp
  <2>2. call' = call \/ call' = [call EXCEPT !["app"] = Sent("heartbeat", TRUE)]
    BY <1>8 DEF KeepRenewing, AppSleeps, AppReturns, AppHasNoBearer, AppRenews, AppGivesUp
  <2>3. \A w \in Workers : call'[w].grant \in {Unseen, call[w].grant}
    BY <1>2, <1>3, <2>2
  <2>4. GrantsAreNotOverestimated'
    BY <1>2, <1>3, <2>1, <2>3 DEF LeaseInv, GrantsAreNotOverestimated
  <2> QED  BY <1>1, <2>1, <2>4 DEF LeaseInv, LeaseIsNotOverestimated
<1>9. CASE \E d \in Naps : Suspend(d)
  <2> PICK d \in Naps : Suspend(d)
    BY <1>9
  <2>1. d \in Nat /\ LeasesRunDown(d)
    BY Constants DEF Suspend
  <2>2. \A w \in Workers :
          call'[w].grant = IF call[w].grant = Unseen THEN Unseen ELSE Sooner(call[w].grant, d)
    BY <1>2 DEF Suspend, Call
  <2> QED  BY <1>1, <2>1, <2>2, RunDownTogether, GrantsRunDown DEF LeaseInv, GrantsAreNotOverestimated
<1>10. CASE ServerForgets
  BY <1>1, <1>10 DEF ServerForgets, LeaseInv, LeaseIsNotOverestimated, GrantsAreNotOverestimated
<1>11. CASE UNCHANGED vars
  BY <1>1, <1>11 DEF vars, LeaseInv, LeaseIsNotOverestimated, GrantsAreNotOverestimated
<1> QED  BY <1>4, <1>5, <1>6, <1>7, <1>8, <1>9, <1>10, <1>11 DEF Next

\* The lease has just been given.
LEMMA LeaseInit == Init => LeaseInv
<1> SUFFICES ASSUME Init PROVE LeaseInv  OBVIOUS
<1>1. TypeOK
  BY TypeInit
<1>2. ttl \in Nat /\ \A w \in Workers : call[w].grant = -1
  BY Constants DEF Init, Idle, Unseen
<1> QED  BY <1>1, <1>2 DEF Init, LeaseInv, LeaseIsNotOverestimated, GrantsAreNotOverestimated

\* Whatever the delays, and whichever answers overlap: the helper's lease is
\* not longer than the server's.
THEOREM LeaseIsNotOverestimatedCorrect == Spec => []LeaseIsNotOverestimated
<1>1. LeaseInv => LeaseIsNotOverestimated
  BY DEF LeaseInv
<1> QED  BY <1>1, LeaseInit, LeaseNext, PTL DEF Spec

-----------------------------------------------------------------------------
(* The app renews first.                                                   *)

LoopIdle == call["loop"] = Idle

\* However the loop learns of the lease just set -- from the token, or from
\* renewBy when it goes round -- its next renewal is due after d.
DueAfter(d) == renewIn > d /\ (LoopIdle /\ ~wake => timerIn > d)

\* The loop's calls are about the live session.
LoopIsCurrent == ~LoopIdle => call["loop"].mine

FirstInv ==
    /\ TypeOK
    /\ LoopIsCurrent
    /\ ahead = "now" => DueAfter(AppDelay(leaseLeft))
    /\ ahead = "slept" /\ app = "sleep" => DueAfter(appIn)

\* A lease that is set is due after the app's share of it.
LEMMA SetLeaseDue ==
    ASSUME TypeOK, NEW l \in Nat, SetLease(l), LoopIdle' => timerIn' = renewIn' \/ wake'
    PROVE  /\ ahead' = "now"
           /\ DueAfter(AppDelay(leaseLeft))'
<1>1. AppDelay(l) < HelperDelay(l) /\ AppDelay(l) \in Nat /\ HelperDelay(l) \in Nat
  BY AppDelayIsShorter, DelaysAreBounded, Constants
<1> QED  BY <1>1 DEF SetLease, DueAfter

\* A lease that was granted is a length of time.
LEMMA GrantIsNat ==
    ASSUME TypeOK, NEW w \in Workers, call[w].grant # Unseen
    PROVE  GrantOf(w) \in Nat
  BY GrantTyped, Constants DEF TypeOK

\* A renewal, by the loop or for the app, keeps FirstInv.
LEMMA FirstRenewal ==
    ASSUME FirstInv, NEW w \in Workers, Renewal(w)
    PROVE  FirstInv'
<1> USE DEF server_vars, renewal_vars, app_vars
<1>1. TypeOK /\ TypeOK'
  BY TypeRenewal DEF FirstInv
<1>2. call \in [Workers -> Call] /\ call' \in [Workers -> Call'] /\ "loop" \in Workers /\ "app" \in Workers
  BY <1>1 DEF TypeOK, Workers
<1>3. w \in {"loop", "app"}
  BY DEF Workers
<1>4. w = "loop" /\ call[w].pc # "idle" => call[w].mine
  BY DEF FirstInv, LoopIsCurrent, LoopIdle, Idle
<1>5. ASSUME Over(w)
      PROVE  /\ LoopIsCurrent'
             /\ w = "loop" => LoopIdle' /\ timerIn' = renewIn' /\ UNCHANGED <<app, appIn>>
             /\ w = "app" => (LoopIdle' <=> LoopIdle) /\ UNCHANGED timerIn /\ app' \in {app, "status"}
             /\ app' = "sleep" => app = "sleep" /\ UNCHANGED appIn
  BY <1>2, <1>3, <1>5 DEF Over, Rearm, AppAnswered, LoopIsCurrent, LoopIdle, FirstInv, Idle
<1>6. ASSUME TunnelDown
      PROVE  LoopIsCurrent' /\ ahead' = "no"
  BY <1>2, <1>6 DEF TunnelDown, LoopIsCurrent, LoopIdle
<1>7. CASE ServerGrants(w)
  <2>1. LoopIsCurrent' /\ (LoopIdle' => LoopIdle)
    <3>1. CASE w = "loop"
      <4>1. call["loop"].pc # "idle" /\ call'["loop"].pc # "idle"
        BY <1>2, <1>7, <3>1 DEF ServerGrants, Call
      <4>2. call'["loop"].mine = call["loop"].mine
        BY <1>2, <1>7, <3>1 DEF ServerGrants, Call
      <4> QED  BY <1>4, <3>1, <4>1, <4>2 DEF LoopIsCurrent, LoopIdle, Idle
    <3>2. CASE w = "app"
      <4>1. call'["loop"] = call["loop"]
        BY <1>2, <1>7, <3>2 DEF ServerGrants
      <4> QED  BY <4>1 DEF FirstInv, LoopIsCurrent, LoopIdle, Idle
    <3> QED  BY <1>3, <3>1, <3>2
  <2> QED  BY <1>1, <1>7, <2>1 DEF ServerGrants, FirstInv, DueAfter
<1>8. CASE Renewed(w)
  <2>1. Over(w)
    BY <1>8 DEF Renewed
  <2>2. CASE call[w].mine
    <3>1. SetLease(GrantOf(w)) /\ GrantOf(w) \in Nat
      BY <1>1, <1>8, <2>2, GrantIsNat DEF Renewed
    <3>2. wake'
      BY <3>1 DEF SetLease
    <3> QED  BY <1>1, <1>5, <2>1, <3>1, <3>2, SetLeaseDue DEF FirstInv
  <2>3. CASE ~call[w].mine
    <3>1. w = "app"
      BY <1>3, <1>4, <1>8, <2>3 DEF Renewed
    <3>2. UNCHANGED renewal_vars
      BY <1>8, <2>3 DEF Renewed
    <3> QED  BY <1>1, <1>5, <2>1, <3>1, <3>2 DEF FirstInv, DueAfter
  <2> QED  BY <2>2, <2>3
<1>9. CASE Unanswered(w)
  <2>1. Over(w)
    BY <1>9 DEF Unanswered
  <2>2. CASE call[w].mine
    <3>1. ahead' = "no"
      BY <1>9, <2>2 DEF Unanswered, Retry
    <3> QED  BY <1>1, <1>5, <2>1, <3>1 DEF FirstInv
  <2>3. CASE ~call[w].mine
    <3>1. w = "app"
      BY <1>3, <1>4, <1>9, <2>3 DEF Unanswered
    <3>2. UNCHANGED renewal_vars
      BY <1>9, <2>3 DEF Unanswered
    <3> QED  BY <1>1, <1>5, <2>1, <3>1, <3>2 DEF FirstInv, DueAfter
  <2> QED  BY <2>2, <2>3
<1>10. CASE Forgotten(w)
  <2>1. LoopIsCurrent' /\ (LoopIdle' => LoopIdle)
    <3>1. CASE w = "loop"
      <4>1. call["loop"].pc # "idle" /\ call'["loop"].pc # "idle"
        BY <1>2, <1>10, <3>1 DEF Forgotten, Sent, Call
      <4>2. call'["loop"].mine = call["loop"].mine
        BY <1>2, <1>10, <3>1 DEF Forgotten, Sent, Call
      <4> QED  BY <1>4, <3>1, <4>1, <4>2 DEF LoopIsCurrent, LoopIdle, Idle
    <3>2. CASE w = "app"
      <4>1. call'["loop"] = call["loop"]
        BY <1>2, <1>10, <3>2 DEF Forgotten
      <4> QED  BY <4>1 DEF FirstInv, LoopIsCurrent, LoopIdle, Idle
    <3> QED  BY <1>3, <3>1, <3>2
  <2> QED  BY <1>1, <1>10, <2>1 DEF Forgotten, FirstInv, DueAfter
<1>11. CASE Refused(w)
  BY <1>1, <1>6, <1>11 DEF Refused, FirstInv
<1>12. CASE Enrolled(w)
  <2>1. CASE call[w].mine
    <3>1. SetLease(GrantOf(w)) /\ GrantOf(w) \in Nat /\ timerIn' = renewIn'
      BY <1>1, <1>12, <2>1, GrantIsNat DEF Enrolled, Rearm
    <3>2. LoopIsCurrent'
      BY <1>2, <1>12, <2>1 DEF Enrolled, LoopIsCurrent, LoopIdle
    <3> QED  BY <1>1, <3>1, <3>2, SetLeaseDue DEF FirstInv
  <2>2. CASE ~call[w].mine
    <3>1. w = "app"
      BY <1>3, <1>4, <1>12, <2>2 DEF Enrolled
    <3>2. UNCHANGED renewal_vars /\ Over(w)
      BY <1>12, <2>2 DEF Enrolled
    <3> QED  BY <1>1, <1>5, <3>1, <3>2 DEF FirstInv, DueAfter
  <2> QED  BY <2>1, <2>2
<1>13. CASE EnrollFails(w)
  <2>1. CASE call[w].mine
    BY <1>1, <1>6, <1>13, <2>1 DEF EnrollFails, FirstInv
  <2>2. CASE ~call[w].mine
    <3>1. w = "app"
      BY <1>3, <1>4, <1>13, <2>2 DEF EnrollFails
    <3>2. UNCHANGED renewal_vars /\ Over(w)
      BY <1>13, <2>2 DEF EnrollFails
    <3> QED  BY <1>1, <1>5, <3>1, <3>2 DEF FirstInv, DueAfter
  <2> QED  BY <2>1, <2>2
<1> QED  BY <1>7, <1>8, <1>9, <1>10, <1>11, <1>12, <1>13 DEF Renewal

\* The loop's first renewal is due after the app's.
LEMMA FirstInit == Init => FirstInv
<1> SUFFICES ASSUME Init PROVE FirstInv  OBVIOUS
<1>1. TypeOK
  BY TypeInit
<1>2. AppDelay(ttl) < HelperDelay(ttl) /\ AppDelay(ttl) \in Nat /\ HelperDelay(ttl) \in Nat
  BY AppDelayIsShorter, DelaysAreBounded, Constants DEF Init
<1>3. LoopIdle
  BY DEF Init, LoopIdle, Workers
<1> QED  BY <1>1, <1>2, <1>3 DEF Init, FirstInv, LoopIsCurrent, DueAfter

\* Every step keeps FirstInv.
LEMMA FirstNext ==
    ASSUME FirstInv, [Next]_vars
    PROVE  FirstInv'
<1> USE DEF server_vars, renewal_vars, app_vars
<1>1. TypeOK /\ TypeOK'
  BY TypeNext DEF FirstInv
<1>2. call \in [Workers -> Call] /\ "loop" \in Workers /\ "app" \in Workers
  BY <1>1 DEF TypeOK, Workers
<1>3. leaseLeft \in Nat /\ renewIn \in Nat /\ timerIn \in Nat /\ appIn \in Nat
  <2>1. Greatest(AppCeil, Patience) \in Nat
    BY Constants DEF Greatest
  <2> QED  BY <1>1, <2>1, Constants DEF TypeOK
<1>4. CASE Tick
  <2>1. ahead' # "now" /\ (ahead' = "slept" => ahead = "slept") /\ UNCHANGED <<wake, app>>
    BY <1>4 DEF Tick
  <2>2. app = "sleep" => appIn > 0
    BY <1>4 DEF Tick, Quiet
  <2>3. LoopIsCurrent' /\ (LoopIdle' => LoopIdle)
    <3>1. call'["loop"].pc = call["loop"].pc /\ call'["loop"].mine = call["loop"].mine
      BY <1>2, <1>4 DEF Tick, Call
    <3>2. CASE LoopIdle
      <4>1. call'["loop"] = [Idle EXCEPT !.left = Sooner(@, 1),
                                         !.grant = IF @ = Unseen THEN @ ELSE Sooner(@, 1)]
        BY <1>2, <1>4, <3>2 DEF Tick, LoopIdle
      <4>2. Sooner(0, 1) = 0
        BY DEF Sooner, Greatest
      <4>3. call'["loop"] = Idle
        BY <4>1, <4>2 DEF Idle
      <4> QED  BY <3>2, <4>3 DEF LoopIsCurrent, LoopIdle
    <3>3. CASE ~LoopIdle
      <4>1. call["loop"].mine
        BY <3>3 DEF FirstInv, LoopIsCurrent
      <4>2. call["loop"].mine = TRUE
        BY <1>2, <4>1 DEF Call
      <4>3. call'["loop"] # Idle
        BY <3>1, <4>2 DEF Idle
      <4> QED  BY <3>1, <3>3, <4>1, <4>3 DEF LoopIsCurrent, LoopIdle
    <3> QED  BY <3>2, <3>3
  <2>4. ASSUME DueAfter(appIn), appIn > 0
        PROVE  DueAfter(appIn)'
    <3>1. \A n \in Nat : Sooner(n, 1) = IF n = 0 THEN 0 ELSE n - 1
      BY DEF Sooner, Greatest
    <3>2. /\ renewIn' = Sooner(renewIn, 1) /\ timerIn' = Sooner(timerIn, 1)
          /\ appIn' = Sooner(appIn, 1)
      BY <1>4 DEF Tick
    <3>3. renewIn > appIn => renewIn' > appIn'
      BY <1>3, <2>4, <3>1, <3>2
    <3>4. timerIn > appIn => timerIn' > appIn'
      BY <1>3, <2>4, <3>1, <3>2
    <3> QED  BY <2>1, <2>3, <2>4, <3>3, <3>4 DEF DueAfter
  <2> QED  BY <1>1, <2>1, <2>2, <2>3, <2>4 DEF FirstInv
<1>5. CASE LoopWoken
  BY <1>1, <1>5 DEF LoopWoken, FirstInv, LoopIsCurrent, LoopIdle, DueAfter
<1>6. CASE LoopFires
  <2>1. ~LoopIdle' /\ LoopIsCurrent'
    BY <1>2, <1>6 DEF LoopFires, LoopIdle, LoopIsCurrent, Sent, Idle
  <2> QED  BY <1>1, <1>6, <2>1 DEF LoopFires, FirstInv, DueAfter
<1>7. CASE \E w \in Workers : Renewal(w)
  BY <1>7, FirstRenewal
<1>8. CASE KeepRenewing
  <2>1. LoopIsCurrent' /\ (LoopIdle' <=> LoopIdle) /\ UNCHANGED <<leaseLeft, renewIn, wake, timerIn>>
    BY <1>2, <1>8 DEF KeepRenewing, AppSleeps, AppReturns, AppHasNoBearer, AppRenews, AppGivesUp,
                      FirstInv, LoopIsCurrent, LoopIdle
  <2>2. CASE AppSleeps
    BY <1>1, <2>1, <2>2 DEF AppSleeps, FirstInv, DueAfter
  <2>3. CASE AppReturns \/ AppHasNoBearer \/ AppRenews \/ AppGivesUp
    <3>1. app' # "sleep" /\ UNCHANGED ahead
      BY <2>3 DEF AppReturns, AppHasNoBearer, AppRenews, AppGivesUp
    <3> QED  BY <1>1, <2>1, <3>1 DEF FirstInv, DueAfter
  <2> QED  BY <1>8, <2>2, <2>3 DEF KeepRenewing
<1>9. CASE \E d \in Naps : Suspend(d)
  <2> PICK d \in Naps : Suspend(d)
    BY <1>9
  <2>1. /\ UNCHANGED <<renewIn, wake, timerIn, app, appIn, ahead>>
        /\ leaseLeft' = Sooner(leaseLeft, d)
    BY DEF Suspend, LeasesRunDown
  <2>2. LoopIsCurrent' /\ (LoopIdle' => LoopIdle)
    <3>1. call'["loop"] = [call["loop"] EXCEPT !.grant = IF @ = Unseen THEN @ ELSE Sooner(@, d)]
      BY <1>2 DEF Suspend
    <3>2. CASE LoopIdle
      <4>1. call'["loop"] = [Idle EXCEPT !.grant = IF @ = Unseen THEN @ ELSE Sooner(@, d)]
        BY <3>1, <3>2 DEF LoopIdle
      <4>2. call'["loop"] = Idle
        BY <4>1 DEF Idle
      <4> QED  BY <3>2, <4>2 DEF LoopIsCurrent, LoopIdle
    <3>3. CASE ~LoopIdle
      <4>1. call["loop"].mine /\ call'["loop"].mine = call["loop"].mine
        BY <1>2, <3>1, <3>3 DEF FirstInv, LoopIsCurrent, Call
      <4>2. call["loop"].mine = TRUE
        BY <1>2, <4>1 DEF Call
      <4>3. call'["loop"].mine # Idle.mine
        BY <4>1, <4>2 DEF Idle
      <4>4. call'["loop"] # Idle
        BY <4>3
      <4> QED  BY <3>3, <4>1, <4>4 DEF LoopIsCurrent, LoopIdle
    <3> QED  BY <3>2, <3>3
  <2>3. AppDelay(leaseLeft') <= AppDelay(leaseLeft)
    <3>1. d \in Nat
      BY Constants
    <3>2. leaseLeft' \in Nat /\ leaseLeft' <= leaseLeft
      BY <1>3, <2>1, <3>1, SoonerIsLess
    <3> QED  BY <1>3, <3>2, AppDelayIsMonotonic
  <2>4. AppDelay(leaseLeft) \in Nat /\ AppDelay(leaseLeft') \in Nat
    <3>1. leaseLeft' \in Nat
      BY <1>1, Constants DEF TypeOK
    <3> QED  BY <1>3, <3>1, DelaysAreBounded, Constants
  <2>5. ASSUME DueAfter(AppDelay(leaseLeft))
        PROVE  DueAfter(AppDelay(leaseLeft))'
    BY <1>3, <2>1, <2>2, <2>3, <2>4, <2>5 DEF DueAfter
  <2>6. ASSUME DueAfter(appIn)
        PROVE  DueAfter(appIn)'
    BY <2>1, <2>2, <2>6 DEF DueAfter
  <2> QED  BY <1>1, <2>1, <2>2, <2>5, <2>6 DEF FirstInv
<1>10. CASE ServerForgets
  BY <1>1, <1>10 DEF ServerForgets, FirstInv, LoopIsCurrent, LoopIdle, DueAfter
<1>11. CASE UNCHANGED vars
  BY <1>1, <1>11 DEF vars, FirstInv, LoopIsCurrent, LoopIdle, DueAfter
<1> QED  BY <1>4, <1>5, <1>6, <1>7, <1>8, <1>9, <1>10, <1>11 DEF Next

\* Whatever the delays, time-outs and failures: the loop's timer does not fire
\* while the app sleeps on the lease last set.
THEOREM AppRenewsFirstCorrect == Spec => AppRenewsFirst
<1>1. ASSUME FirstInv, LoopFires, ~wake, app = "sleep"
      PROVE  ahead # "slept"
  <2>1. appIn \in Nat /\ timerIn = 0
    <3>1. Greatest(AppCeil, Patience) \in Nat
      BY Constants DEF Greatest
    <3> QED  BY <1>1, <3>1 DEF FirstInv, TypeOK, LoopFires
  <2> QED  BY <1>1, <2>1 DEF FirstInv, DueAfter, LoopFires, LoopWaits, LoopIdle
<1>2. FirstInv /\ [Next]_vars => [LoopFires /\ ~wake /\ app = "sleep" => ahead # "slept"]_vars
  BY <1>1
<1> QED  BY <1>2, FirstInit, FirstNext, PTL DEF Spec, AppRenewsFirst

-----------------------------------------------------------------------------
(* The calls.                                                              *)

\* What is idle has nothing out: no time-out, and no answer.
Whole == TypeOK /\ \A w \in Workers : call[w].pc = "idle" => call[w] = Idle

\* The types of the calls, and what Idle is.
LEMMA CallTypes ==
    ASSUME TypeOK
    PROVE  /\ call \in [Workers -> Call] /\ "loop" \in Workers /\ "app" \in Workers
           /\ \A w \in Workers : /\ call[w].left \in Nat /\ call[w].left <= CallTime
                                 /\ call[w].pc \in {"idle", "heartbeat", "enroll"}
                                 /\ call[w].mine \in BOOLEAN
                                 /\ call[w].grant \in Unseen..ttl
           /\ Idle.pc = "idle" /\ Idle.left = 0 /\ Idle.grant = Unseen /\ Idle.mine = FALSE
           /\ CallTime \in Nat \ {0}
<1>1. CallTime \in Nat \ {0}
  BY Constants
<1> QED  BY <1>1 DEF TypeOK, Workers, Call, Idle

\* What a call that was sent is.
LEMMA SentFields ==
    ASSUME NEW pc, NEW m
    PROVE  /\ Sent(pc, m).pc = pc /\ Sent(pc, m).left = CallTime
           /\ Sent(pc, m).grant = Unseen /\ Sent(pc, m).mine = m
  BY DEF Sent

\* Time brings the time-outs and the ends of the leases nearer, and ends no call.
LEMMA TickCalls ==
    ASSUME Whole, Tick, NEW w \in Workers
    PROVE  /\ call'[w].pc = call[w].pc /\ call'[w].mine = call[w].mine
           /\ call[w].pc # "idle" => call[w].left > 0 /\ call'[w].left = call[w].left - 1
           /\ call'[w].grant # Unseen => call[w].grant # Unseen
           /\ call[w] = Idle => call'[w] = Idle
<1>1. /\ call'[w].pc = call[w].pc /\ call'[w].mine = call[w].mine
      /\ call'[w].left = Sooner(call[w].left, 1)
      /\ call'[w].grant = IF call[w].grant = Unseen THEN Unseen ELSE Sooner(call[w].grant, 1)
  BY CallTypes DEF Whole, Tick, Call
<1>2. call[w].pc # "idle" => call[w].left > 0 /\ call'[w].left = call[w].left - 1
  <2>1. call[w].pc # "idle" => call[w].left > 0
    BY CallTypes DEF Whole, Tick, Quiet
  <2>2. call[w].left \in Nat
    BY CallTypes DEF Whole
  <2> QED  BY <1>1, <2>1, <2>2 DEF Sooner, Greatest
<1>3. call[w] = Idle => call'[w] = Idle
  <2> SUFFICES ASSUME call[w] = Idle PROVE call'[w] = Idle
    OBVIOUS
  <2>1. call'[w] = [Idle EXCEPT !.left = Sooner(@, 1),
                                !.grant = IF @ = Unseen THEN @ ELSE Sooner(@, 1)]
    BY DEF Tick
  <2>2. Sooner(0, 1) = 0
    BY DEF Sooner, Greatest
  <2> QED  BY <2>1, <2>2 DEF Idle
<1> QED  BY <1>1, <1>2, <1>3

\* A suspension ends no call either, and Go's timers wait.
LEMMA SuspendCalls ==
    ASSUME Whole, NEW d \in Naps, Suspend(d), NEW w \in Workers
    PROVE  /\ call'[w].pc = call[w].pc /\ call'[w].mine = call[w].mine
           /\ call'[w].left = call[w].left
           /\ call'[w].grant # Unseen => call[w].grant # Unseen
           /\ call[w] = Idle => call'[w] = Idle
<1>1. /\ call'[w].pc = call[w].pc /\ call'[w].mine = call[w].mine /\ call'[w].left = call[w].left
      /\ call'[w].grant = IF call[w].grant = Unseen THEN Unseen ELSE Sooner(call[w].grant, d)
  BY CallTypes DEF Whole, Suspend, Call
<1>2. call[w] = Idle => call'[w] = Idle
  <2> SUFFICES ASSUME call[w] = Idle PROVE call'[w] = Idle
    OBVIOUS
  <2>1. call'[w] = [Idle EXCEPT !.grant = IF @ = Unseen THEN @ ELSE Sooner(@, d)]
    BY DEF Suspend
  <2> QED  BY <2>1 DEF Idle
<1> QED  BY <1>1, <1>2

\* The server's answer is on its way, and nothing else about the calls changes.
LEMMA GrantCalls ==
    ASSUME Whole, NEW w \in Workers, ServerGrants(w)
    PROVE  /\ call'[w].pc = call[w].pc /\ call'[w].mine = call[w].mine
           /\ call'[w].left = call[w].left /\ call[w].pc # "idle"
           /\ \A v \in Workers \ {w} : call'[v] = call[v]
<1>1. call[w].pc # "idle"
  BY DEF ServerGrants
<1> QED  BY <1>1, CallTypes DEF Whole, ServerGrants, Call

\* An enrollment leaves the other worker's call about a session that is gone.
LEMMA EnrolledCalls ==
    ASSUME Whole, NEW w \in Workers, Enrolled(w)
    PROVE  /\ call'[w] = Idle
           /\ call[w].mine => call'["loop"] = Idle
           /\ ~call[w].mine => \A v \in Workers \ {w} : call'[v] = call[v]
           /\ \A v \in Workers \ {w} :
                 \/ call'[v] = Idle
                 \/ /\ call'[v].pc = call[v].pc /\ call'[v].left = call[v].left
                    /\ call'[v].grant = call[v].grant
           /\ \A v \in Workers : call[v] = Idle => call'[v] = Idle
<1>1. CASE call[w].mine
  <2>1. \A v \in Workers : IF v \in {w, "loop"} THEN call'[v] = Idle
                                                ELSE call'[v] = [call[v] EXCEPT !.mine = FALSE]
    BY <1>1 DEF Enrolled
  <2>2. [Idle EXCEPT !.mine = FALSE] = Idle
    <3>1. [Idle EXCEPT !.mine = Idle.mine] = Idle
      BY DEF Idle
    <3>2. Idle.mine = FALSE
      BY DEF Idle
    <3> QED  BY <3>1, <3>2
  <2>3. ASSUME NEW v \in Workers \ {w}, v # "loop"
        PROVE  /\ call'[v].pc = call[v].pc /\ call'[v].left = call[v].left
               /\ call'[v].grant = call[v].grant
    <3>1. call[v] \in Call
      BY CallTypes DEF Whole
    <3>2. call'[v] = [call[v] EXCEPT !.mine = FALSE]
      BY <2>1, <2>3
    <3> QED  BY <3>1, <3>2 DEF Call
  <2>4. call'[w] = Idle /\ call'["loop"] = Idle
    BY <2>1, CallTypes DEF Whole
  <2>5. \A v \in Workers : call[v] = Idle => call'[v] = Idle
    BY <2>1, <2>2
  <2> QED  BY <1>1, <2>3, <2>4, <2>5
<1>2. CASE ~call[w].mine
  <2>1. call' = [call EXCEPT ![w] = Idle]
    BY <1>2 DEF Enrolled, Over
  <2> QED  BY <1>2, <2>1, CallTypes DEF Whole
<1> QED  BY <1>1, <1>2

\* What each step of a renewal does to the calls, but for the server's.
LEMMA RenewalCalls ==
    ASSUME Whole, NEW w \in Workers
    PROVE  /\ Over(w) => call'[w] = Idle /\ \A v \in Workers \ {w} : call'[v] = call[v]
           /\ Forgotten(w) => /\ call'[w] = Sent("enroll", call[w].mine)
                              /\ \A v \in Workers \ {w} : call'[v] = call[v]
           /\ TunnelDown => \A v \in Workers : call'[v] = Idle
  BY CallTypes DEF Whole, Over, Forgotten, TunnelDown

\* Each step of a renewal ends in one of these ways, for the calls.
LEMMA RenewalEnds ==
    ASSUME NEW w \in Workers, Renewal(w)
    PROVE  ServerGrants(w) \/ Over(w) \/ Forgotten(w) \/ Enrolled(w) \/ TunnelDown
  BY DEF Renewal, Renewed, Unanswered, Refused, EnrollFails

\* Every step keeps Whole.
LEMMA WholeNext ==
    ASSUME Whole, [Next]_vars
    PROVE  Whole'
<1>1. TypeOK'
  BY TypeNext DEF Whole
<1>2. ASSUME NEW v \in Workers, call'[v].pc = "idle"
      PROVE  call'[v] = Idle
  <2>1. CASE Tick
    BY <1>2, <2>1, TickCalls DEF Whole
  <2>2. CASE \E d \in Naps : Suspend(d)
    BY <1>2, <2>2, SuspendCalls DEF Whole
  <2>3. CASE \E w \in Workers : Renewal(w)
    <3> PICK w \in Workers : Renewal(w)
      BY <2>3
    <3>1. CASE ServerGrants(w)
      BY <1>2, <3>1, GrantCalls DEF Whole
    <3>2. CASE Over(w) \/ TunnelDown
      BY <1>2, <3>2, RenewalCalls DEF Whole
    <3>3. CASE Forgotten(w)
      <4>1. Sent("enroll", call[w].mine).pc # "idle"
        BY SentFields
      <4> QED  BY <1>2, <3>3, <4>1, RenewalCalls DEF Whole
    <3>4. CASE Enrolled(w)
      BY <1>2, <3>4, EnrolledCalls DEF Whole
    <3> QED  BY <3>1, <3>2, <3>3, <3>4, RenewalEnds
  <2>4. CASE LoopFires
    <3>1. call' = [call EXCEPT !["loop"] = Sent("heartbeat", TRUE)]
      BY <2>4 DEF LoopFires
    <3> QED  BY <1>2, <3>1, SentFields, CallTypes DEF Whole
  <2>5. CASE AppRenews
    <3>1. call' = [call EXCEPT !["app"] = Sent("heartbeat", TRUE)]
      BY <2>5 DEF AppRenews
    <3> QED  BY <1>2, <3>1, SentFields, CallTypes DEF Whole
  <2>6. CASE UNCHANGED call
    BY <1>2, <2>6 DEF Whole
  <2> QED  BY <2>1, <2>2, <2>3, <2>4, <2>5, <2>6
           DEF Next, LoopWoken, KeepRenewing, AppSleeps, AppReturns, AppHasNoBearer, AppGivesUp,
               ServerForgets, vars
<1> QED  BY <1>1, <1>2 DEF Whole

\* Nothing is out at first.
LEMMA WholeInit == Init => Whole
<1> SUFFICES ASSUME Init PROVE Whole  OBVIOUS
<1> QED  BY TypeInit DEF Init, Whole

-----------------------------------------------------------------------------
(* One renewal of the app at a time.                                       *)

\* How long a renewal may still take the helper: what is left of the call, and
\* of a heartbeat's also the enrollment.
Outstanding(c) == c.left + (IF c.pc = "heartbeat" THEN CallTime ELSE 0)

\* The renewal is over before the app, which waits for the answer and then for
\* its shortest delay at least, can ask again.
RenewInv ==
    /\ Whole
    /\ call["app"].pc # "idle" =>
         /\ app = "calling" => Outstanding(call["app"]) < appIn + AppFloor
         /\ app \in {"away", "status"} => Outstanding(call["app"]) < AppFloor
         /\ app = "sleep" => Outstanding(call["app"]) < appIn

\* What counts as time, is.
LEMMA OutstandingTyped ==
    ASSUME TypeOK
    PROVE  /\ Outstanding(call["app"]) \in Nat /\ appIn \in Nat /\ AppFloor \in Nat
           /\ app \in {"away", "status", "sleep", "calling"}
<1>1. Greatest(AppCeil, Patience) \in Nat /\ AppFloor \in Nat
  BY Constants DEF Greatest
<1>2. appIn \in Nat /\ app \in {"away", "status", "sleep", "calling"}
  BY <1>1 DEF TypeOK
<1>3. call["app"].left \in Nat /\ CallTime \in Nat
  BY CallTypes
<1>4. Outstanding(call["app"]) \in Nat
  BY <1>3 DEF Outstanding
<1> QED  BY <1>1, <1>2, <1>4

\* The app sleeps for its shortest delay at least.
LEMMA AppDelayIsLong ==
    ASSUME NEW r \in Nat
    PROVE  AppDelay(r) \in Nat /\ AppDelay(r) >= AppFloor
  BY Constants, Shares DEF AppDelay, Least, Greatest

\* A step after which the app is where it was and its call has as long to go or
\* less keeps RenewInv.
LEMMA RenewStays ==
    ASSUME RenewInv, Whole', app' = app, appIn' = appIn,
           call'["app"].pc # "idle" =>
             /\ call["app"].pc # "idle"
             /\ Outstanding(call'["app"]) \in Nat
             /\ Outstanding(call'["app"]) <= Outstanding(call["app"])
    PROVE  RenewInv'
<1>1. Outstanding(call["app"]) \in Nat /\ appIn \in Nat /\ AppFloor \in Nat
  BY OutstandingTyped DEF RenewInv, Whole
<1> QED  BY <1>1 DEF RenewInv

\* Every step keeps RenewInv.
LEMMA RenewNext ==
    ASSUME RenewInv, [Next]_vars
    PROVE  RenewInv'
<1> USE DEF server_vars, renewal_vars, app_vars
<1>1. Whole /\ Whole' /\ TypeOK
  BY WholeNext DEF RenewInv, Whole
<1>2. /\ Outstanding(call["app"]) \in Nat /\ appIn \in Nat /\ AppFloor \in Nat
      /\ app \in {"away", "status", "sleep", "calling"}
  BY <1>1, OutstandingTyped
<1>3. /\ CallTime \in Nat /\ call["app"].left \in Nat /\ "app" \in Workers /\ "loop" \in Workers
      /\ call["app"].pc \in {"idle", "heartbeat", "enroll"}
  BY <1>1, CallTypes
<1>4. ASSUME UNCHANGED <<app, appIn>>, call'["app"] = call["app"] \/ call'["app"] = Idle
      PROVE  RenewInv'
  BY <1>1, <1>2, <1>4, CallTypes, RenewStays
<1>5. ASSUME call'["app"] = Idle
      PROVE  RenewInv'
  BY <1>1, <1>5, CallTypes DEF RenewInv
<1>6. CASE Tick
  <2>1. /\ call'["app"].pc = call["app"].pc
        /\ call["app"].pc # "idle" => call["app"].left > 0 /\ call'["app"].left = call["app"].left - 1
    BY <1>1, <1>3, <1>6, TickCalls
  <2>2. call["app"].pc # "idle" => Outstanding(call'["app"]) = Outstanding(call["app"]) - 1
    BY <1>3, <2>1 DEF Outstanding
  <2>3. app' = app /\ app # "status" /\ (app \in {"sleep", "calling"} => appIn > 0)
    BY <1>6 DEF Tick, Quiet
  <2>4. appIn > 0 => appIn' = appIn - 1
    <3>1. appIn' = Sooner(appIn, 1)
      BY <1>6 DEF Tick
    <3> QED  BY <1>2, <3>1 DEF Sooner, Greatest
  <2> QED  BY <1>1, <1>2, <2>1, <2>2, <2>3, <2>4 DEF RenewInv
<1>7. CASE \E d \in Naps : Suspend(d)
  <2> PICK d \in Naps : Suspend(d)
    BY <1>7
  <2>1. call'["app"].pc = call["app"].pc /\ call'["app"].left = call["app"].left
    BY <1>1, <1>3, SuspendCalls
  <2>2. Outstanding(call'["app"]) = Outstanding(call["app"])
    BY <2>1 DEF Outstanding
  <2>3. UNCHANGED <<app, appIn>>
    BY DEF Suspend
  <2> QED  BY <1>1, <1>2, <2>1, <2>2, <2>3, RenewStays
<1>8. CASE \E w \in Workers : Renewal(w)
  <2> PICK w \in Workers : Renewal(w)
    BY <1>8
  <2>1. CASE ServerGrants(w)
    <3>1. call'["app"].pc = call["app"].pc /\ call'["app"].left = call["app"].left
      BY <1>1, <1>3, <2>1, GrantCalls
    <3>2. Outstanding(call'["app"]) = Outstanding(call["app"])
      BY <3>1 DEF Outstanding
    <3>3. UNCHANGED <<app, appIn>>
      BY <2>1 DEF ServerGrants
    <3> QED  BY <1>1, <1>2, <3>1, <3>2, <3>3, RenewStays
  <2>2. CASE Over(w)
    <3>1. CASE w = "app"
      BY <1>1, <1>5, <2>2, <3>1, RenewalCalls
    <3>2. CASE w = "loop"
      <4>1. UNCHANGED <<app, appIn>> /\ call'["app"] = call["app"]
        BY <1>1, <1>3, <2>2, <3>2, RenewalCalls DEF Over
      <4> QED  BY <1>4, <4>1
    <3> QED  BY <3>1, <3>2 DEF Workers
  <2>3. CASE Forgotten(w)
    <3>1. UNCHANGED <<app, appIn>>
      BY <2>3 DEF Forgotten
    <3>2. CASE w = "app"
      <4>1. call'["app"].pc = "enroll" /\ call'["app"].left = CallTime
        BY <1>1, <2>3, <3>2, RenewalCalls, SentFields
      <4>2. call["app"].pc = "heartbeat"
        BY <2>3, <3>2 DEF Forgotten
      <4>3. /\ Outstanding(call'["app"]) = CallTime
            /\ Outstanding(call["app"]) = call["app"].left + CallTime
        BY <1>3, <4>1, <4>2 DEF Outstanding
      <4> QED  BY <1>1, <1>3, <3>1, <4>2, <4>3, RenewStays
    <3>3. CASE w = "loop"
      <4>1. call'["app"] = call["app"]
        BY <1>1, <1>3, <2>3, <3>3, RenewalCalls
      <4> QED  BY <1>4, <3>1, <4>1
    <3> QED  BY <3>2, <3>3 DEF Workers
  <2>4. CASE Enrolled(w)
    <3>1. CASE w = "app"
      BY <1>1, <1>5, <2>4, <3>1, EnrolledCalls
    <3>2. CASE w = "loop"
      <4>1. UNCHANGED <<app, appIn>>
        BY <2>4, <3>2 DEF Enrolled, Over
      <4>2. \/ call'["app"] = Idle
            \/ call'["app"].pc = call["app"].pc /\ call'["app"].left = call["app"].left
        BY <1>1, <1>3, <2>4, <3>2, EnrolledCalls
      <4>3. ASSUME call'["app"].pc = call["app"].pc, call'["app"].left = call["app"].left
            PROVE  RenewInv'
        <5>1. Outstanding(call'["app"]) = Outstanding(call["app"])
          BY <4>3 DEF Outstanding
        <5> QED  BY <1>1, <1>2, <4>1, <4>3, <5>1, RenewStays
      <4> QED  BY <1>5, <4>2, <4>3
    <3> QED  BY <3>1, <3>2 DEF Workers
  <2>5. CASE TunnelDown
    BY <1>1, <1>3, <1>5, <2>5, RenewalCalls
  <2> QED  BY <2>1, <2>2, <2>3, <2>4, <2>5, RenewalEnds
<1>9. CASE KeepRenewing
  <2>1. CASE AppSleeps
    <3>1. call' = call /\ app = "status" /\ app' \in {"sleep", "away"}
          /\ (app' = "sleep" => appIn' = AppDelay(leaseLeft))
      BY <2>1 DEF AppSleeps
    <3>2. AppDelay(leaseLeft) \in Nat /\ AppDelay(leaseLeft) >= AppFloor
      <4>1. leaseLeft \in Nat
        BY <1>1, Constants DEF TypeOK
      <4> QED  BY <4>1, AppDelayIsLong
    <3> QED  BY <1>1, <1>2, <3>1, <3>2 DEF RenewInv
  <2>2. CASE AppReturns
    BY <1>1, <2>2 DEF AppReturns, RenewInv
  <2>3. CASE AppHasNoBearer
    BY <1>1, <1>2, <2>3 DEF AppHasNoBearer, RenewInv
  <2>4. CASE AppRenews
    <3>1. /\ call'["app"].pc = "heartbeat" /\ call'["app"].left = CallTime
          /\ app' = "calling" /\ appIn' = Patience
      <4>1. call'["app"] = Sent("heartbeat", TRUE)
        BY <1>1, <1>3, <2>4, CallTypes DEF AppRenews
      <4>2. Sent("heartbeat", TRUE).pc = "heartbeat" /\ Sent("heartbeat", TRUE).left = CallTime
        BY DEF Sent
      <4>3. app' = "calling" /\ appIn' = Patience
        BY <2>4 DEF AppRenews
      <4> QED  BY <4>1, <4>2, <4>3
    <3>2. Outstanding(call'["app"]) = CallTime + CallTime
      BY <3>1 DEF Outstanding
    <3>3. CallTime + CallTime < Patience + AppFloor
      BY <1>3, PatienceAssumption
    <3> QED  BY <1>1, <3>1, <3>2, <3>3 DEF RenewInv
  <2>5. CASE AppGivesUp
    BY <1>1, <1>2, <2>5 DEF AppGivesUp, RenewInv
  <2> QED  BY <1>9, <2>1, <2>2, <2>3, <2>4, <2>5 DEF KeepRenewing
<1>10. CASE LoopWoken \/ ServerForgets \/ UNCHANGED vars
  <2>1. UNCHANGED <<app, appIn, call>>
    BY <1>10 DEF LoopWoken, ServerForgets, vars
  <2> QED  BY <1>4, <2>1
<1>11. CASE LoopFires
  <2>1. UNCHANGED <<app, appIn>> /\ call'["app"] = call["app"]
    BY <1>1, <1>3, <1>11, CallTypes DEF LoopFires
  <2> QED  BY <1>4, <2>1
<1> QED  BY <1>6, <1>7, <1>8, <1>9, <1>10, <1>11 DEF Next

\* Whatever the delays and the lease, if the app's patience and its shortest
\* delay are longer than a heartbeat and an enrollment: when the app asks for a
\* renewal, the helper is not at the one it asked for before.
THEOREM OneRenewOfTheAppCorrect == Spec => []OneRenewOfTheApp
<1>1. Init => RenewInv
  <2> SUFFICES ASSUME Init PROVE RenewInv  OBVIOUS
  <2>1. Whole
    BY WholeInit
  <2>2. call["app"] = Idle
    BY DEF Init, Workers
  <2> QED  BY <2>1, <2>2, CallTypes DEF RenewInv, Whole
<1>2. RenewInv => OneRenewOfTheApp
  <2> SUFFICES ASSUME RenewInv, app = "sleep", appIn = 0
               PROVE  call["app"] = Idle
    BY DEF OneRenewOfTheApp
  <2>1. Outstanding(call["app"]) \in Nat
    BY OutstandingTyped DEF RenewInv, Whole
  <2>2. call["app"].pc = "idle"
    BY <2>1 DEF RenewInv
  <2> QED  BY <2>2 DEF RenewInv, Whole, Workers
<1> QED  BY <1>1, <1>2, RenewNext, PTL DEF Spec

-----------------------------------------------------------------------------
(* The device is not cut off for long.                                     *)

\* The times and counters are numbers, within their bounds.
Numbers ==
    /\ cutFor \in Nat /\ misses \in Nat
    /\ timerIn \in Nat /\ timerIn <= HelperCeil
    /\ renewIn \in Nat /\ renewIn <= HelperCeil
    /\ leaseLeft \in Nat /\ serverLeft \in Nat /\ ttl \in Nat
    /\ call["loop"].left \in Nat /\ call["loop"].left <= CallTime
    /\ call["loop"].pc \in {"idle", "heartbeat", "enroll"}

\* They are, by their types.
LEMMA NumbersHold == TypeOK => Numbers
<1> SUFFICES ASSUME TypeOK PROVE Numbers  OBVIOUS
<1>1. /\ call["loop"].left \in Nat /\ call["loop"].left <= CallTime
      /\ call["loop"].pc \in {"idle", "heartbeat", "enroll"}
  BY CallTypes
<1>2. ttl \in Nat
  BY Constants DEF TypeOK
<1>3. /\ cutFor \in Nat /\ misses \in Nat /\ leaseLeft \in Nat /\ serverLeft \in Nat
      /\ timerIn \in Nat /\ timerIn <= HelperCeil
      /\ renewIn \in Nat /\ renewIn <= HelperCeil
  BY <1>2, Constants DEF TypeOK
<1> QED  BY <1>1, <1>2, <1>3 DEF Numbers

\* The bound of CutOffIsBounded after m failed tries.
Bound(m) == HelperCeil + 3 * CallTime + m * (RetryAfter + CallTime)

\* A failed try raises it by the wait for the next and the time of its call.
LEMMA BoundGrows ==
    ASSUME NEW m \in Nat
    PROVE  /\ Bound(m) \in Nat /\ Bound(m) >= HelperCeil + 3 * CallTime
           /\ Bound(m + 1) = Bound(m) + RetryAfter + CallTime
<1>1. HelperCeil \in Nat /\ CallTime \in Nat /\ RetryAfter \in Nat
  BY Constants
<1>2. PICK k \in Nat : k = RetryAfter + CallTime
  BY <1>1
<1>3. m * k \in Nat /\ (m + 1) * k = m * k + k
  BY <1>2
<1> QED  BY <1>1, <1>2, <1>3 DEF Bound

\* The server has the device again after t at the latest, or one more try fails.
NoticedWithin(t) == cutFor + t <= Bound(misses)

\* The session's own loop gets there: from its timer or, when it is told that
\* renewBy moved, from that; then the heartbeat, then the enrollment.
LoopNotices ==
    /\ call["loop"].pc = "heartbeat" => NoticedWithin(call["loop"].left + CallTime)
    /\ call["loop"].pc = "enroll" => NoticedWithin(call["loop"].left)
    /\ call["loop"].pc = "idle" /\ ~wake => NoticedWithin(timerIn + 2 * CallTime)
    /\ call["loop"].pc = "idle" /\ wake =>
         NoticedWithin(renewIn + 2 * CallTime) /\ NoticedWithin(RetryAfter + 2 * CallTime)

\* The server had the device when it answered: a lease on its way is not older
\* than its call.
GrantsAreFresh ==
    \A w \in Workers : call[w].grant # Unseen => cutFor + call[w].left <= CallTime

CutInv == FirstInv /\ Whole /\ LoopNotices /\ GrantsAreFresh

\* The server had the device a call's time ago.
JustSeen == cutFor <= CallTime

\* Whatever the loop is at then, it notices in time.
LEMMA FreshNotices == Numbers /\ JustSeen => LoopNotices
<1> SUFFICES ASSUME Numbers, JustSeen PROVE LoopNotices  OBVIOUS
<1>1. /\ HelperCeil \in Nat /\ CallTime \in Nat /\ RetryAfter \in Nat /\ RetryAfter <= HelperCeil
      /\ cutFor \in Nat /\ misses \in Nat
  BY Constants DEF Numbers
<1>2. Bound(misses) \in Nat /\ Bound(misses) >= HelperCeil + 3 * CallTime
  BY <1>1, BoundGrows
<1>3. ASSUME NEW t \in Nat, t <= HelperCeil + 2 * CallTime
      PROVE  NoticedWithin(t)
  BY <1>1, <1>2, <1>3 DEF NoticedWithin, JustSeen
<1>4. /\ call["loop"].left + CallTime \in Nat /\ call["loop"].left + CallTime <= HelperCeil + 2 * CallTime
      /\ call["loop"].left \in Nat /\ call["loop"].left <= HelperCeil + 2 * CallTime
      /\ timerIn + 2 * CallTime \in Nat /\ timerIn + 2 * CallTime <= HelperCeil + 2 * CallTime
      /\ renewIn + 2 * CallTime \in Nat /\ renewIn + 2 * CallTime <= HelperCeil + 2 * CallTime
      /\ RetryAfter + 2 * CallTime \in Nat /\ RetryAfter + 2 * CallTime <= HelperCeil + 2 * CallTime
  BY <1>1 DEF Numbers
<1> QED  BY <1>3, <1>4 DEF LoopNotices

\* So does a step that leaves the loop, its timer and its count of failures alone.
LEMMA NoticesStay ==
    ASSUME Numbers, Numbers', LoopNotices, cutFor' <= cutFor,
           UNCHANGED <<misses, timerIn, wake>>, renewIn' = renewIn \/ renewIn' <= RetryAfter,
           call'["loop"].pc = call["loop"].pc, call'["loop"].left = call["loop"].left
    PROVE  LoopNotices'
<1>1. /\ CallTime \in Nat /\ RetryAfter \in Nat
      /\ cutFor \in Nat /\ cutFor' \in Nat /\ misses \in Nat /\ timerIn \in Nat
      /\ renewIn \in Nat /\ renewIn' \in Nat /\ call["loop"].left \in Nat
  BY Constants DEF Numbers
<1>2. Bound(misses) \in Nat
  BY <1>1, BoundGrows
<1>3. ASSUME NEW t \in Nat, NEW u \in Nat, u <= t, NoticedWithin(t)
      PROVE  cutFor' + u <= Bound(misses')
  BY <1>1, <1>2, <1>3 DEF NoticedWithin
<1>4. call'["loop"].pc = "heartbeat" => cutFor' + (call'["loop"].left + CallTime) <= Bound(misses')
  BY <1>1, <1>3 DEF LoopNotices
<1>5. call'["loop"].pc = "enroll" => cutFor' + call'["loop"].left <= Bound(misses')
  BY <1>1, <1>3 DEF LoopNotices
<1>6. call'["loop"].pc = "idle" /\ ~wake' => cutFor' + (timerIn' + 2 * CallTime) <= Bound(misses')
  BY <1>1, <1>3 DEF LoopNotices
<1>7. call'["loop"].pc = "idle" /\ wake' => /\ cutFor' + (renewIn' + 2 * CallTime) <= Bound(misses')
                                            /\ cutFor' + (RetryAfter + 2 * CallTime) <= Bound(misses')
  BY <1>1, <1>3 DEF LoopNotices
<1> QED  BY <1>4, <1>5, <1>6, <1>7 DEF LoopNotices, NoticedWithin

\* Nor do answers get older by a step at which no time passes.
LEMMA FreshStay ==
    ASSUME TypeOK, TypeOK', GrantsAreFresh, cutFor' <= cutFor,
           \A w \in Workers : call'[w].grant # Unseen =>
                                 call[w].grant # Unseen /\ call'[w].left <= call[w].left
    PROVE  GrantsAreFresh'
<1> SUFFICES ASSUME NEW w \in Workers, call'[w].grant # Unseen
             PROVE  cutFor' + call'[w].left <= CallTime
  BY DEF GrantsAreFresh
<1>1. cutFor \in Nat /\ cutFor' \in Nat /\ CallTime \in Nat /\ call[w].left \in Nat
  BY CallTypes DEF TypeOK
<1>2. call'[w].left \in Nat
  BY <1>1 DEF TypeOK, Call
<1>3. cutFor + call[w].left <= CallTime
  BY DEF GrantsAreFresh
<1> QED  BY <1>1, <1>2, <1>3

\* The next try comes soon.
LEMMA RetriesSoon ==
    ASSUME NEW r \in Nat
    PROVE  RetryIn(r) \in Nat /\ RetryIn(r) <= RetryAfter
  BY Constants, Shares DEF RetryIn, Least, Greatest

\* A worker's renewal, and what it leaves of answers.
LEMMA OverFresh ==
    ASSUME Whole, TypeOK', GrantsAreFresh, NEW w \in Workers, Over(w), cutFor' = cutFor
    PROVE  GrantsAreFresh'
<1>1. \A v \in Workers : call'[v] = call[v] \/ call'[v] = Idle
  BY RenewalCalls
<1>2. TypeOK /\ cutFor \in Nat /\ Idle.grant = Unseen /\ \A v \in Workers : call[v].left \in Nat
  BY CallTypes DEF Whole, TypeOK
<1>3. \A v \in Workers : call'[v].grant # Unseen =>
                            call[v].grant # Unseen /\ call'[v].left <= call[v].left
  BY <1>1, <1>2
<1> QED  BY <1>2, <1>3, FreshStay

\* A renewal of the app that is not about the live session leaves the loop alone.
LEMMA OverOfApp ==
    ASSUME Whole, Numbers, Numbers', LoopNotices, Over("app"), cutFor' = cutFor,
           UNCHANGED <<misses, wake>>, renewIn' = renewIn \/ renewIn' <= RetryAfter
    PROVE  LoopNotices'
<1>1. call'["loop"] = call["loop"] /\ UNCHANGED timerIn
  <2>1. call'["loop"] = call["loop"]
    BY RenewalCalls DEF Workers
  <2> QED  BY <2>1 DEF Over
<1>2. cutFor' <= cutFor
  BY DEF Numbers
<1> QED  BY <1>1, <1>2, NoticesStay

\* A step of a renewal keeps the bound.
LEMMA CutRenewal ==
    ASSUME CutInv, Whole', Numbers, Numbers', NEW w \in Workers, Renewal(w)
    PROVE  LoopNotices' /\ GrantsAreFresh'
<1> USE DEF server_vars, renewal_vars, app_vars
<1>1. /\ Whole /\ TypeOK /\ TypeOK' /\ LoopNotices /\ GrantsAreFresh
      /\ "loop" \in Workers /\ "app" \in Workers /\ w \in {"loop", "app"}
      /\ Unseen = Idle.grant
  BY CallTypes DEF CutInv, Whole, Workers
<1>2. /\ CallTime \in Nat /\ RetryAfter \in Nat /\ cutFor \in Nat /\ cutFor' \in Nat
      /\ misses \in Nat /\ call["loop"].left \in Nat
      /\ \A v \in Workers : call[v].left \in Nat
  BY <1>1, Constants, CallTypes DEF Numbers
<1>3. w = "loop" /\ call[w].pc # "idle" => call[w].mine
  BY DEF CutInv, FirstInv, LoopIsCurrent, LoopIdle, Idle
<1>4. ASSUME cutFor' <= CallTime
      PROVE  LoopNotices'
  <2>1. JustSeen'
    BY <1>4 DEF JustSeen
  <2>2. Numbers'
    OBVIOUS
  <2> QED  BY <2>1, <2>2, FreshNotices, PTL
<1>5. call[w].grant # Unseen => cutFor <= CallTime
  <2>1. call[w].grant # Unseen => cutFor + call[w].left <= CallTime
    BY <1>1 DEF GrantsAreFresh
  <2> QED  BY <1>2, <2>1
<1>6. ASSUME TunnelDown
      PROVE  LoopNotices' /\ GrantsAreFresh'
  <2>1. cutFor' = 0 /\ cutFor' <= CallTime
    BY <1>2, <1>6 DEF TunnelDown
  <2>2. GrantsAreFresh'
    BY <1>1, <1>6, RenewalCalls DEF GrantsAreFresh
  <2> QED  BY <1>4, <2>1, <2>2
<1>7. CASE ServerGrants(w)
  <2>1. cutFor' = 0 /\ cutFor' <= CallTime
    BY <1>2, <1>7 DEF ServerGrants
  <2>2. \A v \in Workers : call'[v].left = call[v].left
    BY <1>1, <1>7, GrantCalls
  <2>3. GrantsAreFresh'
    BY <1>1, <1>2, <2>1, <2>2, CallTypes DEF GrantsAreFresh
  <2> QED  BY <1>4, <2>1, <2>3
<1>8. CASE Renewed(w)
  <2>1. Over(w) /\ cutFor' = cutFor /\ cutFor <= CallTime
    BY <1>5, <1>8 DEF Renewed
  <2> QED  BY <1>1, <1>4, <2>1, OverFresh
<1>9. CASE Unanswered(w)
  <2>1. Over(w) /\ cutFor' = cutFor /\ call[w].pc = "heartbeat"
    BY <1>9 DEF Unanswered
  <2>2. GrantsAreFresh'
    BY <1>1, <2>1, OverFresh
  <2>3. call[w].mine => renewIn' <= RetryAfter /\ wake' = wake
    <3>1. RetryIn(leaseLeft) <= RetryAfter
      BY RetriesSoon DEF Numbers
    <3> QED  BY <1>9, <3>1 DEF Unanswered, Retry
  <2>4. CASE w = "loop"
    <3>1. misses' = misses + 1 /\ timerIn' = renewIn' /\ renewIn' <= RetryAfter
      BY <1>3, <1>9, <2>3, <2>4 DEF Unanswered, Retry, Over, Rearm
    <3>2. call'["loop"].pc = "idle"
      BY <1>1, <2>1, <2>4, RenewalCalls, CallTypes
    <3>3. Bound(misses) \in Nat /\ Bound(misses') = Bound(misses) + RetryAfter + CallTime
      BY <1>2, <3>1, BoundGrows
    <3>4. cutFor + (call["loop"].left + CallTime) <= Bound(misses)
      BY <1>1, <2>1, <2>4 DEF LoopNotices, NoticedWithin
    <3>5. ASSUME NEW t \in Nat, t <= RetryAfter
          PROVE  cutFor' + (t + 2 * CallTime) <= Bound(misses')
      BY <1>2, <2>1, <3>3, <3>4, <3>5
    <3>6. /\ cutFor' + (timerIn' + 2 * CallTime) <= Bound(misses')
          /\ cutFor' + (renewIn' + 2 * CallTime) <= Bound(misses')
          /\ cutFor' + (RetryAfter + 2 * CallTime) <= Bound(misses')
      <4>1. renewIn' \in Nat /\ RetryAfter <= RetryAfter
        BY <1>2 DEF Numbers
      <4>2. cutFor' + (renewIn' + 2 * CallTime) <= Bound(misses')
        BY <3>1, <3>5, <4>1
      <4>3. cutFor' + (RetryAfter + 2 * CallTime) <= Bound(misses')
        BY <1>2, <3>5, <4>1
      <4> QED  BY <3>1, <4>2, <4>3
    <3> QED  BY <2>2, <3>2, <3>6 DEF LoopNotices, NoticedWithin
  <2>5. CASE w = "app"
    <3>1. UNCHANGED <<misses, wake>> /\ (renewIn' = renewIn \/ renewIn' <= RetryAfter)
      BY <1>9, <2>3, <2>5 DEF Unanswered, Retry
    <3> QED  BY <1>1, <2>1, <2>2, <2>5, <3>1, OverOfApp
  <2> QED  BY <1>1, <2>4, <2>5
<1>10. CASE Forgotten(w)
  <2>1. /\ call'[w] = Sent("enroll", call[w].mine) /\ call[w].pc = "heartbeat"
        /\ \A v \in Workers \ {w} : call'[v] = call[v]
    BY <1>1, <1>10, RenewalCalls DEF Forgotten
  <2>2. UNCHANGED <<misses, wake, timerIn, renewIn, cutFor>> /\ cutFor' <= cutFor
    BY <1>2, <1>10 DEF Forgotten
  <2>3. /\ call'[w].pc = "enroll" /\ call'[w].left = CallTime /\ call'[w].grant = Unseen
    BY <2>1, SentFields
  <2>4. GrantsAreFresh'
    <3>1. \A v \in Workers : call'[v].grant # Unseen =>
                                call[v].grant # Unseen /\ call'[v].left <= call[v].left
      BY <1>2, <2>1, <2>3
    <3> QED  BY <1>1, <2>2, <3>1, FreshStay
  <2>5. CASE w = "loop"
    <3>1. cutFor + (call["loop"].left + CallTime) <= Bound(misses) /\ Bound(misses) \in Nat
      BY <1>1, <1>2, <2>1, <2>5, BoundGrows DEF LoopNotices, NoticedWithin
    <3>2. cutFor' + call'["loop"].left <= Bound(misses')
      BY <1>2, <2>2, <2>3, <2>5, <3>1
    <3> QED  BY <2>3, <2>4, <2>5, <3>2 DEF LoopNotices, NoticedWithin
  <2>6. CASE w = "app"
    <3>1. call'["loop"] = call["loop"]
      BY <1>1, <2>1, <2>6
    <3> QED  BY <1>1, <2>2, <2>4, <3>1, NoticesStay
  <2> QED  BY <1>1, <2>5, <2>6
<1>11. CASE Refused(w)
  BY <1>6, <1>11 DEF Refused
<1>12. CASE Enrolled(w)
  <2>1. cutFor' = cutFor /\ cutFor <= CallTime /\ cutFor' <= cutFor
    BY <1>2, <1>5, <1>12 DEF Enrolled
  <2>2. \A v \in Workers : call'[v].grant # Unseen =>
                              call[v].grant # Unseen /\ call'[v].left <= call[v].left
    BY <1>1, <1>2, <1>12, EnrolledCalls
  <2>3. GrantsAreFresh'
    BY <1>1, <2>1, <2>2, FreshStay
  <2> QED  BY <1>4, <2>1, <2>3
<1>13. CASE EnrollFails(w)
  <2>1. CASE call[w].mine
    BY <1>6, <1>13, <2>1 DEF EnrollFails
  <2>2. CASE ~call[w].mine
    <3>1. w = "app" /\ Over(w) /\ cutFor' = cutFor /\ UNCHANGED <<misses, wake, renewIn>>
      BY <1>1, <1>3, <1>13, <2>2 DEF EnrollFails
    <3>2. GrantsAreFresh'
      BY <1>1, <3>1, OverFresh
    <3>3. Over("app")
      BY <3>1
    <3> QED  BY <1>1, <3>1, <3>2, <3>3, OverOfApp
  <2> QED  BY <2>1, <2>2
<1> QED  BY <1>7, <1>8, <1>9, <1>10, <1>11, <1>12, <1>13 DEF Renewal

\* Every step keeps CutInv.
LEMMA CutNext ==
    ASSUME CutInv, [Next]_vars
    PROVE  CutInv'
<1> USE DEF server_vars, renewal_vars, app_vars
<1>1. Whole /\ Whole' /\ FirstInv' /\ TypeOK /\ TypeOK' /\ LoopNotices /\ GrantsAreFresh
  BY WholeNext, FirstNext DEF CutInv, Whole
<1>2. Numbers /\ Numbers'
  BY <1>1, NumbersHold, PTL
<1>3. /\ CallTime \in Nat /\ cutFor \in Nat /\ timerIn \in Nat /\ renewIn \in Nat
      /\ Bound(misses) \in Nat /\ call["loop"].left \in Nat
      /\ "loop" \in Workers /\ "app" \in Workers
      /\ \A w \in Workers : call[w].left \in Nat
  BY <1>1, <1>2, Constants, CallTypes, BoundGrows DEF Numbers
<1>4. CASE Tick
  <2>1. cutFor' \in {0, cutFor + 1} /\ UNCHANGED <<misses, wake>>
    BY <1>4 DEF Tick
  <2>2. \A w \in Workers :
          /\ call'[w].pc = call[w].pc
          /\ call[w].pc # "idle" => call[w].left > 0 /\ call'[w].left = call[w].left - 1
          /\ call'[w].grant # Unseen => call[w].grant # Unseen
    BY <1>1, <1>4, TickCalls
  <2>3. GrantsAreFresh'
    <3> SUFFICES ASSUME NEW w \in Workers, call'[w].grant # Unseen
                 PROVE  cutFor' + call'[w].left <= CallTime
      BY DEF GrantsAreFresh
    <3>1. call[w].pc # "idle" /\ cutFor + call[w].left <= CallTime
      BY <1>1, <2>2, CallTypes DEF Whole, GrantsAreFresh
    <3>2. call[w].left \in Nat /\ call[w].left > 0 /\ call'[w].left = call[w].left - 1
      BY <1>3, <2>2, <3>1
    <3> QED  BY <1>3, <2>1, <3>1, <3>2
  <2>4. CASE ~up
    <3>1. cutFor' = 0 /\ cutFor' <= CallTime
      <4>1. cutFor' = 0
        BY <1>4, <2>4 DEF Tick
      <4> QED  BY <1>3, <4>1
    <3>2. JustSeen'
      BY <3>1 DEF JustSeen
    <3>3. LoopNotices'
      BY <1>2, <3>2, FreshNotices, PTL
    <3> QED  BY <1>1, <2>3, <3>3 DEF CutInv
  <2>5. CASE up
    <3>1. CASE call["loop"].pc = "idle"
      <4>1. timerIn > 0 /\ ~wake /\ timerIn' = timerIn - 1
        <5>1. timerIn > 0 /\ ~wake
          BY <1>1, <1>3, <1>4, <2>5, <3>1 DEF Tick, Quiet, Whole
        <5>2. timerIn' = Sooner(timerIn, 1)
          BY <1>4 DEF Tick
        <5> QED  BY <1>3, <5>1, <5>2 DEF Sooner, Greatest
      <4>2. cutFor + (timerIn + 2 * CallTime) <= Bound(misses)
        BY <1>1, <3>1, <4>1 DEF LoopNotices, NoticedWithin
      <4>3. cutFor' + (timerIn' + 2 * CallTime) <= Bound(misses')
        BY <1>3, <2>1, <4>1, <4>2
      <4>4. call'["loop"].pc = "idle" /\ ~wake'
        BY <1>3, <2>1, <2>2, <3>1, <4>1
      <4>5. LoopNotices'
        BY <4>3, <4>4 DEF LoopNotices, NoticedWithin
      <4> QED  BY <1>1, <2>3, <4>5 DEF CutInv
    <3>2. CASE call["loop"].pc # "idle"
      <4>1. /\ call'["loop"].left = call["loop"].left - 1 /\ call["loop"].left > 0
            /\ call'["loop"].pc = call["loop"].pc
        BY <1>3, <2>2, <3>2
      <4>2. call["loop"].pc = "heartbeat" => cutFor + (call["loop"].left + CallTime) <= Bound(misses)
        BY <1>1 DEF LoopNotices, NoticedWithin
      <4>3. call["loop"].pc = "heartbeat" =>
              cutFor' + (call'["loop"].left + CallTime) <= Bound(misses')
        BY <1>3, <2>1, <4>1, <4>2
      <4>4. call["loop"].pc = "enroll" => cutFor + call["loop"].left <= Bound(misses)
        BY <1>1 DEF LoopNotices, NoticedWithin
      <4>5. call["loop"].pc = "enroll" => cutFor' + call'["loop"].left <= Bound(misses')
        BY <1>3, <2>1, <4>1, <4>4
      <4>6. LoopNotices'
        BY <3>2, <4>1, <4>3, <4>5 DEF LoopNotices, NoticedWithin
      <4> QED  BY <1>1, <2>3, <4>6 DEF CutInv
    <3> QED  BY <3>1, <3>2
  <2> QED  BY <2>4, <2>5
<1>5. CASE LoopWoken
  <2>1. /\ UNCHANGED <<cutFor, misses, call>> /\ wake /\ ~wake' /\ timerIn' = renewIn
        /\ call["loop"].pc = "idle" /\ cutFor' <= cutFor
    BY <1>1, <1>3, <1>5, CallTypes DEF LoopWoken, LoopWaits
  <2>2. LoopNotices'
    BY <1>1, <2>1 DEF LoopNotices, NoticedWithin
  <2>3. GrantsAreFresh'
    BY <1>1, <2>1 DEF GrantsAreFresh
  <2> QED  BY <1>1, <2>2, <2>3 DEF CutInv
<1>6. CASE LoopFires
  <2>1. /\ call["loop"].pc = "idle" /\ timerIn = 0 /\ UNCHANGED <<cutFor, misses, wake>>
        /\ call' = [call EXCEPT !["loop"] = Sent("heartbeat", TRUE)]
    BY <1>1, <1>6, CallTypes DEF LoopFires, LoopWaits
  <2>2. /\ call'["loop"].pc = "heartbeat" /\ call'["loop"].left = CallTime
        /\ call'["loop"].grant = Unseen /\ call'["app"] = call["app"]
    <3>1. call'["loop"] = Sent("heartbeat", TRUE) /\ call'["app"] = call["app"]
      BY <1>1, <1>3, <2>1, CallTypes
    <3>2. /\ Sent("heartbeat", TRUE).pc = "heartbeat" /\ Sent("heartbeat", TRUE).left = CallTime
          /\ Sent("heartbeat", TRUE).grant = Unseen
      BY DEF Sent
    <3> QED  BY <3>1, <3>2
  <2>3. cutFor + 2 * CallTime <= Bound(misses)
    <3>1. wake => cutFor + (renewIn + 2 * CallTime) <= Bound(misses)
      BY <1>1, <2>1 DEF LoopNotices, NoticedWithin
    <3>2. ~wake => cutFor + (0 + 2 * CallTime) <= Bound(misses)
      BY <1>1, <2>1 DEF LoopNotices, NoticedWithin
    <3> QED  BY <1>3, <3>1, <3>2
  <2>4. cutFor' + (call'["loop"].left + CallTime) <= Bound(misses')
    <3>1. cutFor' = cutFor /\ misses' = misses
      BY <2>1
    <3> QED  BY <1>3, <2>2, <2>3, <3>1
  <2>5. LoopNotices'
    BY <2>2, <2>4 DEF LoopNotices, NoticedWithin
  <2>6. GrantsAreFresh'
    BY <1>1, <2>1, <2>2 DEF GrantsAreFresh, Workers
  <2> QED  BY <1>1, <2>5, <2>6 DEF CutInv
<1>7. CASE \E w \in Workers : Renewal(w)
  BY <1>1, <1>2, <1>7, CutRenewal DEF CutInv
<1>8. CASE KeepRenewing \/ (\E d \in Naps : Suspend(d)) \/ ServerForgets \/ UNCHANGED vars
  <2>1. UNCHANGED <<cutFor, misses, timerIn, wake, renewIn>> /\ cutFor' <= cutFor
    <3>1. UNCHANGED <<cutFor, misses, timerIn, wake, renewIn>>
      <4>1. CASE KeepRenewing
        BY <4>1 DEF KeepRenewing, AppSleeps, AppReturns, AppHasNoBearer, AppRenews, AppGivesUp
      <4>2. CASE \E d \in Naps : Suspend(d)
        BY <4>2 DEF Suspend
      <4>3. CASE ServerForgets \/ UNCHANGED vars
        BY <4>3 DEF ServerForgets, vars
      <4> QED  BY <1>8, <4>1, <4>2, <4>3
    <3> QED  BY <1>3, <3>1
  <2>2. /\ call'["loop"].pc = call["loop"].pc /\ call'["loop"].left = call["loop"].left
        /\ \A w \in Workers : call'[w].grant # Unseen =>
                                call[w].grant # Unseen /\ call'[w].left <= call[w].left
    <3>1. CASE \E d \in Naps : Suspend(d)
      BY <1>1, <1>3, <3>1, SuspendCalls
    <3>2. CASE AppRenews
      <4>1. call' = [call EXCEPT !["app"] = Sent("heartbeat", TRUE)]
        BY <3>2 DEF AppRenews
      <4>2. call'["loop"] = call["loop"] /\ call'["app"] = Sent("heartbeat", TRUE)
        BY <1>1, <1>3, <4>1, CallTypes
      <4>3. Sent("heartbeat", TRUE).grant = Unseen
        BY DEF Sent
      <4>4. \A w \in Workers : call'[w] = call[w] \/ call'[w].grant = Unseen
        BY <4>2, <4>3 DEF Workers
      <4>5. \A w \in Workers : call[w].left <= call[w].left
        BY <1>3
      <4> QED  BY <4>2, <4>4, <4>5
    <3>3. CASE UNCHANGED call
      BY <1>3, <3>3
    <3> QED  BY <1>8, <3>1, <3>2, <3>3
             DEF KeepRenewing, AppSleeps, AppReturns, AppHasNoBearer, AppGivesUp, ServerForgets, vars
  <2>3. LoopNotices'
    BY <1>1, <1>2, <2>1, <2>2, NoticesStay
  <2>4. GrantsAreFresh'
    BY <1>1, <2>1, <2>2, FreshStay
  <2> QED  BY <1>1, <2>3, <2>4 DEF CutInv
<1> QED  BY <1>4, <1>5, <1>6, <1>7, <1>8 DEF Next

\* Whatever the delays, the time-outs and the lease: a device that is awake is
\* without a lease at the server no longer than the helper's longest delay, the
\* time of three calls, and what each failed try adds.
THEOREM CutOffIsBoundedCorrect == Spec => []CutOffIsBounded
<1>1. Init => CutInv
  <2> SUFFICES ASSUME Init PROVE CutInv  OBVIOUS
  <2>1. Whole /\ FirstInv /\ TypeOK
    BY WholeInit, FirstInit DEF Whole
  <2>2. JustSeen
    BY CallTypes, <2>1 DEF Init, JustSeen
  <2>3. GrantsAreFresh
    BY <2>1, CallTypes DEF Init, GrantsAreFresh
  <2> QED  BY <2>1, <2>2, <2>3, NumbersHold, FreshNotices DEF CutInv
<1>2. CutInv => CutOffIsBounded
  <2> SUFFICES ASSUME CutInv PROVE cutFor <= Bound(misses)
    BY DEF CutOffIsBounded, Bound
  <2>1. Numbers /\ LoopNotices
    BY NumbersHold DEF CutInv, Whole
  <2>2. CallTime \in Nat /\ RetryAfter \in Nat /\ Bound(misses) \in Nat
    BY <2>1, Constants, BoundGrows DEF Numbers
  <2>3. PICK t \in Nat : NoticedWithin(t)
    <3>1. /\ call["loop"].left + CallTime \in Nat /\ call["loop"].left \in Nat
          /\ timerIn + 2 * CallTime \in Nat /\ RetryAfter + 2 * CallTime \in Nat
      BY <2>1, <2>2 DEF Numbers
    <3> QED  BY <2>1, <3>1 DEF LoopNotices, Numbers
  <2> QED  BY <2>1, <2>2, <2>3 DEF NoticedWithin, Numbers
<1> QED  BY <1>1, <1>2, CutNext, PTL DEF Spec

-----------------------------------------------------------------------------
(* One failed try does not cost the lease.                                 *)

\* A try of the loop that is over after t leaves of the lease: two and a half
\* times a call's time, if it is the first; something, if it is the second.
Room(t) ==
    /\ misses = 0 => 2 * (leaseLeft - t) >= 5 * CallTime
    /\ misses = 1 => 4 * (leaseLeft - t) >= CallTime

\* The try that the loop is at, or waits for.  When it is told that renewBy moved,
\* the try comes then, or when the app's retry moves it to.  An enrollment is
\* over before the lease ends that the server gave.
LoopHasRoom ==
    /\ call["loop"].pc = "heartbeat" => Room(call["loop"].left)
    /\ call["loop"].pc = "enroll" => serverLeft = 0 \/ serverLeft > call["loop"].left
    /\ call["loop"].pc = "idle" /\ ~wake => Room(timerIn + CallTime)
    /\ call["loop"].pc = "idle" /\ wake =>
         Room(renewIn + CallTime) /\ Room(RetryIn(leaseLeft) + CallTime)

\* The lease is long enough, and the device was not suspended.
Spared == LongEnough /\ ~napped

\* Nothing is left to renew once the tunnel is down.
DownIsOver ==
    ~up => serverLeft = 0 /\ app = "away" /\ \A w \in Workers : call[w] = Idle

OutlastInv ==
    /\ LeaseInv /\ FirstInv /\ Whole
    /\ DownIsOver
    /\ up /\ Spared => LoopHasRoom

\* Half of a lease that is just set, or its retry, leaves room for two tries.
LEMMA RoomOfLease ==
    ASSUME LongEnough, NEW l \in Nat, ttl \in Nat, ttl <= l + CallTime, HelperDelay(l) \in Nat
    PROVE  /\ 2 * (l - (HelperDelay(l) + CallTime)) >= 5 * CallTime
           /\ 2 * (l - (RetryIn(l) + CallTime)) >= 5 * CallTime
           /\ l >= 7 * CallTime
<1>1. /\ CallTime \in Nat \ {0} /\ HelperFloor \in Nat /\ RetryAfter \in Nat /\ HelperCeil \in Nat
      /\ ttl >= 8 * CallTime /\ ttl >= 3 * HelperFloor
  BY Constants DEF LongEnough
<1>2. l >= 7 * CallTime
  BY <1>1
<1>3. l \div 2 \in Nat /\ 2 * (l \div 2) <= l
  OBVIOUS
<1>4. HelperDelay(l) \in Nat /\ (HelperDelay(l) <= l \div 2 \/ HelperDelay(l) <= HelperFloor)
  BY <1>1, <1>3 DEF HelperDelay, Least, Greatest
<1>5. RetryIn(l) \in Nat /\ (RetryIn(l) <= l \div 2 \/ RetryIn(l) <= 1)
  BY <1>1, <1>3 DEF RetryIn, Least, Greatest
<1>6. 2 * (l - (HelperDelay(l) + CallTime)) >= 5 * CallTime
  BY <1>1, <1>2, <1>3, <1>4
<1>7. 2 * (l - (RetryIn(l) + CallTime)) >= 5 * CallTime
  BY <1>1, <1>2, <1>3, <1>5
<1> QED  BY <1>2, <1>6, <1>7

\* A retry comes at half of what is left.
LEMMA RoomOfRetry ==
    ASSUME NEW l \in Nat, 2 * l >= 5 * CallTime
    PROVE  4 * (l - (RetryIn(l) + CallTime)) >= CallTime
<1>1. CallTime \in Nat \ {0} /\ RetryAfter \in Nat
  BY Constants
<1>2. l >= 3 /\ l \div 2 \in Nat /\ 2 * (l \div 2) <= l /\ l \div 2 >= 1
  BY <1>1
<1>3. RetryIn(l) \in Nat /\ RetryIn(l) <= l \div 2
  BY <1>1, <1>2 DEF RetryIn, Least, Greatest
<1> QED  BY <1>1, <1>2, <1>3

\* Whatever the loop is at when the lease is set, and whoever sets it: there is
\* room.
LEMMA RoomSet ==
    ASSUME Numbers, Numbers', UNCHANGED ttl, NEW l \in Nat, SetLease(l), Spared',
           serverLeft' = 0 \/ l <= serverLeft'
    PROVE  LoopHasRoom'
<1>1. /\ leaseLeft' = l /\ renewIn' = HelperDelay(l) /\ wake' /\ misses' = 0
      /\ ttl <= l + CallTime
  <2>1. ~(l + CallTime < ttl)
    BY DEF SetLease, Spared
  <2> QED  BY <2>1, Constants DEF SetLease, Numbers
<1>2. LongEnough
  BY DEF Spared, LongEnough
<1>3. /\ CallTime \in Nat \ {0} /\ call'["loop"].left \in Nat /\ call'["loop"].left <= CallTime
      /\ serverLeft' \in Nat /\ ttl \in Nat
  BY Constants DEF Numbers
<1>4. HelperDelay(l) \in Nat
  BY DelaysAreBounded, Constants
<1>5. /\ 2 * (l - (HelperDelay(l) + CallTime)) >= 5 * CallTime
      /\ 2 * (l - (RetryIn(l) + CallTime)) >= 5 * CallTime
      /\ l >= 7 * CallTime
  BY <1>1, <1>2, <1>3, <1>4, RoomOfLease
<1>6. 2 * (l - call'["loop"].left) >= 5 * CallTime
  BY <1>3, <1>5
<1>7. serverLeft' = 0 \/ serverLeft' > call'["loop"].left
  BY <1>3, <1>5
<1>8. /\ call'["loop"].pc = "heartbeat" => Room(call["loop"].left)'
      /\ Room(renewIn + CallTime)' /\ Room(RetryIn(leaseLeft) + CallTime)'
  BY <1>1, <1>5, <1>6 DEF Room
<1> QED  BY <1>1, <1>7, <1>8 DEF LoopHasRoom

\* A step that leaves the lease, the loop, its timer and its count of failures
\* alone leaves it its room.
LEMMA RoomStays ==
    ASSUME Numbers, LoopHasRoom, LongEnough, UNCHANGED <<leaseLeft, misses, timerIn, wake>>,
           renewIn' = renewIn \/ renewIn' = RetryIn(leaseLeft),
           serverLeft' \in {0, serverLeft, ttl},
           call'["loop"].pc = call["loop"].pc, call'["loop"].left = call["loop"].left
    PROVE  LoopHasRoom'
<1>1. /\ CallTime \in Nat \ {0} /\ call["loop"].left \in Nat /\ call["loop"].left <= CallTime
      /\ ttl \in Nat /\ ttl >= 8 * CallTime
  BY Constants DEF Numbers, LongEnough
<1>2. ttl > call["loop"].left
  BY <1>1
<1>3. call'["loop"].pc = "enroll" => serverLeft' = 0 \/ serverLeft' > call'["loop"].left
  BY <1>2 DEF LoopHasRoom
<1>4. /\ call'["loop"].pc = "heartbeat" => Room(call["loop"].left)'
      /\ call'["loop"].pc = "idle" /\ ~wake' => Room(timerIn + CallTime)'
      /\ call'["loop"].pc = "idle" /\ wake' =>
           Room(renewIn + CallTime)' /\ Room(RetryIn(leaseLeft) + CallTime)'
  BY DEF LoopHasRoom, Room
<1> QED  BY <1>3, <1>4 DEF LoopHasRoom

\* A renewal, of the loop or of the app, leaves the loop its room.
LEMMA RoomRenewal ==
    ASSUME OutlastInv, LeaseInv', Numbers, Numbers', NEW w \in Workers, Renewal(w), up', Spared'
    PROVE  LoopHasRoom'
<1> USE DEF server_vars, renewal_vars, app_vars
<1>1. /\ Whole /\ TypeOK /\ LeaseInv /\ LeaseInv'
      /\ "loop" \in Workers /\ "app" \in Workers /\ w \in {"loop", "app"}
  BY CallTypes DEF OutlastInv, Whole, Workers
<1>2. LongEnough /\ ~TunnelDown /\ UNCHANGED ttl
  <2>1. UNCHANGED ttl
    BY DEF Renewal, ServerGrants, Renewed, Unanswered, Forgotten, Refused, Enrolled, EnrollFails,
           TunnelDown
  <2> QED  BY <2>1 DEF TunnelDown, Spared, LongEnough
<1>3. w = "loop" /\ call[w].pc # "idle" => call[w].mine
  BY DEF OutlastInv, FirstInv, LoopIsCurrent, LoopIdle, Idle
<1>4. ~napped' /\ (UNCHANGED <<up, napped>> => LoopHasRoom)
  BY <1>2 DEF OutlastInv, Spared
<1>5. ASSUME SetLease(GrantOf(w)), call[w].grant # Unseen, UNCHANGED serverLeft
      PROVE  LoopHasRoom'
  <2>1. GrantOf(w) \in Nat /\ (serverLeft' = 0 \/ GrantOf(w) <= serverLeft')
    BY <1>1, <1>5, GrantIsNat DEF LeaseInv, GrantsAreNotOverestimated, GrantOf
  <2> QED  BY <1>2, <1>5, <2>1, RoomSet
<1>6. ASSUME Over(w), w = "app",
             UNCHANGED <<up, serverLeft, leaseLeft, misses, wake, napped>>,
             renewIn' = renewIn \/ renewIn' = RetryIn(leaseLeft)
      PROVE  LoopHasRoom'
  <2>1. call'["loop"] = call["loop"] /\ UNCHANGED timerIn
    BY <1>1, <1>6, RenewalCalls DEF Over
  <2> QED  BY <1>2, <1>4, <1>6, <2>1, RoomStays
<1>7. CASE ServerGrants(w)
  <2>1. call'["loop"].pc = call["loop"].pc /\ call'["loop"].left = call["loop"].left
    BY <1>1, <1>7, GrantCalls
  <2>2. UNCHANGED <<up, leaseLeft, misses, timerIn, wake, renewIn, napped>> /\ serverLeft' = ttl
    BY <1>7 DEF ServerGrants
  <2> QED  BY <1>2, <1>4, <2>1, <2>2, RoomStays
<1>8. CASE Renewed(w)
  <2>1. CASE call[w].mine
    BY <1>5, <1>8, <2>1 DEF Renewed
  <2>2. CASE ~call[w].mine
    <3>1. /\ w = "app" /\ Over(w)
          /\ UNCHANGED <<up, serverLeft, leaseLeft, misses, wake, napped, renewIn>>
      BY <1>1, <1>3, <1>8, <2>2 DEF Renewed
    <3> QED  BY <1>6, <3>1
  <2> QED  BY <2>1, <2>2
<1>9. CASE Unanswered(w)
  <2>1. Over(w) /\ call[w].pc = "heartbeat" /\ UNCHANGED <<up, serverLeft, leaseLeft, wake, napped>>
    BY <1>9 DEF Unanswered, Retry
  <2>2. CASE w = "app"
    <3>1. UNCHANGED misses /\ (renewIn' = renewIn \/ renewIn' = RetryIn(leaseLeft))
      BY <1>9, <2>2 DEF Unanswered, Retry
    <3> QED  BY <1>6, <2>1, <2>2, <3>1
  <2>3. CASE w = "loop"
    <3>1. misses' = misses + 1 /\ timerIn' = renewIn' /\ renewIn' = RetryIn(leaseLeft)
      BY <1>3, <1>9, <2>3 DEF Unanswered, Retry, Over, Rearm
    <3>2. call'["loop"].pc = "idle"
      BY <1>1, <2>1, <2>3, RenewalCalls, CallTypes
    <3>3. Room(call["loop"].left)
      BY <1>4, <2>1, <2>3 DEF LoopHasRoom
    <3>4. misses = 0 => 4 * (leaseLeft - (RetryIn(leaseLeft) + CallTime)) >= CallTime
      <4>1. /\ CallTime \in Nat /\ leaseLeft \in Nat /\ call["loop"].left \in Nat
        BY Constants DEF Numbers
      <4>2. misses = 0 => 2 * leaseLeft >= 5 * CallTime
        BY <3>3, <4>1 DEF Room
      <4> QED  BY <4>1, <4>2, RoomOfRetry
    <3>5. misses \in Nat /\ misses' # 0 /\ (misses' = 1 => misses = 0)
      BY <3>1 DEF Numbers
    <3>6. Room(RetryIn(leaseLeft) + CallTime)' /\ Room(timerIn + CallTime)' /\ Room(renewIn + CallTime)'
      BY <2>1, <3>1, <3>4, <3>5 DEF Room
    <3> QED  BY <3>2, <3>6 DEF LoopHasRoom
  <2> QED  BY <1>1, <2>2, <2>3
<1>10. CASE Forgotten(w)
  <2>1. /\ call'[w] = Sent("enroll", call[w].mine) /\ serverLeft = 0
        /\ UNCHANGED <<up, serverLeft, leaseLeft, misses, timerIn, wake, renewIn, napped>>
        /\ \A v \in Workers \ {w} : call'[v] = call[v]
    BY <1>1, <1>10, RenewalCalls DEF Forgotten
  <2>2. CASE w = "app"
    <3>1. call'["loop"] = call["loop"]
      BY <1>1, <2>1, <2>2
    <3> QED  BY <1>2, <1>4, <2>1, <3>1, RoomStays
  <2>3. CASE w = "loop"
    <3>1. call'["loop"].pc = "enroll"
      BY <2>1, <2>3, SentFields
    <3> QED  BY <2>1, <3>1 DEF LoopHasRoom
  <2> QED  BY <1>1, <2>2, <2>3
<1>11. CASE Enrolled(w)
  <2>1. CASE call[w].mine
    BY <1>5, <1>11, <2>1 DEF Enrolled
  <2>2. CASE ~call[w].mine
    <3>1. /\ w = "app" /\ Over(w)
          /\ UNCHANGED <<up, serverLeft, leaseLeft, misses, wake, napped, renewIn>>
      BY <1>1, <1>3, <1>11, <2>2 DEF Enrolled
    <3> QED  BY <1>6, <3>1
  <2> QED  BY <2>1, <2>2
<1>12. CASE EnrollFails(w)
  <2>1. /\ w = "app" /\ Over(w)
        /\ UNCHANGED <<up, serverLeft, leaseLeft, misses, wake, napped, renewIn>>
    BY <1>1, <1>2, <1>3, <1>12 DEF EnrollFails
  <2> QED  BY <1>6, <2>1
<1> QED  BY <1>2, <1>7, <1>8, <1>9, <1>10, <1>11, <1>12 DEF Renewal, Refused

\* Time leaves it its room.
LEMMA RoomTick ==
    ASSUME OutlastInv, Numbers, Numbers', Tick, up', Spared'
    PROVE  LoopHasRoom'
<1>1. /\ UNCHANGED <<ttl, up, wake, misses, napped>>
      /\ serverLeft' = Sooner(serverLeft, 1) /\ leaseLeft' = Sooner(leaseLeft, 1)
      /\ timerIn' = Sooner(timerIn, 1)
  BY DEF Tick, LeasesRunDown
<1>2. up /\ LoopHasRoom /\ Whole
  BY <1>1 DEF OutlastInv, Spared, LongEnough
<1>3. /\ CallTime \in Nat \ {0} /\ leaseLeft \in Nat /\ serverLeft \in Nat /\ timerIn \in Nat
      /\ call["loop"].left \in Nat /\ "loop" \in Workers
  BY Constants DEF Numbers, Workers
<1>4. \A n \in Nat : n > 0 => Sooner(n, 1) = n - 1
  BY DEF Sooner, Greatest
<1>5. Sooner(0, 1) = 0
  BY DEF Sooner, Greatest
<1>6. /\ call'["loop"].pc = call["loop"].pc
      /\ call["loop"].pc # "idle" => call["loop"].left > 0 /\ call'["loop"].left = call["loop"].left - 1
  BY <1>2, <1>3, TickCalls
<1>7. ASSUME NEW t \in Nat, NEW u \in Nat, t > 0, u = t - 1, Room(t)
      PROVE  Room(u)'
  <2>1. CASE leaseLeft = 0
    <3>1. misses # 0 /\ misses # 1
      BY <1>3, <1>7, <2>1 DEF Room
    <3> QED  BY <1>1, <3>1 DEF Room
  <2>2. CASE leaseLeft > 0
    <3>1. leaseLeft' - u = leaseLeft - t
      BY <1>1, <1>3, <1>4, <1>7, <2>2
    <3> QED  BY <1>1, <1>7, <3>1 DEF Room
  <2> QED  BY <1>3, <2>1, <2>2
<1>8. CASE call["loop"].pc = "heartbeat"
  <2>1. Room(call["loop"].left) /\ call["loop"].left > 0 /\ call["loop"].left - 1 \in Nat
    BY <1>2, <1>3, <1>6, <1>8 DEF LoopHasRoom
  <2>2. PICK u \in Nat : u = call["loop"].left - 1
    BY <2>1
  <2>3. Room(u)'
    BY <1>3, <1>7, <2>1, <2>2
  <2>4. Room(call["loop"].left)'
    BY <1>6, <1>8, <2>2, <2>3 DEF Room
  <2> QED  BY <1>6, <1>8, <2>4 DEF LoopHasRoom
<1>9. CASE call["loop"].pc = "enroll"
  <2>1. serverLeft = 0 \/ serverLeft > call["loop"].left
    BY <1>2, <1>9 DEF LoopHasRoom
  <2>2. serverLeft' = 0 \/ serverLeft' > call'["loop"].left
    BY <1>1, <1>3, <1>4, <1>5, <1>6, <1>9, <2>1
  <2> QED  BY <1>6, <1>9, <2>2 DEF LoopHasRoom
<1>10. CASE call["loop"].pc = "idle"
  <2>1. timerIn > 0 /\ ~wake
    BY <1>2, <1>3, <1>10 DEF Tick, Quiet, Whole
  <2>2. Room(timerIn + CallTime) /\ timerIn' = timerIn - 1
    BY <1>1, <1>2, <1>3, <1>4, <1>10, <2>1 DEF LoopHasRoom
  <2>3. PICK t \in Nat : t = timerIn + CallTime
    BY <1>3
  <2>4. PICK u \in Nat : u = timerIn' + CallTime /\ t > 0 /\ u = t - 1
    BY <1>3, <2>1, <2>2, <2>3
  <2>5. Room(u)'
    BY <1>7, <2>2, <2>3, <2>4
  <2>6. Room(timerIn + CallTime)'
    BY <2>4, <2>5 DEF Room
  <2> QED  BY <1>1, <1>6, <1>10, <2>1, <2>6 DEF LoopHasRoom
<1> QED  BY <1>8, <1>9, <1>10 DEF Numbers

\* Once the tunnel is down, nothing is left to renew.
LEMMA DownStays ==
    ASSUME Whole, Whole', DownIsOver, [Next]_vars
    PROVE  DownIsOver'
<1> USE DEF server_vars, renewal_vars, app_vars
<1> SUFFICES ASSUME ~up'
             PROVE  serverLeft' = 0 /\ app' = "away" /\ \A w \in Workers : call'[w] = Idle
  BY DEF DownIsOver
<1>1. CASE TunnelDown
  BY <1>1, RenewalCalls DEF TunnelDown, Workers
<1>2. CASE ~TunnelDown
  <2>1. ~up
    BY <1>2 DEF Next, Tick, LoopWoken, LoopFires, Renewal, ServerGrants, Renewed, Unanswered,
                Forgotten, Refused, Enrolled, EnrollFails, KeepRenewing, AppSleeps, AppReturns,
                AppHasNoBearer, AppRenews, AppGivesUp, Suspend, ServerForgets, vars
  <2>2. serverLeft = 0 /\ app = "away" /\ \A w \in Workers : call[w] = Idle
    BY <2>1 DEF DownIsOver
  <2>3. CASE Tick
    <3>1. \A w \in Workers : call'[w] = Idle
      BY <2>2, <2>3, TickCalls
    <3>2. serverLeft' = Sooner(0, 1) /\ app' = "away"
      BY <2>2, <2>3 DEF Tick, LeasesRunDown
    <3> QED  BY <3>1, <3>2 DEF Sooner, Greatest
  <2>4. CASE \E w \in Workers : Renewal(w)
    <3> PICK w \in Workers : Renewal(w)
      BY <2>4
    <3>1. call[w].pc = "idle"
      BY <2>2 DEF Idle
    <3> QED  BY <3>1 DEF Renewal, ServerGrants, Renewed, Unanswered, Forgotten, Refused, Enrolled,
                         EnrollFails
  <2>5. CASE KeepRenewing
    BY <2>1, <2>2, <2>5 DEF KeepRenewing, AppSleeps, AppReturns, AppHasNoBearer, AppRenews, AppGivesUp
  <2>6. CASE UNCHANGED vars
    BY <2>2, <2>6 DEF vars
  <2> QED  BY <2>1, <2>2, <2>3, <2>4, <2>5, <2>6
           DEF Next, LoopWoken, LoopFires, LoopWaits, Suspend, ServerForgets
<1> QED  BY <1>1, <1>2

\* Every step keeps OutlastInv.
LEMMA OutlastNext ==
    ASSUME OutlastInv, [Next]_vars
    PROVE  OutlastInv'
<1> USE DEF server_vars, renewal_vars, app_vars
<1>1. /\ LeaseInv' /\ FirstInv' /\ Whole /\ Whole' /\ DownIsOver'
      /\ TypeOK /\ TypeOK'
  BY LeaseNext, FirstNext, WholeNext, DownStays DEF OutlastInv, Whole
<1>2. Numbers /\ Numbers'
  BY <1>1, NumbersHold, PTL
<1>3. /\ "loop" \in Workers /\ "app" \in Workers /\ CallTime \in Nat
      /\ call["loop"].left \in Nat
  BY <1>1, CallTypes DEF Workers
<1>4. ASSUME up', Spared'
      PROVE  LoopHasRoom'
  <2>1. ASSUME UNCHANGED <<ttl, up, napped>>
        PROVE  up /\ LongEnough /\ LoopHasRoom
    BY <1>4, <2>1 DEF OutlastInv, Spared, LongEnough
  <2>2. CASE Tick
    BY <1>2, <1>4, <2>2, RoomTick
  <2>3. CASE LoopWoken
    <3>1. /\ UNCHANGED <<ttl, up, leaseLeft, misses, napped, call>>
          /\ wake /\ ~wake' /\ timerIn' = renewIn /\ call["loop"].pc = "idle"
      BY <1>1, <2>3, CallTypes DEF LoopWoken, LoopWaits
    <3>2. Room(renewIn + CallTime)
      BY <2>1, <3>1 DEF LoopHasRoom
    <3>3. Room(timerIn + CallTime)'
      BY <3>1, <3>2 DEF Room
    <3> QED  BY <3>1, <3>3 DEF LoopHasRoom
  <2>4. CASE LoopFires
    <3>1. /\ UNCHANGED <<ttl, up, leaseLeft, misses, napped>>
          /\ timerIn = 0 /\ call["loop"].pc = "idle"
      BY <1>1, <2>4, CallTypes DEF LoopFires, LoopWaits
    <3>2. call'["loop"].pc = "heartbeat" /\ call'["loop"].left = CallTime
      <4>1. call'["loop"] = Sent("heartbeat", TRUE)
        BY <1>1, <1>3, <2>4, CallTypes DEF LoopFires
      <4>2. Sent("heartbeat", TRUE).pc = "heartbeat" /\ Sent("heartbeat", TRUE).left = CallTime
        BY DEF Sent
      <4> QED  BY <4>1, <4>2
    <3>3. PICK t \in Nat : Room(t + CallTime)
      <4>1. timerIn \in Nat /\ renewIn \in Nat
        BY <1>2 DEF Numbers
      <4> QED  BY <2>1, <3>1, <4>1 DEF LoopHasRoom
    <3>4. Room(CallTime)
      <4>1. leaseLeft \in Nat
        BY <1>2 DEF Numbers
      <4> QED  BY <1>3, <3>3, <4>1 DEF Room
    <3>5. Room(call["loop"].left)'
      BY <3>1, <3>2, <3>4 DEF Room
    <3> QED  BY <3>2, <3>5 DEF LoopHasRoom
  <2>5. CASE \E w \in Workers : Renewal(w)
    BY <1>1, <1>2, <1>4, <2>5, RoomRenewal
  <2>6. CASE \E d \in Naps : Suspend(d)
    BY <1>4, <2>6 DEF Suspend, Spared
  <2>7. CASE KeepRenewing \/ ServerForgets \/ UNCHANGED vars
    <3>1. /\ UNCHANGED <<ttl, up, leaseLeft, renewIn, wake, misses, napped, timerIn>>
          /\ serverLeft' \in {0, serverLeft, ttl}
      <4>1. CASE KeepRenewing
        BY <4>1 DEF KeepRenewing, AppSleeps, AppReturns, AppHasNoBearer, AppRenews, AppGivesUp
      <4>2. CASE ServerForgets \/ UNCHANGED vars
        BY <4>2 DEF ServerForgets, vars
      <4> QED  BY <2>7, <4>1, <4>2
    <3>2. call'["loop"] = call["loop"]
      <4>1. CASE AppRenews
        BY <1>1, <1>3, <4>1, CallTypes DEF AppRenews
      <4>2. CASE UNCHANGED call
        BY <4>2
      <4> QED  BY <2>7, <4>1, <4>2
               DEF KeepRenewing, AppSleeps, AppReturns, AppHasNoBearer, AppGivesUp, ServerForgets, vars
    <3> QED  BY <1>2, <2>1, <3>1, <3>2, RoomStays
  <2> QED  BY <2>2, <2>3, <2>4, <2>5, <2>6, <2>7 DEF Next
<1> QED  BY <1>1, <1>4 DEF OutlastInv

\* Whatever the delays, the time-outs and the lease, if it is long enough: the
\* lease does not end at the server because one try of the loop failed.
THEOREM LeaseOutlastsOneFailureCorrect == Spec => LeaseOutlastsOneFailure
<1>1. Init => OutlastInv
  <2> SUFFICES ASSUME Init PROVE OutlastInv  OBVIOUS
  <2>1. LeaseInv /\ FirstInv /\ Whole /\ TypeOK /\ Numbers
    BY LeaseInit, FirstInit, WholeInit, NumbersHold DEF Whole
  <2>2. ASSUME Spared
        PROVE  LoopHasRoom
    <3>1. /\ ttl \in Nat /\ CallTime \in Nat /\ HelperDelay(ttl) \in Nat /\ ttl <= ttl + CallTime
      BY <2>1, DelaysAreBounded, Constants DEF Numbers
    <3>2. /\ 2 * (ttl - (HelperDelay(ttl) + CallTime)) >= 5 * CallTime
          /\ 2 * (ttl - (RetryIn(ttl) + CallTime)) >= 5 * CallTime
      BY <2>2, <3>1, RoomOfLease DEF Spared
    <3>3. /\ leaseLeft = ttl /\ renewIn = HelperDelay(ttl) /\ misses = 0 /\ wake
          /\ call["loop"].pc = "idle"
      BY <2>1, CallTypes DEF Init
    <3> QED  BY <3>2, <3>3 DEF LoopHasRoom, Room
  <2>3. up
    BY DEF Init
  <2> QED  BY <2>1, <2>2, <2>3 DEF OutlastInv, DownIsOver
<1>2. ASSUME OutlastInv, Tick, serverLeft = 1, LongEnough, ~napped
      PROVE  misses > 1
  <2>1. /\ Whole /\ TypeOK /\ Numbers /\ LeaseInv
    BY <1>2, NumbersHold DEF OutlastInv, Whole
  <2>2. up /\ LoopHasRoom
    BY <1>2 DEF OutlastInv, DownIsOver, Spared
  <2>3. /\ CallTime \in Nat \ {0} /\ misses \in Nat /\ leaseLeft \in Nat /\ leaseLeft <= 1
        /\ call["loop"].left \in Nat /\ timerIn \in Nat /\ "loop" \in Workers
    <3>1. leaseLeft <= 1
      BY <1>2, <2>1 DEF LeaseInv, LeaseIsNotOverestimated
    <3> QED  BY <2>1, <3>1, Constants DEF Numbers, Workers
  <2>4. PICK t \in Nat : t > 0 /\ Room(t)
    <3>1. CASE call["loop"].pc = "idle"
      <4>1. timerIn > 0 /\ ~wake
        BY <1>2, <2>1, <2>2, <2>3, <3>1 DEF Tick, Quiet, Whole
      <4>2. Room(timerIn + CallTime)
        BY <2>2, <3>1, <4>1 DEF LoopHasRoom
      <4> QED  BY <2>3, <4>2
    <3>2. CASE call["loop"].pc # "idle"
      <4>1. call["loop"].left > 0
        BY <1>2, <2>1, <2>3, <3>2, TickCalls
      <4>2. call["loop"].pc # "enroll"
        BY <1>2, <2>2, <2>3, <4>1 DEF LoopHasRoom
      <4>3. call["loop"].pc = "heartbeat"
        BY <2>1, <3>2, <4>2 DEF Numbers
      <4> QED  BY <2>2, <2>3, <4>1, <4>3 DEF LoopHasRoom
    <3> QED  BY <3>1, <3>2
  <2>5. misses # 0 /\ misses # 1
    BY <2>3, <2>4 DEF Room
  <2> QED  BY <2>3, <2>5
<1>3. OutlastInv /\ [Next]_vars =>
         [Tick /\ serverLeft = 1 /\ LongEnough /\ ~napped => misses > 1]_vars
  BY <1>2
<1> QED  BY <1>1, <1>3, OutlastNext, PTL DEF Spec, LeaseOutlastsOneFailure
=============================================================================
