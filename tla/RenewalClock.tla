---------------------------- MODULE RenewalClock ----------------------------
(***************************************************************************)
(* When the lease on a live tunnel is renewed (pkg/helper/helper.go,       *)
(* pkg/appcore/appcore.go, pkg/helperclient/helperclient.go): the dates    *)
(* and timers that Helper and AppCore leave out.                           *)
(*                                                                         *)
(* Two goroutines renew one session: the helper's renewLoop, and the       *)
(* app's keepRenewing, whose "renew" the helper carries out in a goroutine *)
(* of its own.  Every date is kept as the time left until it, and Tick     *)
(* lets one unit pass (ten seconds, in the run) -- but not while something *)
(* is due: goroutines that can run do, well within a unit, and a call ends *)
(* at its time-out at the latest.  The clocks of the server and the device *)
(* go alike.                                                               *)
(*                                                                         *)
(* The tunnel is followed until it is taken down.  Left out: a server that *)
(* gives no lease (setLeaseLocked renews it at the longest interval), and  *)
(* a provider that is slow to give the app its bearer.                     *)
(***************************************************************************)
EXTENDS Integers

CONSTANTS
    TTLs,         \* what the server's LEASE_TTL may be
    HelperFloor, HelperCeil,  \* the bounds of the helper's renewDelay
    AppFloor, AppCeil,        \* the bounds of the app's renewDelay
    RetryAfter,   \* s.retryAfter
    CallTime,     \* s.enrollTimeout, of a heartbeat and of an enrollment
    Patience,     \* how long the app waits for an answer to "renew"
    Naps,         \* how long the device may be suspended
    MaxUpsets,    \* bound: how often it is, or the server forgets the peer
    MaxMisses     \* bound: of the loop's tries in a row, how many may fail

ASSUME ClockAssumption ==
    /\ TTLs \subseteq Nat \ {0}
    /\ Naps \subseteq Nat
    /\ {HelperFloor, HelperCeil, AppFloor, AppCeil, RetryAfter, CallTime, Patience}
         \subseteq Nat \ {0}
    /\ AppFloor < HelperFloor /\ HelperFloor < HelperCeil
    /\ AppFloor < AppCeil /\ AppCeil < HelperCeil
    /\ RetryAfter <= HelperCeil
    /\ HelperFloor > 2  \* 30 s, in units of ten seconds or less
    /\ MaxUpsets \in Nat /\ MaxMisses \in Nat

\* When the app, having given up on an answer, asks again, the time of the
\* heartbeat and of the enrollment is over: 45 s and 20 s, and twice 30 s.
ASSUME PatienceAssumption == 2 * CallTime < Patience + AppFloor

VARIABLES
    ttl,          \* the server's LEASE_TTL
    up,           \* the tunnel is up
    serverLeft,   \* external: what the server's lease has left; 0: it has none
    leaseLeft,    \* until sess.lease
    renewIn,      \* until sess.renewBy
    wake,         \* sess.wake holds a token
    timerIn,      \* until the timer fires that renewLoop's select waits for
    call,         \* the call out for the loop's renewal, and for the app's
    app,          \* where keepRenewing is
    appIn,        \* until its timer fires, or its patience with a call ends
    ahead,        \* history: "now", the lease was set at this instant; "slept",
                  \* and the app went to sleep on it then
    misses,       \* history: the loop's tries that failed since the lease was set
    napped,       \* history: the device was suspended since then, or while the
                  \* answer was on its way: it lost more than a call's time
    cutFor,       \* history: for how long, awake, the server has had no lease
    upsets        \* how often the device was suspended or the server forgot

renewal_vars == <<leaseLeft, renewIn, wake, ahead, misses, napped>>
app_vars     == <<app, appIn>>
server_vars  == <<serverLeft, cutFor>>
vars == <<ttl, up, serverLeft, leaseLeft, renewIn, wake, timerIn, call, app,
          appIn, ahead, misses, napped, cutFor, upsets>>

-----------------------------------------------------------------------------
Least(a, b)    == IF a < b THEN a ELSE b
Greatest(a, b) == IF a < b THEN b ELSE a

\* Mutant: the helper's delay has no ceiling.
HelperDelay_NoCeiling(left) == Greatest(left \div 2, HelperFloor)

\* renewDelay of the helper.
HelperDelay(left) == Least(Greatest(left \div 2, HelperFloor), HelperCeil)

\* Mutant: the app's delay has no floor.
AppDelay_NoFloor(left) == Least((left * 2) \div 5, AppCeil)

\* renewDelay of the app.
AppDelay(left) == Least(Greatest((left * 2) \div 5, AppFloor), AppCeil)

\* Mutant: the retry is as late as the lease allows.
RetryIn_AtTheEnd(left) == Least(RetryAfter, Greatest(left, 1))

\* When renew's default case tries again; a second is less than a unit.
RetryIn(left) == Least(RetryAfter, Greatest(left \div 2, 1))

Workers == {"loop", "app"}

\* A call: nothing out, a heartbeat or an enrollment.  left is until its
\* time-out; grant is what is left of the lease the server answered it with, or
\* Unseen when it has not yet; mine says that the session it is about is the
\* live one.
Unseen == -1
Idle   == [pc |-> "idle", left |-> 0, grant |-> Unseen, mine |-> FALSE]
Sent(pc, mine) == [pc |-> pc, left |-> CallTime, grant |-> Unseen, mine |-> mine]

\* Mutant: a lease is as long as it was when the server gave it.
GrantOf_Whole(w) == ttl

\* The answer names the date the lease ends: what is left of it shrinks on
\* the way.
GrantOf(w) == call[w].grant

Call == [pc : {"idle", "heartbeat", "enroll"}, left : 0..CallTime,
         grant : Unseen..ttl, mine : BOOLEAN]

TypeOK ==
    /\ ttl \in TTLs
    /\ up \in BOOLEAN
    /\ serverLeft \in 0..ttl
    /\ leaseLeft \in 0..ttl
    /\ renewIn \in 0..HelperCeil
    /\ wake \in BOOLEAN
    /\ timerIn \in 0..HelperCeil
    /\ call \in [Workers -> Call]
    /\ app \in {"away", "status", "sleep", "calling"}
    /\ appIn \in 0..Greatest(AppCeil, Patience)
    /\ ahead \in {"no", "now", "slept"}
    /\ misses \in 0..MaxMisses
    /\ napped \in BOOLEAN
    /\ cutFor \in Nat
    /\ upsets \in 0..MaxUpsets

\* The app's connect has just brought the tunnel up.
Init ==
    /\ ttl \in TTLs
    /\ up = TRUE
    /\ serverLeft = ttl
    /\ leaseLeft = ttl
    /\ renewIn = HelperDelay(ttl)
    /\ wake = TRUE
    /\ timerIn = renewIn
    /\ call = [w \in Workers |-> Idle]
    /\ app = "status"
    /\ appIn = 0
    /\ ahead = "now"
    /\ misses = 0
    /\ napped = FALSE
    /\ cutFor = 0
    /\ upsets = 0

-----------------------------------------------------------------------------
(* The session, under s.mu.                                                *)

\* Mutant: the loop is not told that the date moved.
SetLease_NoWake(left) ==
    /\ leaseLeft' = left
    /\ renewIn' = HelperDelay(left)
    /\ wake' = wake
    /\ ahead' = "now"
    /\ misses' = 0
    /\ napped' = (left + CallTime < ttl)

\* setLeaseLocked.
SetLease(left) ==
    /\ leaseLeft' = left
    /\ renewIn' = HelperDelay(left)
    /\ wake' = TRUE
    /\ ahead' = "now"
    /\ misses' = 0
    /\ napped' = (left + CallTime < ttl)

\* The default case of renew: the date moves, and the loop is not told.
Retry(w) ==
    /\ renewIn' = RetryIn(leaseLeft)
    /\ misses' = IF w = "loop" THEN misses + 1 ELSE misses
    /\ ahead' = "no"
    /\ UNCHANGED <<leaseLeft, wake, napped>>

\* A loop that goes round reads renewBy and waits for it.
Rearm == timerIn' = renewIn'

\* The app's renew was answered: it asks for the status, unless it gave up
\* on the answer.
AppAnswered ==
    /\ app' = IF app = "calling" THEN "status" ELSE app
    /\ appIn' = IF app = "calling" THEN 0 ELSE appIn

\* w's renewal is over, and the loop goes round or the app is answered.
Over(w) ==
    /\ call' = [call EXCEPT ![w] = Idle]
    /\ IF w = "loop" THEN Rearm /\ UNCHANGED app_vars
                     ELSE AppAnswered /\ UNCHANGED timerIn

\* drop: nothing is left to renew.
TunnelDown ==
    /\ up' = FALSE
    /\ serverLeft' = 0 /\ leaseLeft' = 0 /\ renewIn' = 0 /\ timerIn' = 0
    /\ wake' = FALSE
    /\ call' = [w \in Workers |-> Idle]
    /\ app' = "away" /\ appIn' = 0
    /\ ahead' = "no" /\ misses' = 0 /\ napped' = FALSE /\ cutFor' = 0
    /\ UNCHANGED <<ttl, upsets>>

-----------------------------------------------------------------------------
(* renewLoop.                                                              *)

LoopWaits == up /\ call["loop"] = Idle

\* select takes the token, and the loop reads renewBy again.
LoopWoken ==
    /\ LoopWaits
    /\ wake
    /\ wake' = FALSE
    /\ timerIn' = renewIn
    /\ UNCHANGED <<ttl, up, server_vars, leaseLeft, renewIn, call, app_vars,
                   ahead, misses, napped, upsets>>

\* select takes the timer -- which it may although there is a token.
LoopFires ==
    /\ LoopWaits
    /\ timerIn = 0
    /\ call' = [call EXCEPT !["loop"] = Sent("heartbeat", TRUE)]
    /\ UNCHANGED <<ttl, up, server_vars, renewal_vars, timerIn, app_vars, upsets>>

-----------------------------------------------------------------------------
(* renew and, for a peer the server forgot, enroll.                        *)

\* External: the call reaches the server.  A heartbeat is for a peer it holds.
ServerGrants(w) ==
    /\ \/ call[w].pc = "heartbeat" /\ serverLeft > 0
       \/ call[w].pc = "enroll"
    /\ call[w].grant = Unseen
    /\ serverLeft' = ttl
    /\ cutFor' = 0
    /\ call' = [call EXCEPT ![w].grant = ttl]
    /\ UNCHANGED <<ttl, up, renewal_vars, timerIn, app_vars, upsets>>

\* 200.
Renewed(w) ==
    /\ call[w].pc = "heartbeat"
    /\ call[w].grant # Unseen
    /\ IF call[w].mine THEN SetLease(GrantOf(w)) ELSE UNCHANGED renewal_vars
    /\ Over(w)
    /\ UNCHANGED <<ttl, up, server_vars, upsets>>

\* 401, a 5xx, or nothing -- the server may have renewed all the same.
Unanswered(w) ==
    /\ call[w].pc = "heartbeat"
    /\ w = "loop" => misses < MaxMisses
    /\ IF call[w].mine THEN Retry(w) ELSE UNCHANGED renewal_vars
    /\ Over(w)
    /\ UNCHANGED <<ttl, up, server_vars, upsets>>

\* 404: the peer is enrolled again.
Forgotten(w) ==
    /\ call[w].pc = "heartbeat"
    /\ call[w].grant = Unseen
    /\ serverLeft = 0
    /\ call' = [call EXCEPT ![w] = Sent("enroll", @.mine)]
    /\ UNCHANGED <<ttl, up, server_vars, renewal_vars, timerIn, app_vars, upsets>>

\* 403.
Refused(w) ==
    /\ call[w].pc = "heartbeat"
    /\ call[w].mine
    /\ TunnelDown

\* enroll's lock: a new session and a new loop, unless another came first.
\* What the other worker has out is about the old session.
Enrolled(w) ==
    /\ call[w].pc = "enroll"
    /\ call[w].grant # Unseen
    /\ IF call[w].mine
         THEN /\ SetLease(GrantOf(w))
              /\ Rearm
              /\ call' = [v \in Workers |->
                            IF v \in {w, "loop"} THEN Idle ELSE [call[v] EXCEPT !.mine = FALSE]]
              /\ IF w = "app" THEN AppAnswered ELSE UNCHANGED app_vars
         ELSE /\ UNCHANGED renewal_vars
              /\ Over(w)
    /\ UNCHANGED <<ttl, up, server_vars, upsets>>

\* The re-enrollment fails, and drop takes the tunnel down.
EnrollFails(w) ==
    /\ call[w].pc = "enroll"
    /\ IF call[w].mine
         THEN TunnelDown
         ELSE Over(w) /\ UNCHANGED <<ttl, up, server_vars, renewal_vars, upsets>>

-----------------------------------------------------------------------------
(* keepRenewing.                                                           *)

\* Status, and to sleep until a part of the lease is over.  Status may fail:
\* the loop ends.
AppSleeps ==
    /\ up
    /\ app = "status"
    /\ \/ /\ app' = "sleep"
          /\ appIn' = AppDelay(leaseLeft)
          /\ ahead' = IF ahead = "now" THEN "slept" ELSE "no"
       \/ /\ app' = "away"
          /\ appIn' = 0
          /\ ahead' = IF ahead = "now" THEN "now" ELSE "no"
    /\ UNCHANGED <<ttl, up, server_vars, leaseLeft, renewIn, wake, timerIn, call,
                   misses, napped, upsets>>

\* A Status of the app finds the tunnel up and starts another loop.
AppReturns ==
    /\ up
    /\ app = "away"
    /\ app' = "status"
    /\ UNCHANGED <<ttl, up, server_vars, renewal_vars, timerIn, call, appIn, upsets>>

\* No fresh sign-in: back to the status.
AppHasNoBearer ==
    /\ app = "sleep"
    /\ appIn = 0
    /\ app' = "status"
    /\ UNCHANGED <<ttl, up, server_vars, renewal_vars, timerIn, call, appIn, upsets>>

\* renewNow.  (OneRenewOfTheApp: no other is under way.)
AppRenews ==
    /\ app = "sleep"
    /\ appIn = 0
    /\ call["app"] = Idle
    /\ app' = "calling"
    /\ appIn' = Patience
    /\ call' = [call EXCEPT !["app"] = Sent("heartbeat", TRUE)]
    /\ UNCHANGED <<ttl, up, server_vars, renewal_vars, timerIn, upsets>>

\* The answer is not there in time; the helper goes on with the renewal.
AppGivesUp ==
    /\ app = "calling"
    /\ appIn = 0
    /\ app' = "status"
    /\ UNCHANGED <<ttl, up, server_vars, renewal_vars, timerIn, call, appIn, upsets>>

-----------------------------------------------------------------------------
(* Time, and what happens outside.                                         *)

\* Nothing is due.
Quiet ==
    /\ up /\ call["loop"] = Idle => timerIn > 0 /\ ~wake
    /\ \A w \in Workers : call[w] # Idle => call[w].left > 0
    /\ app # "status"
    /\ app \in {"sleep", "calling"} => appIn > 0

Sooner(n, d) == Greatest(n - d, 0)

\* d less is left of the leases.
LeasesRunDown(d) ==
    /\ serverLeft' = Sooner(serverLeft, d)
    /\ leaseLeft' = Sooner(leaseLeft, d)

Tick ==
    /\ Quiet
    /\ LeasesRunDown(1)
    /\ renewIn' = Sooner(renewIn, 1)
    /\ timerIn' = Sooner(timerIn, 1)
    /\ appIn' = Sooner(appIn, 1)
    /\ call' = [w \in Workers |-> [call[w] EXCEPT !.left = Sooner(@, 1),
                                                  !.grant = IF @ = Unseen THEN @ ELSE Sooner(@, 1)]]
    /\ ahead' = IF ahead = "now" THEN "no" ELSE ahead
    /\ cutFor' = IF up /\ serverLeft = 0 THEN cutFor + 1 ELSE 0
    /\ UNCHANGED <<ttl, up, wake, app, misses, napped, upsets>>

\* External: the device is suspended.  Go's timers wait, and with them renewBy,
\* read off the same monotonic clock; the lease is a date, and runs down.
Suspend(d) ==
    /\ up
    /\ upsets < MaxUpsets
    /\ LeasesRunDown(d)
    /\ call' = [w \in Workers |-> [call[w] EXCEPT !.grant = IF @ = Unseen THEN @ ELSE Sooner(@, d)]]
    /\ napped' = TRUE
    /\ upsets' = upsets + 1
    /\ UNCHANGED <<ttl, up, renewIn, wake, timerIn, app_vars, ahead, misses, cutFor>>

\* External: the server restarts without its leases.
ServerForgets ==
    /\ serverLeft > 0
    /\ upsets < MaxUpsets
    /\ serverLeft' = 0
    /\ upsets' = upsets + 1
    /\ UNCHANGED <<ttl, up, cutFor, renewal_vars, timerIn, call, app_vars>>

Renewal(w) ==
    \/ ServerGrants(w)
    \/ Renewed(w)
    \/ Unanswered(w)
    \/ Forgotten(w)
    \/ Refused(w)
    \/ Enrolled(w)
    \/ EnrollFails(w)

KeepRenewing ==
    \/ AppSleeps
    \/ AppReturns
    \/ AppHasNoBearer
    \/ AppRenews
    \/ AppGivesUp

Next ==
    \/ Tick
    \/ LoopWoken
    \/ LoopFires
    \/ \E w \in Workers : Renewal(w)
    \/ KeepRenewing
    \/ \E d \in Naps : Suspend(d)
    \/ ServerForgets

Spec == Init /\ [][Next]_vars

-----------------------------------------------------------------------------
\* The helper never believes in more lease than the server gives it, whichever
\* of two overlapping answers it hears last and however long they took -- so
\* that what it derives from the lease comes before the lease's end.
LeaseIsNotOverestimated == serverLeft = 0 \/ leaseLeft <= serverLeft

\* "The ceiling is how long a device stays cut off after the server restarts"
\* (helper.go:132) -- with the time of the calls: of an answer on its way when
\* the server restarts, of the heartbeat and of the enrollment, and what
\* each failed try adds.  So too for a device whose lease ran out while it was
\* suspended, from when it is awake.
CutOffIsBounded ==
    cutFor <= HelperCeil + 3 * CallTime + misses * (RetryAfter + CallTime)

\* A lease long enough for a second try: the loop has half of it (the floor is
\* below that), a try that failed takes a call's time, and the next comes at
\* half of what is left then.
LongEnough == ttl >= 8 * CallTime /\ ttl >= 3 * HelperFloor

\* "A renewal that fails has the other half to be retried in" (helper.go:130):
\* one failed try of the loop does not cost the lease, whatever the app's
\* renewals do to renewBy meanwhile.
LeaseOutlastsOneFailure ==
    [][Tick /\ serverLeft = 1 /\ LongEnough /\ ~napped => misses > 1]_vars

\* The app brings its bearer "before the helper would renew on its own"
\* (appcore.go:60): the loop's timer does not fire while the app sleeps on
\* the lease that was set as it went to sleep.
AppRenewsFirst ==
    [][LoopFires /\ ~wake /\ app = "sleep" => ahead # "slept"]_vars

\* The app waits less for an answer than the helper may take (45 s, and twice
\* 30 s), but does not ask again while the helper is still at the first: two
\* renewals of the app never race for one session.
OneRenewOfTheApp == app = "sleep" /\ appIn = 0 => call["app"] = Idle
=============================================================================
