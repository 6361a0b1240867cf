------------------------------ MODULE AppCore -------------------------------
(***************************************************************************)
(* The app's core (pkg/appcore/appcore.go) with the session file it keeps  *)
(* (pkg/tokenstore) and the refresh tokens of a go-authn provider          *)
(* (pkg/auth/goauthn.go).                                                  *)
(*                                                                         *)
(* The goroutines are                                                      *)
(*   - one per call of the person's: Login, SetTenant, Tenants, Connect,   *)
(*     Disconnect or Logout;                                               *)
(*   - those of the window and the tray, which ask Status again and again; *)
(*   - the keepRenewing loops.                                             *)
(* What the code does under c.mu is one step; so is reading, replacing or  *)
(* removing the session file, and what a call to the helper or to the      *)
(* provider does there and answers.  Between the steps of one goroutine    *)
(* every other may move.                                                   *)
(*                                                                         *)
(* Left out: c.connected and c.iface, which nothing reads, c.assigned,     *)
(* which Status reads only for a helper that reports no address, the       *)
(* configuration, the log and the device-code prompt.  The helper is its   *)
(* tunnel, up or down; its own steps are in Helper.                        *)
(***************************************************************************)
EXTENDS Naturals, FiniteSets

CONSTANTS
    Calls,        \* the person's calls, one operation each
    Polls,        \* what asks Status again and again: window, tray
    MaxLoops,     \* bound: how many keepRenewing loops exist at a time
    People,       \* those who sign in on this device
    Tenants,      \* the tenants there are
    TenantsOf,    \* external: the tenants the server offers each person
    KeyRegistry,  \* whether the provider is a KeyRegistrar (go-authn)
    MaxTokens,    \* bound: refresh tokens issued
    None          \* no session; no tenant

Loops   == 1..MaxLoops
Threads == Calls \cup Polls \cup Loops
NoLoop  == 0

ASSUME AppAssumption ==
    /\ MaxLoops \in Nat
    /\ MaxTokens \in Nat
    /\ KeyRegistry \in BOOLEAN
    /\ Calls \cap Polls = {} /\ (Calls \cup Polls) \cap Loops = {}
    /\ None \notin People \cup Tenants
    /\ TenantsOf \in [People -> SUBSET Tenants]

VARIABLES
    stored,     \* the session file: tokenstore's Session, or None
    issued,     \* external: how many refresh tokens the provider issued
    unspent,    \* external: those it still takes
    up,         \* the helper's tunnel is up (hproto.Response.Connected)
    offered,    \* c.tenants
    required,   \* c.tenantRequired
    stopRenew,  \* c.stopRenew, by the loop it ends; NoLoop for nil
    stopped,    \* the loops whose context is cancelled
    thr         \* the goroutines

file_vars == <<stored, issued, unspent>>
core_vars == <<offered, required, stopRenew, stopped>>
vars == <<stored, issued, unspent, up, offered, required, stopRenew, stopped, thr>>

-----------------------------------------------------------------------------
Session == [who : People, refresh : 0..MaxTokens, tenant : Tenants \cup {None}]

ASSUME NoneAssumption == None \notin Session

Ops == {"login", "setTenant", "tenants", "connect", "connectRefused",
        "disconnect", "logout", "status", "renew"}

\* Where a goroutine is: before the step of that name.
PCs == {"idle", "done", "signIn", "forget", "save", "chosen", "load", "register",
        "refresh", "bearer", "offer", "require", "connected", "down", "clear",
        "look", "ask", "show", "wait", "end"}

\* sess is the goroutine's own copy of the session, None while it has none;
\* pick the person signing in, the tenant chosen, or what Status was told.
Thread == [pc : PCs, op : Ops, sess : Session \cup {None},
           pick : People \cup Tenants \cup {None} \cup BOOLEAN]

At(pc, op) == [pc |-> pc, op |-> op, sess |-> None, pick |-> None]

TypeOK ==
    /\ stored \in Session \cup {None}
    /\ issued \in 0..MaxTokens
    /\ unspent \subseteq 1..issued
    /\ up \in BOOLEAN
    /\ offered \subseteq Tenants
    /\ required \in BOOLEAN
    /\ stopRenew \in Loops \cup {NoLoop}
    /\ stopped \subseteq Loops
    /\ thr \in [Threads -> Thread]

Init ==
    /\ stored = None
    /\ issued = 0
    /\ unspent = {}
    /\ up \in BOOLEAN  \* an app restarted under a running tunnel
    /\ offered = {}
    /\ required = FALSE
    /\ stopRenew = NoLoop
    /\ stopped = {}
    /\ thr = [t \in Threads |-> CASE t \in Calls -> At("idle", "login")
                                  [] t \in Polls -> At("look", "status")
                                  [] t \in Loops -> At("done", "renew")]

-----------------------------------------------------------------------------
(* Steps that several operations share.                                    *)

\* t, about to take step from, goes on to step to.
Goes(t, from, to) ==
    /\ thr[t].pc = from
    /\ thr' = [thr EXCEPT ![t].pc = to]

\* Mutant: a Connect refused for want of a tenant goes on trying to list them.
AfterFailure_Retries(op) ==
    CASE op = "renew" -> "ask"
      [] op = "connectRefused" -> "load"
      [] OTHER -> "done"

\* Where a failed session leaves its caller: a loop keeps asking the helper,
\* and a Connect refused for want of a tenant says so even when the tenants
\* cannot be listed.
AfterFailure(op) ==
    CASE op = "renew" -> "ask"
      [] op = "connectRefused" -> "require"
      [] OTHER -> "done"

\* A loop that is cancelled ends before its next sleep.
AfterRenewal(l) == IF l \in stopped THEN "end" ELSE "ask"

\* Mutant: stopRenew is called without the look whether it is nil.
StopLoop_Nil == stopped' = stopped \cup {stopRenew}

\* stopRenew(), if there is one.
StopLoop == stopped' = stopped \cup ({stopRenew} \ {NoLoop})

\* A loop that is not running is set going, and stopRenew set to end it.
StartLoop(l) ==
    /\ thr[l].pc = "done"
    /\ stopRenew' = l

\* The provider takes an unspent token and gives another for it.
Rotate(token) ==
    /\ token \in unspent
    /\ issued < MaxTokens
    /\ issued' = issued + 1
    /\ unspent' = (unspent \ {token}) \cup {issued + 1}

-----------------------------------------------------------------------------
(* The person's calls.                                                     *)

Begin(a, pc, op) ==
    /\ thr[a].pc = "idle"
    /\ thr' = [thr EXCEPT ![a] = At(pc, op)]

Login(a, p) ==
    /\ thr[a].pc = "idle"
    /\ thr' = [thr EXCEPT ![a] = [At("signIn", "login") EXCEPT !.pick = p]]
    /\ UNCHANGED <<file_vars, core_vars, up>>

\* SetTenant, under its lock: a tenant that was offered, or none.
SetTenant(a, n) ==
    /\ thr[a].pc = "idle"
    /\ n \in offered \cup {None}
    /\ thr' = [thr EXCEPT ![a] = [At("load", "setTenant") EXCEPT !.pick = n]]
    /\ UNCHANGED <<file_vars, core_vars, up>>

ListTenants(a) == Begin(a, "load", "tenants") /\ UNCHANGED <<file_vars, core_vars, up>>

Connect(a) == Begin(a, "load", "connect") /\ UNCHANGED <<file_vars, core_vars, up>>

\* Disconnect, and Logout, which begins with one: the loop is stopped first.
Stop(a, op) ==
    /\ op \in {"disconnect", "logout"}
    /\ Begin(a, "down", op)
    /\ StopLoop
    /\ stopRenew' = NoLoop
    /\ UNCHANGED <<file_vars, offered, required, up>>

\* The person completes the provider's sign-in, or it ends without: refused,
\* expired, or given up by the caller.  Or neither, for as long as they like.
SignIn(a) ==
    \/ /\ issued < MaxTokens
       /\ issued' = issued + 1
       /\ unspent' = unspent \cup {issued + 1}
       /\ thr[a].pc = "signIn"
       /\ thr' = [thr EXCEPT ![a].pc = "forget",
                             ![a].sess = [who |-> thr[a].pick, refresh |-> issued + 1,
                                          tenant |-> None]]
       /\ UNCHANGED <<stored, core_vars, up>>
    \/ /\ Goes(a, "signIn", "done")
       /\ UNCHANGED <<file_vars, core_vars, up>>

\* Login and Logout forget the tenants offered.
ForgetTenants(a) ==
    /\ Goes(a, "forget", IF thr[a].op = "login" THEN "save" ELSE "clear")
    /\ offered' = {}
    /\ required' = FALSE
    /\ UNCHANGED <<file_vars, stopRenew, stopped, up>>

\* helper.Down, which fails when the helper is out of reach.
Down(a) ==
    /\ Goes(a, "down", IF thr[a].op = "logout" THEN "forget" ELSE "done")
    /\ up' \in {up, FALSE}
    /\ UNCHANGED <<file_vars, core_vars>>

\* tokenstore.Clear, which may fail.
Clear(a) ==
    /\ Goes(a, "clear", "done")
    /\ stored' \in {None, stored}
    /\ UNCHANGED <<issued, unspent, core_vars, up>>

-----------------------------------------------------------------------------
(* session: load the file, have a bearer from it, save what changed.       *)

Failed(t) == thr' = [thr EXCEPT ![t].pc = AfterFailure(thr[t].op), ![t].sess = None]

\* tokenstore.Load, for session and for SetTenant, which needs no bearer.  With
\* nobody signed in, or a file that cannot be read, the caller fails.
Load(t) ==
    /\ thr[t].pc = "load"
    /\ \/ Failed(t)
       \/ /\ stored # None
          /\ IF thr[t].op = "setTenant"
               THEN thr' = [thr EXCEPT ![t].pc = "save",
                                       ![t].sess = [stored EXCEPT !.tenant = thr[t].pick]]
               ELSE thr' = [thr EXCEPT ![t].pc = IF KeyRegistry THEN "register" ELSE "bearer",
                                       ![t].sess = stored]
    /\ UNCHANGED <<file_vars, core_vars, up>>

\* RegisterKey, when the sign-in token has lapsed: a refresh for the key
\* registry comes first.
RefreshLapsed(t) ==
    /\ thr[t].pc = "register"
    /\ Rotate(thr[t].sess.refresh)
    /\ thr' = [thr EXCEPT ![t].pc = "refresh", ![t].sess.refresh = issued']
    /\ UNCHANGED <<stored, core_vars, up>>

\* Mutant: the token that was refreshed with is kept.
RefreshForServer_KeepsOld(t) ==
    /\ thr[t].pc \in {"register", "refresh"}
    /\ Rotate(thr[t].sess.refresh)
    /\ thr' = [thr EXCEPT ![t].pc = "save"]
    /\ UNCHANGED <<stored, core_vars, up>>

\* RegisterKey: the key is registered, and a refresh gives the bearer for the
\* server and the refresh token to keep.
RefreshForServer(t) ==
    /\ thr[t].pc \in {"register", "refresh"}
    /\ Rotate(thr[t].sess.refresh)
    /\ thr' = [thr EXCEPT ![t].pc = "save", ![t].sess.refresh = issued']
    /\ UNCHANGED <<stored, core_vars, up>>

\* The provider is out of reach, or refuses the key or the token; or it gave
\* another token for it, and the answer is lost.  What was loaded, refreshed
\* or not, is forgotten.
RegisterFails(t) ==
    /\ thr[t].pc \in {"register", "refresh"}
    /\ Failed(t)
    /\ \/ UNCHANGED <<issued, unspent>>
       \/ Rotate(thr[t].sess.refresh)
    /\ UNCHANGED <<stored, core_vars, up>>

AfterSave(op) ==
    CASE op = "login" -> "done"
      [] op = "setTenant" -> "chosen"
      [] OTHER -> "bearer"

\* tokenstore.Save: the copy replaces whatever the file holds by now.
Save(t) ==
    /\ Goes(t, "save", AfterSave(thr[t].op))
    /\ stored' = thr[t].sess
    /\ UNCHANGED <<issued, unspent, core_vars, up>>

\* The file cannot be written, and the caller fails with it.
SaveFails(t) ==
    /\ thr[t].pc = "save"
    /\ Failed(t)
    /\ UNCHANGED <<file_vars, core_vars, up>>

\* The end of SetTenant.
Chosen(a) ==
    /\ Goes(a, "chosen", "done")
    /\ required' = FALSE
    /\ UNCHANGED <<file_vars, offered, stopRenew, stopped, up>>

-----------------------------------------------------------------------------
(* Tenants, and Connect.                                                   *)

\* helper.Tenants, asked by Tenants or by a Connect that was refused.
AskTenants(t) ==
    /\ thr[t].op \in {"tenants", "connectRefused"}
    /\ \/ Goes(t, "bearer", "offer")
       \/ thr[t].pc = "bearer" /\ Failed(t)
    /\ UNCHANGED <<file_vars, core_vars, up>>

Offer(t) ==
    /\ Goes(t, "offer", IF thr[t].op = "tenants" THEN "done" ELSE "require")
    /\ offered' = TenantsOf[thr[t].sess.who]
    /\ UNCHANGED <<file_vars, required, stopRenew, stopped, up>>

\* Connect gives up with ErrTenantRequired.
Require(t) ==
    /\ Goes(t, "require", "done")
    /\ required' = TRUE
    /\ UNCHANGED <<file_vars, offered, stopRenew, stopped, up>>

HelperConnects(a) ==
    /\ thr[a].op = "connect"
    /\ Goes(a, "bearer", "connected")
    /\ up' = TRUE
    /\ UNCHANGED <<file_vars, core_vars>>

\* "tenant_required": the person is in several and chose none.
TenantRequired(a) ==
    /\ thr[a].pc = "bearer"
    /\ thr[a].op = "connect"
    /\ thr[a].sess.tenant = None
    /\ thr' = [thr EXCEPT ![a] = At("load", "connectRefused")]
    /\ UNCHANGED <<file_vars, core_vars, up>>

\* The helper failed, by when it may have taken the old tunnel down, or
\* brought the new one up and its answer was lost.
HelperFails(a) ==
    /\ thr[a].op = "connect"
    /\ Goes(a, "bearer", "done")
    /\ up' \in BOOLEAN
    /\ UNCHANGED <<file_vars, core_vars>>

\* The end of Connect: its own loop takes the place of the one there is.
Connected(a, l) ==
    /\ thr[a].pc = "connected"
    /\ StartLoop(l)
    /\ stopped' = (stopped \cup ({stopRenew} \ {NoLoop})) \ {l}
    /\ required' = FALSE
    /\ thr' = [thr EXCEPT ![a].pc = "done", ![l] = At("ask", "renew")]
    /\ UNCHANGED <<file_vars, offered, up>>

-----------------------------------------------------------------------------
(* Status: the file, then the helper, then the lock.                       *)

\* Whether somebody is signed in.
Look(s) ==
    /\ thr[s].pc = "look"
    /\ thr' = [thr EXCEPT ![s].pc = "ask", ![s].pick = (stored # None)]
    /\ UNCHANGED <<file_vars, core_vars, up>>

\* Whether the tunnel is up; a helper out of reach says nothing.
AskHelper(s) ==
    /\ s \in Polls
    /\ thr[s].pc = "ask"
    /\ thr' = [thr EXCEPT ![s].pc = "show", ![s].pick = (@ /\ up)]
    /\ UNCHANGED <<file_vars, core_vars, up>>

HelperAway(s) ==
    /\ s \in Polls
    /\ thr[s].pc = "ask"
    /\ thr' = [thr EXCEPT ![s].pc = "show", ![s].pick = FALSE]
    /\ UNCHANGED <<file_vars, core_vars, up>>

\* A tunnel this Core did not bring up gets a loop too.
Adopts(s) == thr[s].pick /\ stopRenew = NoLoop

Adopt(s, l) ==
    /\ thr[s].pc = "show"
    /\ Adopts(s)
    /\ StartLoop(l)
    /\ stopped' = stopped \ {l}
    /\ thr' = [thr EXCEPT ![s] = At("look", "status"), ![l] = At("ask", "renew")]
    /\ UNCHANGED <<file_vars, offered, required, up>>

Show(s) ==
    /\ thr[s].pc = "show"
    /\ ~Adopts(s)
    /\ thr' = [thr EXCEPT ![s] = At("look", "status")]
    /\ UNCHANGED <<file_vars, core_vars, up>>

-----------------------------------------------------------------------------
(* keepRenewing.                                                           *)

\* Mutant: the sleep is not ended by the context.
SeesUp_Unstopped(l) ==
    /\ up
    /\ l \in Loops
    /\ Goes(l, "ask", "wait")
    /\ UNCHANGED <<file_vars, core_vars, up>>

\* The helper's status: up, and the loop sleeps until the lease wants
\* renewing, unless it was stopped.
SeesUp(l) ==
    /\ up
    /\ l \in Loops
    /\ Goes(l, "ask", IF l \in stopped THEN "end" ELSE "wait")
    /\ UNCHANGED <<file_vars, core_vars, up>>

\* Mutant: the loop waits for a tunnel that is down to come up.
SeesDown_Waits(l) ==
    /\ l \in Loops
    /\ Goes(l, "ask", "wait")
    /\ UNCHANGED <<file_vars, core_vars, up>>

\* Down, or the helper is out of reach.
SeesDown(l) ==
    /\ l \in Loops
    /\ Goes(l, "ask", "end")
    /\ UNCHANGED <<file_vars, core_vars, up>>

Wake(l) == Goes(l, "wait", "load") /\ UNCHANGED <<file_vars, core_vars, up>>

Stopped(l) ==
    /\ l \in stopped
    /\ Goes(l, "wait", "end")
    /\ UNCHANGED <<file_vars, core_vars, up>>

\* helper.Renew, which answers or fails, and may take the tunnel down.
Renew(l) ==
    /\ thr[l].op = "renew"
    /\ Goes(l, "bearer", AfterRenewal(l))
    /\ up' \in {up, FALSE}
    /\ UNCHANGED <<file_vars, core_vars>>

\* Mutant: a loop that ends clears stopRenew whosever it is.
End_Clears(l) ==
    /\ thr[l].pc = "end"
    /\ stopRenew' = NoLoop
    /\ thr' = [thr EXCEPT ![l] = At("done", "renew")]
    /\ UNCHANGED <<file_vars, offered, required, stopped, up>>

\* Mutant: a loop that ends on its own leaves stopRenew set.
End_Leaves(l) ==
    /\ thr[l].pc = "end"
    /\ thr' = [thr EXCEPT ![l] = At("done", "renew")]
    /\ UNCHANGED <<file_vars, core_vars, up>>

\* The deferred function of a loop that ends.
End(l) ==
    /\ thr[l].pc = "end"
    /\ stopRenew' = IF l \in stopped THEN stopRenew ELSE NoLoop
    /\ thr' = [thr EXCEPT ![l] = At("done", "renew")]
    /\ UNCHANGED <<file_vars, offered, required, stopped, up>>

-----------------------------------------------------------------------------
\* External: the helper takes the tunnel down, or its process ends.
TunnelGoesDown ==
    /\ up
    /\ up' = FALSE
    /\ UNCHANGED <<file_vars, core_vars, thr>>

Call(a) ==
    \/ \E p \in People : Login(a, p)
    \/ \E n \in Tenants \cup {None} : SetTenant(a, n)
    \/ ListTenants(a)
    \/ Connect(a)
    \/ \E op \in {"disconnect", "logout"} : Stop(a, op)

SessionStep(t) ==
    \/ Load(t)
    \/ RefreshLapsed(t)
    \/ RefreshForServer(t)
    \/ RegisterFails(t)
    \/ Save(t)
    \/ SaveFails(t)

\* A call goes on; a Login that waits for the person does so by SignIn.
CallStep(a) ==
    \/ ForgetTenants(a)
    \/ Down(a)
    \/ Clear(a)
    \/ Chosen(a)
    \/ AskTenants(a)
    \/ Offer(a)
    \/ Require(a)
    \/ HelperConnects(a)
    \/ TenantRequired(a)
    \/ HelperFails(a)
    \/ \E l \in Loops : Connected(a, l)
    \/ SessionStep(a)

PollStep(s) == Look(s) \/ AskHelper(s) \/ HelperAway(s) \/ Show(s) \/ \E l \in Loops : Adopt(s, l)

LoopStep(l) == SeesUp(l) \/ SeesDown(l) \/ Wake(l) \/ Stopped(l) \/ Renew(l) \/ End(l) \/ SessionStep(l)

Next ==
    \/ \E a \in Calls : Call(a) \/ SignIn(a) \/ CallStep(a)
    \/ \E s \in Polls : PollStep(s)
    \/ \E l \in Loops : LoopStep(l)
    \/ TunnelGoesDown

Spec == Init /\ [][Next]_vars

-----------------------------------------------------------------------------
(* Safety.                                                                 *)

\* stopRenew ends the one loop that goes on: a loop that runs and is not
\* stopped is the one stopRenew holds, and stopRenew holds no other -- not one
\* that ended, which would keep Status from starting another.
OneLoopIsHeld ==
    /\ \A l \in Loops : thr[l].pc # "done" /\ l \notin stopped => stopRenew = l
    /\ stopRenew # NoLoop => thr[stopRenew].pc # "done" /\ stopRenew \notin stopped

\* What a sign-in or a key registration saves can be refreshed again, whoever
\* else is refreshing: the file never takes a token from them that is spent.
SavedTokensAreUnspent ==
    [][\A t \in Threads :
         Save(t) /\ thr[t].op # "setTenant" /\ KeyRegistry => stored'.refresh \in unspent]_vars

-----------------------------------------------------------------------------
(* What comments and docs say, and the code does not do.                   *)

\* appcore.go:457: "Logout disconnects and clears the local session".  Once it
\* is cleared, only a sign-in should bring a session back.
LoggedOutStaysSignedOut ==
    [][stored = None /\ stored' # None
         => \E a \in Calls : thr[a].op = "login" /\ Save(a)]_vars

\* appcore.go:494-496: "the session's refresh token is then replaced, since
\* the provider rotates them".  No registration that fails should forget a
\* token it was given, while the file keeps another.
RotatedTokensAreKept ==
    [][\A t \in Threads :
         RegisterFails(t) /\ thr[t].sess.refresh \in unspent
         => stored # None /\ stored.refresh = thr[t].sess.refresh]_vars

-----------------------------------------------------------------------------
(* Liveness.  Go runs every goroutine that can run, every call of the      *)
(* helper and of the provider has an end, and the window and the tray keep *)
(* asking.  The person need not do anything, not even finish a sign-in:    *)
(* SignIn is not fair; oidc.Login waits with no time-out (oidc.go:121).    *)

GoroutinesRun ==
    /\ \A a \in Calls : WF_vars(CallStep(a))
    /\ \A s \in Polls : WF_vars(PollStep(s))
    /\ \A l \in Loops : WF_vars(LoopStep(l))

\* The helper does not stay out of the reach of Status for ever.
HelperAnswers == \A s \in Polls : SF_vars(AskHelper(s))

FairSpec == Spec /\ GoroutinesRun /\ HelperAnswers

\* Every call of the person's returns, but for a Login that waits for the person
\* or for its caller to cancel it; once the sign-in is over, it returns as well.
CallsReturn == \A a \in Calls : thr[a].pc \notin {"idle", "signIn"} ~> thr[a].pc = "done"

\* A loop that was stopped ends: Connect after Connect, no two keep running.
StoppedLoopsEnd == \A l \in Loops : l \in stopped ~> thr[l].pc = "done"

\* A tunnel that is up for somebody signed in gets a loop that brings it
\* fresh bearers, also when the app was restarted under it or its loop ended
\* on an error.
UpIsRenewed ==
    (up /\ stored # None)
      ~> \/ \E l \in Loops : thr[l].pc # "done" /\ l \notin stopped
         \/ ~up
         \/ stored = None

\* When the tunnel goes down for good the loops end, and the next tunnel
\* finds stopRenew free.
LoopsEndWithTheTunnel ==
    <>[]~up => <>[](stopRenew = NoLoop /\ \A l \in Loops : thr[l].pc = "done")
=============================================================================
