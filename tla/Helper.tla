------------------------------- MODULE Helper -------------------------------
(***************************************************************************)
(* The privileged helper (pkg/helper/helper.go): the process that enrolls  *)
(* with the server, owns the tunnel and keeps the server's lease on it.    *)
(*                                                                         *)
(* The goroutines are                                                      *)
(*   - one per connection of the app (Serve, handle): it carries a single  *)
(*     request -- connect, renew or down -- and ends;                      *)
(*   - one renewal loop per session (renewLoop);                           *)
(*   - one detached deregistration per enrollment replaced by another      *)
(*     (the "go s.deregister(old)" of enroll).                             *)
(* What the code does under s.mu is one step.  An HTTP call is sent by one *)
(* step, and ends in another, which is also when the server acts on it:    *)
(* between the two every other goroutine may move.  A call that times out  *)
(* reached the server or did not, and its effect is never seen later.      *)
(*                                                                         *)
(* Time is left out: a loop's timer may fire whenever the loop waits       *)
(* (renewBy, wake and the lease's date are the business of RenewalClock).  *)
(* So are the tenant and the device name, which enroll copies along.       *)
(***************************************************************************)
EXTENDS Naturals, FiniteSets

CONSTANTS
    Conns,      \* the app's connections, one request each
    Servers,    \* the servers of the helper's configuration (Config.Servers)
    Keys,       \* device keys, one per signed-in device
    Bearers,    \* credentials the app may bring
    None,       \* the zero value of a specOf's fields
    MaxGen,     \* bound: no session is stamped beyond it
    MaxLosses   \* bound: how often the server forgets a peer by itself

ASSUME ConstantsAssumption ==
    /\ MaxGen \in Nat
    /\ MaxLosses \in Nat
    /\ Conns \cap (1..MaxGen) = {}
    /\ None \notin Servers \cup Keys \cup Bearers
    /\ None \notin Servers \X Keys

VARIABLES
    peers,      \* external: the server and key pairs the servers hold a lease on
    losses,     \* how often the server forgot one by itself
    stranded,   \* history: the leases a failure left on a server
    gen,        \* s.gen, the number of sessions begun and ended
    sess,       \* s.sess, by its stamp; 0 for nil
    lastErr,    \* s.lastErr, by what wrote it
    specOf,     \* what each session was made from (session.server, .spec, .pub)
    tunnels,    \* the sessions whose tunnel is up (session.tun)
    cancelled,  \* the sessions whose context is cancelled (session.cancel)
    givebacks,  \* the replaced sessions whose deregistration is under way
    thr         \* the goroutines

server_vars  == <<peers, losses, stranded>>
session_vars == <<gen, sess, specOf, tunnels, cancelled>>
vars == <<peers, losses, stranded, gen, sess, lastErr, specOf, tunnels,
          cancelled, givebacks, thr>>

-----------------------------------------------------------------------------
Gens    == 1..MaxGen
NoSess  == 0
Threads == Conns \cup Gens

ConnectSpec   == [server : Servers, key : Keys, bearer : Bearers]
NoSpec  == [server |-> None, key |-> None, bearer |-> None]
Peer(s) == <<s.server, s.key>>

Errors == {"none", "up failed", "renewal failed", "refused", "re-enrollment failed"}

\* Where a goroutine is.  "new": not started.  "wait": renewLoop's select.
\* "heartbeat": the call is out; "renewed", "forgotten", "refused" and
\* "unanswered" are the cases of renew's switch, before their lock.
\* "enroll": the call is out; "install": before enroll's lock.  "failed": a
\* re-enrollment failed, before drop.  "giveback": deregister is out.
PCs == {"new", "wait", "heartbeat", "renewed", "forgotten", "refused",
        "unanswered", "enroll", "install", "failed", "giveback", "done"}

\* of is the session a renewal is about, which is also the gen that enroll is
\* called with; 0 in a connect.  spec is the enrollment being made or given
\* back.
Thread == [pc : PCs, of : 0..MaxGen, spec : ConnectSpec \cup {NoSpec}]

Fresh    == [pc |-> "new",  of |-> NoSess, spec |-> NoSpec]
Finished == [pc |-> "done", of |-> NoSess, spec |-> NoSpec]
Waiting(g) == [pc |-> "wait", of |-> g, spec |-> NoSpec]

\* Mutant: the loop ends with the renewal, as after a refusal.
GoesOn_Never(t) == Finished

\* Mutant: the app's renewal goes into a loop too, and is never answered.
GoesOn_Always(t) == Waiting(thr[t].of)

\* A renewal that goes on: the loop waits for the next, the connection is
\* answered.
GoesOn(t) == IF t \in Gens THEN Waiting(t) ELSE Finished

Live == sess # NoSess

TypeOK ==
    /\ peers \subseteq Servers \X Keys
    /\ losses \in 0..MaxLosses
    /\ stranded \subseteq Servers \X Keys
    /\ gen \in Nat
    /\ sess \in 0..MaxGen
    /\ lastErr \in Errors
    /\ specOf \in [Gens -> ConnectSpec \cup {NoSpec}]
    /\ tunnels \subseteq Gens
    /\ cancelled \subseteq Gens
    /\ givebacks \subseteq Gens
    /\ thr \in [Threads -> Thread]

Init ==
    /\ peers = {}
    /\ losses = 0
    /\ stranded = {}
    /\ gen = 0
    /\ sess = NoSess
    /\ lastErr = "none"
    /\ specOf = [g \in Gens |-> NoSpec]
    /\ tunnels = {}
    /\ cancelled = {}
    /\ givebacks = {}
    /\ thr = [t \in Threads |-> Fresh]

-----------------------------------------------------------------------------
(* The parts of the critical sections that several of them share.          *)

\* s.gen once stopLocked has run.
GenStopped == IF Live THEN gen + 1 ELSE gen

\* Mutant: stopLocked does not cancel the session's context.
StopLocked_Uncancelled ==
    /\ sess' = NoSess
    /\ gen' = GenStopped
    /\ tunnels' = tunnels \ {sess}
    /\ UNCHANGED <<specOf, cancelled>>

\* stopLocked: the live session's context is cancelled and its tunnel closed.
StopLocked ==
    /\ sess' = NoSess
    /\ gen' = GenStopped
    /\ tunnels' = tunnels \ {sess}
    /\ cancelled' = IF Live THEN cancelled \cup {sess} ELSE cancelled
    /\ UNCHANGED specOf

\* Mutant: drop does not look whose tunnel it takes down.
Drop_Any(of, why) ==
    /\ StopLocked
    /\ lastErr' = why
    /\ UNCHANGED stranded

\* drop(of, why): takes the tunnel down if of is still the live session.  It
\* gives nothing back, "because the server no longer carries it": a lease the
\* server took up again meanwhile is left there.
Drop(of, why) ==
    IF sess = of
      THEN /\ StopLocked
           /\ lastErr' = why
           /\ stranded' = stranded \cup (peers \cap {Peer(specOf[sess])})
      ELSE UNCHANGED <<session_vars, lastErr, stranded>>

\* Mutant: a re-enrollment always takes over.
Superseded_Never(t) == FALSE

\* Mutant: a re-enrollment gives way to a disconnect, not to a connect.
Superseded_ByDownOnly(t) == thr[t].of # 0 /\ ~Live

\* Whether a re-enrollment finds that its session is not the live one.
Superseded(t) == thr[t].of # 0 /\ gen # thr[t].of

\* Mutant: only the server is compared.
IsLivePeer_SameServer(p) == Live /\ specOf[sess].server = p[1]

\* The live session is this enrollment: the same key at the same server.
IsLivePeer(p) == Live /\ Peer(specOf[sess]) = p

-----------------------------------------------------------------------------
(* enroll: a connect, or a re-enrollment by a renewal.                     *)

\* handle(connect), up to the call to the server.  A request allowed()
\* refuses, or whose key does not parse, changes nothing.
Connect(c, s) ==
    /\ thr[c] = Fresh
    /\ thr' = [thr EXCEPT ![c] = [pc |-> "enroll", of |-> 0, spec |-> s]]
    /\ UNCHANGED <<server_vars, session_vars, lastErr, givebacks>>

\* The server enrolls the key, and its answer arrives.
EnrollAnswered(t) ==
    /\ thr[t].pc = "enroll"
    /\ peers' = peers \cup {Peer(thr[t].spec)}
    /\ stranded' = stranded \ {Peer(thr[t].spec)}
    /\ thr' = [thr EXCEPT ![t].pc = "install"]
    /\ UNCHANGED <<losses, session_vars, lastErr, givebacks>>

\* The server refuses or is not reached; or it enrolls the key, and the
\* answer is lost or makes no tunnel configuration.
EnrollFails(t) ==
    /\ thr[t].pc = "enroll"
    /\ \/ UNCHANGED <<peers, stranded>>
       \/ /\ peers' = peers \cup {Peer(thr[t].spec)}
          /\ stranded' = stranded \cup {Peer(thr[t].spec)}
    /\ thr' = [thr EXCEPT ![t] = IF @.of = 0 THEN Finished ELSE [@ EXCEPT !.pc = "failed"]]
    /\ UNCHANGED <<losses, session_vars, lastErr, givebacks>>

\* enroll's lock, superseded: what was enrolled is given back, unless it is
\* the live session's.
GiveWay(t) ==
    /\ thr[t].pc = "install"
    /\ Superseded(t)
    /\ thr' = [thr EXCEPT ![t] = IF IsLivePeer(Peer(@.spec))
                                   THEN Finished
                                   ELSE [@ EXCEPT !.pc = "giveback"]]
    /\ UNCHANGED <<server_vars, session_vars, lastErr, givebacks>>

\* Mutant: enroll's nil check of the old session is missing.
Replaced_Nil(p) == IF ~IsLivePeer(p) THEN givebacks \cup {sess} ELSE givebacks

\* The deregistration of the session that enroll replaces.
Replaced(p) == IF Live /\ ~IsLivePeer(p) THEN givebacks \cup {sess} ELSE givebacks

\* enroll's lock: the old tunnel goes down, the new one comes up, and the new
\* session's renewal loop starts.
Install(t) ==
    LET g == GenStopped + 1 IN
    /\ thr[t].pc = "install"
    /\ ~Superseded(t)
    /\ g <= MaxGen
    /\ givebacks' = Replaced(Peer(thr[t].spec))
    /\ gen' = g
    /\ sess' = g
    /\ specOf' = [specOf EXCEPT ![g] = thr[t].spec]
    /\ tunnels' = (tunnels \ {sess}) \cup {g}
    /\ cancelled' = IF Live THEN cancelled \cup {sess} ELSE cancelled
    /\ lastErr' = "none"
    /\ thr' = [thr EXCEPT ![t] = Finished, ![g] = Waiting(g)]
    /\ UNCHANGED server_vars

\* enroll's lock, when the tunnel does not come up: the old one is down by
\* then, and the enrollment just made is not given back.
UpFails(t) ==
    /\ thr[t].pc = "install"
    /\ ~Superseded(t)
    /\ givebacks' = Replaced(Peer(thr[t].spec))
    /\ StopLocked
    /\ lastErr' = "up failed"
    /\ stranded' = stranded \cup (peers \cap {Peer(thr[t].spec)})
    /\ thr' = [thr EXCEPT ![t] = Finished]
    /\ UNCHANGED <<peers, losses>>

-----------------------------------------------------------------------------
(* deregister, in a goroutine of its own or as the end of down and enroll. *)

\* The server gives p's address back, or cannot be told.
Deregister(p) ==
    \/ /\ peers' = peers \ {p}
       /\ stranded' = stranded \ {p}
    \/ /\ stranded' = stranded \cup (peers \cap {p})
       /\ UNCHANGED peers

GiveBack(t) ==
    /\ thr[t].pc = "giveback"
    /\ Deregister(Peer(thr[t].spec))
    /\ thr' = [thr EXCEPT ![t] = Finished]
    /\ UNCHANGED <<losses, session_vars, lastErr, givebacks>>

GiveReplacedBack(g) ==
    /\ g \in givebacks
    /\ Deregister(Peer(specOf[g]))
    /\ givebacks' = givebacks \ {g}
    /\ UNCHANGED <<losses, session_vars, lastErr, thr>>

-----------------------------------------------------------------------------
(* renew: by the session's loop when its timer fires, or for the app.      *)

\* renewLoop's timer fires, and the heartbeat is sent.
TimerFires(g) ==
    /\ thr[g].pc = "wait"
    /\ thr' = [thr EXCEPT ![g].pc = "heartbeat"]
    /\ UNCHANGED <<server_vars, session_vars, lastErr, givebacks>>

\* renewNow: the live session takes the fresh bearer and is renewed with it.
\* With no live session it answers "not connected" and changes nothing.
RenewNow(c, b) ==
    /\ thr[c] = Fresh
    /\ Live
    /\ specOf' = [specOf EXCEPT ![sess].bearer = b]
    /\ thr' = [thr EXCEPT ![c] = [pc |-> "heartbeat", of |-> sess, spec |-> NoSpec]]
    /\ UNCHANGED <<server_vars, gen, sess, tunnels, cancelled, lastErr, givebacks>>

\* Mutant: the heartbeat is not made with the loop's context, nor its end seen.
Cancelled_Unseen(t) == FALSE

\* A loop whose session ended returns: from its select, or because the call
\* was made with its context.  A renewal asked by the app has no such context.
Cancelled(t) == t \in Gens /\ t \in cancelled

LoopEnds(g) ==
    /\ thr[g].pc \in {"wait", "heartbeat"}
    /\ Cancelled(g)
    /\ thr' = [thr EXCEPT ![g] = Finished]
    /\ UNCHANGED <<server_vars, session_vars, lastErr, givebacks>>

\* A renewal that reached its switch, with this answer.
Answer(t, pc) ==
    /\ thr[t].pc = "heartbeat"
    /\ ~Cancelled(t)
    /\ thr' = [thr EXCEPT ![t].pc = pc]
    /\ UNCHANGED <<session_vars, lastErr, givebacks>>

\* Mutant: a 404 is retried like any other error.
HeartbeatTaken_RetriesUnknown(t) ==
    /\ thr[t].pc = "heartbeat"
    /\ Answer(t, IF Peer(specOf[thr[t].of]) \in peers THEN "renewed" ELSE "unanswered")
    /\ UNCHANGED server_vars

\* The server renews the peers it holds, and knows no other.
HeartbeatTaken(t) ==
    /\ thr[t].pc = "heartbeat"
    /\ Answer(t, IF Peer(specOf[thr[t].of]) \in peers THEN "renewed" ELSE "forgotten")
    /\ UNCHANGED server_vars

\* 403: access is withdrawn, and the server no longer carries the peer.
HeartbeatRefused(t) ==
    /\ thr[t].pc = "heartbeat"
    /\ Answer(t, "refused")
    /\ peers' = peers \ {Peer(specOf[thr[t].of])}
    /\ stranded' = stranded \ {Peer(specOf[thr[t].of])}
    /\ UNCHANGED losses

\* A 401, a 5xx, or nothing.
HeartbeatUnanswered(t) ==
    /\ Answer(t, "unanswered")
    /\ UNCHANGED server_vars

\* Mutant: an old session's renewal clears lastErr too.
Renewed_Clears(t) ==
    /\ thr[t].pc = "renewed"
    /\ lastErr' = "none"
    /\ thr' = [thr EXCEPT ![t] = GoesOn(t)]
    /\ UNCHANGED <<server_vars, session_vars, givebacks>>

\* 200: lastErr is cleared, if the session is still the live one.
Renewed(t) ==
    /\ thr[t].pc = "renewed"
    /\ lastErr' = IF sess = thr[t].of THEN "none" ELSE lastErr
    /\ thr' = [thr EXCEPT ![t] = GoesOn(t)]
    /\ UNCHANGED <<server_vars, session_vars, givebacks>>

\* 404: the session's spec is copied, and enrolled with.
Reenroll(t) ==
    /\ thr[t].pc = "forgotten"
    /\ thr' = [thr EXCEPT ![t].pc = "enroll", ![t].spec = specOf[thr[t].of]]
    /\ UNCHANGED <<server_vars, session_vars, lastErr, givebacks>>

Refused(t) ==
    /\ thr[t].pc = "refused"
    /\ Drop(thr[t].of, "refused")
    /\ thr' = [thr EXCEPT ![t] = Finished]
    /\ UNCHANGED <<peers, losses, givebacks>>

\* The enrollment in place of a forgotten one failed.
ReenrollFailed(t) ==
    /\ thr[t].pc = "failed"
    /\ Drop(thr[t].of, "re-enrollment failed")
    /\ thr' = [thr EXCEPT ![t] = Finished]
    /\ UNCHANGED <<peers, losses, givebacks>>

\* Neither renewed nor refused: said in lastErr, and tried again later.
RetryLater(t) ==
    /\ thr[t].pc = "unanswered"
    /\ lastErr' = "renewal failed"
    /\ thr' = [thr EXCEPT ![t] = GoesOn(t)]
    /\ UNCHANGED <<server_vars, session_vars, givebacks>>

-----------------------------------------------------------------------------
(* down, Shutdown, and the end of the process.                             *)

Down(c) ==
    /\ thr[c] = Fresh
    /\ StopLocked
    /\ lastErr' = "none"
    /\ thr' = [thr EXCEPT ![c] =
                 IF Live THEN [pc |-> "giveback", of |-> 0, spec |-> specOf[sess]]
                         ELSE Finished]
    /\ UNCHANGED <<server_vars, givebacks>>

\* A helper that is stopping: down, but the lease is left on the server.
Shutdown ==
    /\ Live
    /\ StopLocked
    /\ stranded' = stranded \cup (peers \cap {Peer(specOf[sess])})
    /\ UNCHANGED <<peers, losses, lastErr, givebacks, thr>>

\* The process ends -- after Shutdown, or killed -- and another is started.
\* Its tunnel, goroutines and connections end with it; the leases do not.
Restart ==
    /\ gen' = 0
    /\ sess' = NoSess
    /\ lastErr' = "none"
    /\ specOf' = [g \in Gens |-> NoSpec]
    /\ tunnels' = {}
    /\ cancelled' = {}
    /\ givebacks' = {}
    /\ stranded' = peers
    /\ thr' = [t \in Threads |-> IF t \in Conns /\ thr[t] # Fresh THEN Finished ELSE Fresh]
    /\ UNCHANGED <<peers, losses>>

\* External: the lease ran out, or the server restarted without it.
ServerForgets(p) ==
    /\ p \in peers
    /\ losses < MaxLosses
    /\ losses' = losses + 1
    /\ peers' = peers \ {p}
    /\ stranded' = stranded \ {p}
    /\ UNCHANGED <<session_vars, lastErr, givebacks, thr>>

-----------------------------------------------------------------------------
\* A goroutine that was started takes its next step.
Step(t) ==
    \/ EnrollAnswered(t)
    \/ EnrollFails(t)
    \/ GiveWay(t)
    \/ Install(t)
    \/ UpFails(t)
    \/ GiveBack(t)
    \/ HeartbeatTaken(t)
    \/ HeartbeatRefused(t)
    \/ HeartbeatUnanswered(t)
    \/ Renewed(t)
    \/ Reenroll(t)
    \/ Refused(t)
    \/ ReenrollFailed(t)
    \/ RetryLater(t)

\* The app asks for something on a connection of its own.
Request(c) ==
    \/ \E s \in ConnectSpec : Connect(c, s)
    \/ \E b \in Bearers : RenewNow(c, b)
    \/ Down(c)

LoopStep(g) == TimerFires(g) \/ LoopEnds(g) \/ Step(g)

Next ==
    \/ \E c \in Conns : Request(c) \/ Step(c)
    \/ \E g \in Gens : LoopStep(g) \/ GiveReplacedBack(g)
    \/ Shutdown
    \/ Restart
    \/ \E p \in Servers \X Keys : ServerForgets(p)

Spec == Init /\ [][Next]_vars

-----------------------------------------------------------------------------
(* Safety.                                                                 *)

\* s.gen is the stamp of the live session, and every renewal under way is
\* about that session or carries a stamp s.gen has gone past.  It is what
\* makes enroll's "s.gen != gen" mean "my session is not the live one".
StampsAreCurrent ==
    /\ Live => sess = gen
    /\ \A t \in Threads : thr[t].of # 0 => thr[t].of < gen \/ thr[t].of = sess

\* Of all the tunnels ever brought up, the live session's alone is up, and of
\* all sessions begun, its context alone is not cancelled: no connect, down,
\* drop or re-enrollment, however they interleave, leaves one running.
OneTunnel ==
    /\ tunnels = IF Live THEN {sess} ELSE {}
    /\ \A g \in Gens : thr[g] # Fresh => (g \in cancelled <=> g # sess)

\* While a tunnel is up its renewal loop runs: no answer of the server, and
\* no renewal raced by the app's, ends the loop and leaves the tunnel, "up
\* with nobody at the other end" once the lease ends.
LiveSessionIsRenewed == Live => thr[sess].pc \notin {"new", "done"}

\* The enrollments somebody still answers for: the live session's, those a
\* goroutine is about to install or give back.
OwnedPeers ==
    (IF Live THEN {Peer(specOf[sess])} ELSE {})
    \cup {Peer(specOf[g]) : g \in givebacks}
    \cup {Peer(thr[t].spec) : t \in {u \in Threads : thr[u].pc \in {"install", "giveback"}}}

\* A lease on a server is the live session's, or is about to be given back
\* -- but for those a failure stranded there, which run out by themselves:
\* no interleaving of connects, downs and re-enrollments forgets one.
NothingLeftBehind == peers \subseteq OwnedPeers \cup stranded

\* A tunnel that is down comes up for a connect of the app, never for a
\* re-enrollment that was under way when it went down.
ComesUpForAConnect ==
    [][~Live /\ Live' => \E c \in Conns : Install(c) /\ thr[c].of = 0]_vars

\* A renewal takes down the session it is about, never one begun since; and
\* one that finds a newer session re-enrolls nothing.
RenewalsActOnTheirOwn ==
    [][\A t \in Threads :
         Step(t) /\ thr[t].of \notin {0, sess} => UNCHANGED session_vars]_vars

\* What the helper takes a tunnel down for.
Reasons == {"up failed", "refused", "re-enrollment failed"}

\* When the helper itself takes the tunnel down it says for which reason, and
\* that reason stays until the app asks for something else or the tunnel is up
\* again: no success of a renewal still under way for the old session wipes it
\* out.  A failure of one does put "renewal failed" in its place (RetryLater,
\* against the comment on gen, helper.go:105, by which it acts on nothing); then
\* it is some error that stays.
DownIsExplained ==
    [][/\ Live /\ ~Live' =>
            \/ lastErr' \in Reasons
            \/ Shutdown \/ Restart \/ \E c \in Conns : Down(c)
       /\ ~Live /\ lastErr \in Reasons /\ lastErr' # lastErr =>
            \/ Live' \/ Restart
            \/ \E c \in Conns : Down(c) \/ (UpFails(c) /\ thr[c].of = 0)
            \/ \E t \in Threads : RetryLater(t)
       /\ ~Live /\ lastErr # "none" /\ lastErr' = "none" =>
            \/ Live' \/ Restart \/ \E c \in Conns : Down(c)]_vars

\* What the app sees of all this: Connection, where a tunnel leads nowhere but
\* to a peer that a request in flight asked for.
Link == INSTANCE Connection WITH
    Peers <- Servers \X Keys,
    Off   <- None,
    conn  <- IF Live THEN Peer(specOf[sess]) ELSE None,
    asked <- [c \in Conns |->
                IF thr[c].pc \in {"enroll", "install"} /\ thr[c].of = 0
                  THEN Peer(thr[c].spec) ELSE None]

\* Helper implements Connection: a re-enrollment, whichever goroutines it
\* races, changes nothing the app asked for.
ImplementsConnection == Link!Spec

-----------------------------------------------------------------------------
(* Liveness.  Go runs every goroutine that can run, and every call ends: the *)
(* HTTP calls have timeouts.  Requests are the app's to make, or not.       *)

GoroutinesRun ==
    /\ \A t \in Threads : WF_vars(Step(t))
    /\ \A g \in Gens : WF_vars(TimerFires(g)) /\ WF_vars(LoopEnds(g))
    /\ \A g \in Gens : WF_vars(GiveReplacedBack(g))

\* The server does not stay out of reach for ever: a loop that keeps asking
\* is answered in the end.
ServerAnswers == \A g \in Gens : SF_vars(HeartbeatTaken(g))

FairSpec == Spec /\ GoroutinesRun /\ ServerAnswers

\* Every request is answered, whatever the server and the loops do.
RequestsEnd == \A c \in Conns : thr[c] # Fresh ~> thr[c] = Finished

\* The loop of a session that ended ends: none is left renewing for nobody.
DeadLoopsEnd == \A g \in Gens : g \in cancelled ~> thr[g].pc \in {"new", "done"}

\* A live tunnel whose peer the server no longer has -- forgotten, or given
\* back by a goroutine that was late -- is enrolled again or taken down.
LostPeerIsNoticed ==
    (Live /\ Peer(specOf[sess]) \notin peers)
      ~> (~Live \/ Peer(specOf[sess]) \in peers)
=============================================================================
