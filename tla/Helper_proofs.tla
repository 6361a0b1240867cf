---------------------------- MODULE Helper_proofs ----------------------------
(***************************************************************************)
(* Proofs about Helper, for any number of connections, servers, keys and   *)
(* sessions.                                                               *)
(*                                                                         *)
(* The invariants of Helper are not inductive by themselves.  IInv adds    *)
(* what they rest on: a session that has not begun has no goroutine, a     *)
(* session's loop is about that session, and who gives an enrollment back  *)
(* is not the live session's loop.                                         *)
(***************************************************************************)
EXTENDS Helper, TLAPS

\* What the servers and lastErr hold.
OutsideOK ==
    /\ peers \subseteq Servers \X Keys
    /\ losses \in 0..MaxLosses
    /\ stranded \subseteq Servers \X Keys
    /\ lastErr \in Errors
    /\ givebacks \subseteq Gens

InsideOK ==
    /\ gen \in Nat
    /\ sess \in 0..MaxGen
    /\ specOf \in [Gens -> ConnectSpec \cup {NoSpec}]
    /\ tunnels \subseteq Gens
    /\ cancelled \subseteq Gens
    /\ thr \in [Threads -> Thread]

\* A session not yet begun has neither a goroutine nor a context.
Unbegun == \A g \in Gens : g > gen => thr[g] = Fresh /\ g \notin cancelled

\* A renewal's steps, up to where enroll begins.
Renewal == {"heartbeat", "renewed", "forgotten", "refused", "unanswered", "failed"}

\* What is enrolled or given back, and what a session was made from, is an
\* enrollment; and a renewal is about a session that was begun.
Made ==
    /\ \A t \in Threads : thr[t].pc \in {"enroll", "install", "giveback"} => thr[t].spec \in ConnectSpec
    /\ \A g \in Gens : thr[g] # Fresh => specOf[g] \in ConnectSpec
    /\ \A t \in Threads : thr[t].of # 0 => thr[thr[t].of] # Fresh
    /\ \A t \in Threads : thr[t].pc \in Renewal => thr[t].of # 0

\* A session's loop is about that session, and gives nothing back while that
\* session is live.
LoopsOwn ==
    \A g \in Gens :
        /\ thr[g].pc \notin {"new", "done"} => thr[g].of = g
        /\ thr[g].pc = "giveback" => g # sess

\* What concerns the goroutines and the sessions.
Inside ==
    /\ InsideOK
    /\ StampsAreCurrent
    /\ Unbegun
    /\ Made
    /\ LoopsOwn
    /\ OneTunnel
    /\ LiveSessionIsRenewed

IInv == OutsideOK /\ Inside

-----------------------------------------------------------------------------
\* What a goroutine t may become, r, when no session begins or ends.
Becomes(t, r) ==
    /\ r \in Thread
    /\ r.pc \in {"enroll", "install", "giveback"} => r.spec \in ConnectSpec
    /\ r.of \in {0, thr[t].of, sess}
    /\ r.pc \in Renewal => r.of # 0
    /\ t \in Gens =>
         /\ thr[t] # Fresh /\ r # Fresh
         /\ r.pc \notin {"new", "done"} => r.of = t
         /\ r.pc = "giveback" => t # sess
         /\ t = sess => r.pc \notin {"new", "done"}

\* One goroutine moves, and the sessions stay as they are.
LEMMA OneMoves ==
    ASSUME Inside, NEW t \in Threads, NEW r, Becomes(t, r),
           thr' = [thr EXCEPT ![t] = r], UNCHANGED session_vars
    PROVE  Inside'
<1> USE DEF session_vars, Live, NoSess, Gens, Threads
<1>1. InsideOK'
  BY DEF Inside, InsideOK, Becomes
<1>2. thr \in [Threads -> Thread] /\ sess \in 0..MaxGen
  BY DEF Inside, InsideOK
<1>3. StampsAreCurrent'
  BY <1>2 DEF Inside, StampsAreCurrent, Becomes
<1>4. Unbegun'
  BY <1>2 DEF Inside, Unbegun, Becomes
<1>5. Made'
  BY <1>2 DEF Inside, Made, Becomes, LiveSessionIsRenewed, Fresh, Thread
<1>6. LoopsOwn'
  BY <1>2 DEF Inside, LoopsOwn, Becomes
<1>7. OneTunnel'
  BY <1>2 DEF Inside, OneTunnel, Becomes
<1>8. LiveSessionIsRenewed'
  BY <1>2 DEF Inside, LiveSessionIsRenewed, Becomes
<1> QED
  BY <1>1, <1>3, <1>4, <1>5, <1>6, <1>7, <1>8 DEF Inside

\* What a goroutine t may become when the live session ends.
StopsAs(t, r) ==
    \/ r = thr[t]
    \/ r = Finished /\ (t \in Gens => thr[t] # Fresh)
    \/ /\ t \in Conns
       /\ r \in Thread
       /\ r.of = 0
       /\ r.pc \in {"enroll", "install", "giveback"} => r.spec \in ConnectSpec
       /\ r.pc \notin Renewal

\* The live session ends, if there is one, and one goroutine moves.
LEMMA OneStops ==
    ASSUME Inside, StopLocked, NEW t \in Threads, NEW r, StopsAs(t, r),
           thr' = [thr EXCEPT ![t] = r]
    PROVE  Inside'
<1> USE ConstantsAssumption DEF Live, NoSess, Gens, Threads, StopLocked, GenStopped
<1>1. thr \in [Threads -> Thread] /\ sess \in 0..MaxGen /\ gen \in Nat
  BY DEF Inside, InsideOK
<1>2. r \in Thread
  BY <1>1 DEF StopsAs, Finished, Thread, PCs
<1>3. InsideOK'
  BY <1>2 DEF Inside, InsideOK
<1>4. StampsAreCurrent'
  BY <1>1 DEF Inside, StampsAreCurrent, StopsAs, Finished, Thread
<1>5. Unbegun'
  BY <1>1 DEF Inside, Unbegun, StopsAs, StampsAreCurrent
<1>6. Made'
  <2>1. \A g \in Gens : thr'[g] = Fresh <=> thr[g] = Fresh
    BY <1>1 DEF StopsAs, Fresh, Finished
  <2>2. \A u \in Threads : thr[u].of \in Gens \cup {0} /\ thr'[u].of \in {0, thr[u].of}
    BY <1>1 DEF StopsAs, Finished, Thread
  <2>3. \A u \in Threads : thr'[u].pc \in {"enroll", "install", "giveback"} => thr'[u].spec \in ConnectSpec
    BY <1>1 DEF Inside, Made, StopsAs, Finished
  <2>4. \A u \in Threads : thr'[u].pc \in Renewal => thr'[u].of # 0
    BY <1>1 DEF Inside, Made, StopsAs, Finished, Renewal
  <2> QED
    BY <1>1, <2>1, <2>2, <2>3, <2>4 DEF Inside, Made
<1>7. LoopsOwn'
  BY <1>1 DEF Inside, LoopsOwn, StopsAs, Finished
<1>8. OneTunnel'
  BY <1>1 DEF Inside, OneTunnel, StopsAs, Unbegun
<1>9. LiveSessionIsRenewed'
  BY DEF LiveSessionIsRenewed
<1> QED
  BY <1>3, <1>4, <1>5, <1>6, <1>7, <1>8, <1>9 DEF Inside

\* A session takes the place of the live one.
LEMMA OneInstalls ==
    ASSUME Inside, NEW t \in Threads, Install(t)
    PROVE  Inside'
<1> USE ConstantsAssumption DEF Live, NoSess, Gens, Threads, GenStopped
<1> DEFINE g == GenStopped + 1
<1>1. thr \in [Threads -> Thread] /\ sess \in 0..MaxGen /\ gen \in Nat /\ g \in Gens /\ g > gen
  BY DEF Inside, InsideOK, Install
<1>2. thr[g] = Fresh /\ g # sess /\ g \notin cancelled /\ g # t
  BY <1>1 DEF Inside, Unbegun, StampsAreCurrent, Install, Fresh
<1>3. thr' = [thr EXCEPT ![t] = Finished, ![g] = Waiting(g)] /\ sess' = g /\ gen' = g
  BY DEF Install
<1>4. thr'[g] = Waiting(g) /\ thr'[t] = Finished /\ \A u \in Threads \ {t, g} : thr'[u] = thr[u]
  BY <1>1, <1>2, <1>3
<1>12. \A u \in Threads : thr[u].of < g /\ thr[u].of \in 0..MaxGen
  BY <1>1 DEF Inside, StampsAreCurrent, Thread
<1>5. InsideOK'
  <2>1. thr' \in [Threads -> Thread]
    BY <1>1, <1>3 DEF Finished, Waiting, Thread, PCs
  <2>2. specOf' \in [Gens -> ConnectSpec \cup {NoSpec}]
    BY <1>1 DEF Install, Inside, InsideOK, Made
  <2> QED
    BY <1>1, <2>1, <2>2 DEF Install, Inside, InsideOK
<1>6. StampsAreCurrent'
  <2>1. \A u \in Threads : thr'[u].of # 0 => thr'[u].of < g \/ thr'[u].of = g
    BY <1>1, <1>4, <1>12 DEF Finished, Waiting
  <2> QED
    BY <1>3, <2>1 DEF StampsAreCurrent
<1>7. Unbegun'
  <2>1. cancelled' \subseteq cancelled \cup {sess} /\ sess <= gen
    BY <1>1 DEF Install, Inside, StampsAreCurrent
  <2>2. t \in Gens => t <= gen
    BY <1>1 DEF Install, Inside, Unbegun, Fresh
  <2>3. ASSUME NEW h \in Gens, h > g PROVE thr'[h] = Fresh /\ h \notin cancelled'
    BY <1>1, <1>4, <2>1, <2>2, <2>3 DEF Inside, Unbegun
  <2> QED
    BY <1>3, <2>3 DEF Unbegun
<1>8. Made'
  <2>1. thr[t].spec \in ConnectSpec /\ specOf' = [specOf EXCEPT ![g] = thr[t].spec]
    BY DEF Install, Inside, Made
  <2>2. \A u \in Threads : thr[u] # Fresh => thr'[u] # Fresh
    BY <1>2, <1>4 DEF Fresh, Finished
  <2> QED
    <3>1. \A u \in Threads : thr'[u].pc \in {"enroll", "install", "giveback"} => thr'[u].spec \in ConnectSpec
      BY <1>1, <1>4 DEF Inside, Made, Finished, Waiting
    <3>2. \A h \in Gens : thr'[h] # Fresh => specOf'[h] \in ConnectSpec
      <4>1. \A h \in Gens \ {g} : specOf'[h] = specOf[h]
        BY <2>1 DEF Inside, InsideOK
      <4>2. specOf'[g] \in ConnectSpec
        BY <1>1, <2>1 DEF Inside, InsideOK
      <4>3. t \in Gens => thr[t] # Fresh
        BY DEF Install, Fresh
      <4> QED
        BY <1>4, <4>1, <4>2, <4>3 DEF Inside, Made
    <3>3. \A u \in Threads : thr'[u].of # 0 => thr'[thr'[u].of] # Fresh
      <4>1. ASSUME NEW u \in Threads, thr[u].of # 0 PROVE thr'[thr[u].of] # Fresh
        BY <1>12, <2>2, <4>1 DEF Inside, Made
      <4>2. thr'[g] # Fresh
        BY <1>4 DEF Waiting, Fresh
      <4> QED
        BY <1>4, <4>1, <4>2 DEF Finished, Waiting
    <3>4. \A u \in Threads : thr'[u].pc \in Renewal => thr'[u].of # 0
      BY <1>1, <1>4 DEF Inside, Made, Finished, Waiting, Renewal
    <3> QED
      BY <3>1, <3>2, <3>3, <3>4 DEF Made
<1>9. LoopsOwn'
  BY <1>1, <1>3, <1>4 DEF Inside, LoopsOwn, Finished, Waiting
<1>10. OneTunnel'
  BY <1>1, <1>2, <1>3, <1>4 DEF Install, Inside, OneTunnel, Unbegun, Waiting, Fresh, Finished
<1>11. LiveSessionIsRenewed'
  BY <1>3, <1>4 DEF LiveSessionIsRenewed, Waiting
<1> QED
  BY <1>5, <1>6, <1>7, <1>8, <1>9, <1>10, <1>11 DEF Inside

\* What every goroutine that has started is like.
LEMMA Started ==
    ASSUME Inside, NEW t \in Threads, thr[t].pc \notin {"new", "done"}
    PROVE  /\ thr[t] \in Thread
           /\ thr[t].pc \in {"enroll", "install", "giveback"} => thr[t].spec \in ConnectSpec
           /\ t \in Gens => thr[t] # Fresh /\ thr[t].of = t /\ t # 0
  BY DEF Inside, InsideOK, Made, LoopsOwn, Fresh, Gens

-----------------------------------------------------------------------------
(* Each action keeps Inside.                                               *)

\* A request of the app keeps Inside.
LEMMA RequestKeeps ==
    ASSUME Inside, NEW c \in Conns, Request(c)
    PROVE  Inside'
<1> USE ConstantsAssumption DEF Renewal
<1>1. c \in Threads /\ c \notin Gens
  BY DEF Threads, Gens
<1>2. ASSUME NEW s \in ConnectSpec, Connect(c, s)
      PROVE  Inside'
  <2> DEFINE r == [pc |-> "enroll", of |-> 0, spec |-> s]
  <2>1. Becomes(c, r)
    BY <1>1 DEF Becomes, Thread, PCs
  <2> QED
    BY <1>1, <1>2, <2>1, OneMoves DEF Connect
<1>3. ASSUME NEW b \in Bearers, RenewNow(c, b)
      PROVE  Inside'
  <2> DEFINE r == [pc |-> "heartbeat", of |-> sess, spec |-> NoSpec]
  <2>1. sess \in Gens /\ thr[sess] # Fresh /\ specOf[sess] \in ConnectSpec
    BY <1>3 DEF RenewNow, Inside, InsideOK, LiveSessionIsRenewed, Live, NoSess, Gens, Fresh, Made
  <2>2. specOf' \in [Gens -> ConnectSpec \cup {NoSpec}]
        /\ \A g \in Gens : specOf[g] \in ConnectSpec => specOf'[g] \in ConnectSpec
    BY <1>3, <2>1 DEF RenewNow, Inside, InsideOK, ConnectSpec
  <2>3. thr' = [thr EXCEPT ![c] = r] /\ UNCHANGED <<gen, sess, tunnels, cancelled>>
    BY <1>3 DEF RenewNow
  <2>4. r \in Thread
    BY <2>1 DEF Thread, PCs, Gens
  <2>5. /\ thr \in [Threads -> Thread] /\ \A g \in Gens : thr'[g] = thr[g]
        /\ thr'[c] = r /\ \A u \in Threads \ {c} : thr'[u] = thr[u]
    BY <1>1, <2>3 DEF Inside, InsideOK
  <2>6. InsideOK'
    BY <1>1, <2>2, <2>3, <2>4 DEF Inside, InsideOK
  <2>7. StampsAreCurrent'
    BY <1>1, <2>3, <2>5 DEF Inside, StampsAreCurrent, Live, Threads
  <2>8. Unbegun'
    BY <2>3, <2>5 DEF Inside, Unbegun
  <2>9. Made'
    <3>1. \A u \in Threads : thr'[u].of \in {sess, thr[u].of}
      <4>1. thr'[c].of = sess
        BY <2>5
      <4> QED
        BY <2>5, <4>1
    <3>2. \A u \in Threads : thr[u].of # 0 => thr[u].of \in Gens
      BY <2>5 DEF Thread, Gens
    <3>3. \A u \in Threads : thr'[u].of # 0 => thr'[thr'[u].of] # Fresh
      BY <2>1, <2>5, <3>1, <3>2 DEF Inside, Made
    <3>4. \A u \in Threads : thr'[u].pc \in {"enroll", "install", "giveback"} => thr'[u].spec \in ConnectSpec
      BY <1>1, <2>3, <2>5 DEF Inside, Made
    <3>5. \A g \in Gens : thr'[g] # Fresh => specOf'[g] \in ConnectSpec
      BY <2>2, <2>5 DEF Inside, Made
    <3>6. \A u \in Threads : thr'[u].pc \in Renewal => thr'[u].of # 0
      BY <1>1, <2>1, <2>3, <2>5 DEF Inside, Made, Gens
    <3> QED
      BY <3>3, <3>4, <3>5, <3>6 DEF Made
  <2>10. LoopsOwn'
    BY <2>3, <2>5 DEF Inside, LoopsOwn
  <2>11. OneTunnel'
    BY <2>3, <2>5 DEF Inside, OneTunnel, Live
  <2>12. LiveSessionIsRenewed'
    BY <2>1, <2>3, <2>5 DEF Inside, LiveSessionIsRenewed, Live
  <2> QED
    BY <2>6, <2>7, <2>8, <2>9, <2>10, <2>11, <2>12 DEF Inside
<1>4. ASSUME Down(c)
      PROVE  Inside'
  <2> DEFINE r == IF Live THEN [pc |-> "giveback", of |-> 0, spec |-> specOf[sess]] ELSE Finished
  <2>1. Live => specOf[sess] \in ConnectSpec
    BY DEF Inside, InsideOK, LiveSessionIsRenewed, Live, NoSess, Gens, Fresh, Made
  <2>2. StopsAs(c, r)
    BY <1>1, <2>1 DEF StopsAs, Thread, PCs
  <2>3. StopLocked /\ thr' = [thr EXCEPT ![c] = r]
    BY <1>4 DEF Down
  <2> QED
    BY <1>1, <2>2, <2>3, OneStops
<1> QED
  BY <1>2, <1>3, <1>4 DEF Request

\* A renewal that ends: its session is taken down if it is the live one.
LEMMA DropKeeps ==
    ASSUME Inside, NEW t \in Threads, thr[t].pc \notin {"new", "done"}, NEW why,
           Drop(thr[t].of, why), thr' = [thr EXCEPT ![t] = Finished]
    PROVE  Inside'
<1> USE ConstantsAssumption
<1>1. CASE sess = thr[t].of
  <2>1. StopsAs(t, Finished)
    BY Started DEF StopsAs
  <2> QED
    BY <1>1, <2>1, OneStops DEF Drop
<1>2. CASE sess # thr[t].of
  <2>1. Becomes(t, Finished)
    <3>1. Finished \in Thread /\ Finished # Fresh /\ Finished.of = 0 /\ Finished.pc = "done"
      BY DEF Finished, Fresh, Thread, PCs, NoSess
    <3>2. t \in Gens => thr[t] # Fresh /\ t # sess
      BY <1>2, Started
    <3> QED
      BY <3>1, <3>2 DEF Becomes, Renewal
  <2> QED
    BY <1>2, <2>1, OneMoves DEF Drop
<1> QED
  BY <1>1, <1>2

\* A goroutine's step keeps Inside.
LEMMA StepKeeps ==
    ASSUME Inside, NEW t \in Threads, Step(t)
    PROVE  Inside'
<1> USE ConstantsAssumption DEF Renewal
<1> DEFINE Moves(r) == Becomes(t, r) /\ thr' = [thr EXCEPT ![t] = r] /\ UNCHANGED session_vars
<1>1. CASE EnrollAnswered(t)
  <2>1. Moves([thr[t] EXCEPT !.pc = "install"])
    BY <1>1, Started DEF EnrollAnswered, Becomes, Thread, PCs, Fresh
  <2> QED
    BY <2>1, OneMoves
<1>2. CASE EnrollFails(t)
  <2>1. CASE thr[t].of = 0
    <3>1. Moves(Finished)
      BY <1>2, <2>1, Started DEF EnrollFails, Becomes, Thread, PCs, Finished, NoSess, Gens
    <3> QED
      BY <3>1, OneMoves
  <2>2. CASE thr[t].of # 0
    <3>1. Moves([thr[t] EXCEPT !.pc = "failed"])
      BY <1>2, <2>2, Started DEF EnrollFails, Becomes, Thread, PCs, Fresh
    <3> QED
      BY <3>1, OneMoves
  <2> QED
    BY <2>1, <2>2
<1>3. CASE GiveWay(t)
  <2>1. t \in Gens => t # sess
    BY <1>3, Started DEF GiveWay, Superseded, Inside, StampsAreCurrent, Live, NoSess
  <2>2. CASE IsLivePeer(Peer(thr[t].spec))
    <3>1. Moves(Finished)
      BY <1>3, <2>1, <2>2, Started DEF GiveWay, Becomes, Thread, PCs, Fresh, Finished, NoSess
    <3> QED
      BY <3>1, OneMoves
  <2>3. CASE ~IsLivePeer(Peer(thr[t].spec))
    <3>1. Moves([thr[t] EXCEPT !.pc = "giveback"])
      BY <1>3, <2>1, <2>3, Started DEF GiveWay, Becomes, Thread, PCs, Fresh
    <3> QED
      BY <3>1, OneMoves
  <2> QED
    BY <2>2, <2>3
<1>4. CASE Install(t)
  BY <1>4, OneInstalls
<1>5. CASE UpFails(t)
  <2>1. StopsAs(t, Finished)
    BY <1>5, Started DEF StopsAs, UpFails
  <2> QED
    BY <1>5, <2>1, OneStops DEF UpFails
<1>6. CASE GiveBack(t)
  <2>1. Moves(Finished)
    BY <1>6, Started DEF GiveBack, Inside, LoopsOwn, Becomes, Thread, PCs, Fresh, Finished, NoSess
  <2> QED
    BY <2>1, OneMoves
<1>7. ASSUME NEW pc \in {"renewed", "forgotten", "refused", "unanswered"}, Answer(t, pc)
      PROVE  Inside'
  <2>1. Moves([thr[t] EXCEPT !.pc = pc])
    <3>1. thr[t].of # 0
      BY <1>7 DEF Answer, Inside, Made
    <3> QED
      BY <1>7, <3>1, Started DEF Answer, Becomes, Thread, PCs, Fresh
  <2> QED
    BY <2>1, OneMoves
<1>8. CASE HeartbeatTaken(t) \/ HeartbeatRefused(t) \/ HeartbeatUnanswered(t)
  BY <1>7, <1>8 DEF HeartbeatTaken, HeartbeatRefused, HeartbeatUnanswered
<1>9. CASE Renewed(t) \/ RetryLater(t)
  <2>1. Moves(GoesOn(t))
    <3>1. CASE t \in Gens
      BY <1>9, <3>1, Started DEF Renewed, RetryLater, GoesOn, Waiting, Becomes, Thread, PCs, Fresh, Gens
    <3>2. CASE t \notin Gens
      <4>1. thr' = [thr EXCEPT ![t] = Finished] /\ GoesOn(t) = Finished /\ UNCHANGED session_vars
        BY <1>9, <3>2 DEF Renewed, RetryLater, GoesOn
      <4>2. Becomes(t, Finished)
        BY <3>2 DEF Becomes, Finished, Thread, PCs, NoSess
      <4> QED
        BY <4>1, <4>2
    <3> QED
      BY <3>1, <3>2
  <2> QED
    BY <2>1, OneMoves
<1>10. CASE Reenroll(t)
  <2> DEFINE r == [thr[t] EXCEPT !.pc = "enroll", !.spec = specOf[thr[t].of]]
  <2>1. thr[t].pc = "forgotten" /\ thr[t] \in Thread /\ specOf \in [Gens -> ConnectSpec \cup {NoSpec}]
    BY <1>10, Started DEF Reenroll, Inside, InsideOK
  <2>2. thr[t].of # 0 /\ specOf[thr[t].of] \in ConnectSpec
    BY <2>1, Started DEF Inside, Made, Thread, Gens, Renewal
  <2>3. Moves(r)
    <3>1. r \in Thread /\ r.pc = "enroll" /\ r.of = thr[t].of /\ r.spec \in ConnectSpec
      BY <2>1, <2>2 DEF Thread, PCs
    <3>2. Becomes(t, r)
      BY <2>1, <2>2, <3>1, Started DEF Becomes, Fresh
    <3> QED
      BY <1>10, <3>2 DEF Reenroll
  <2> QED
    BY <2>3, OneMoves
<1>11. CASE Refused(t)
  BY <1>11, DropKeeps DEF Refused
<1>12. CASE ReenrollFailed(t)
  BY <1>12, DropKeeps DEF ReenrollFailed
<1> QED
  BY <1>1, <1>2, <1>3, <1>4, <1>5, <1>6, <1>8, <1>9, <1>10, <1>11, <1>12 DEF Step

\* A loop's timer and its end keep Inside.
LEMMA LoopKeeps ==
    ASSUME Inside, NEW g \in Gens, TimerFires(g) \/ LoopEnds(g)
    PROVE  Inside'
<1> USE ConstantsAssumption DEF Renewal
<1>1. g \in Threads
  BY DEF Threads
<1>2. CASE TimerFires(g)
  <2> DEFINE r == [thr[g] EXCEPT !.pc = "heartbeat"]
  <2>1. Becomes(g, r)
    BY <1>1, <1>2, Started DEF TimerFires, Becomes, Thread, PCs, Fresh
  <2> QED
    BY <1>1, <1>2, <2>1, OneMoves DEF TimerFires
<1>3. CASE LoopEnds(g)
  <2>1. g # sess
    BY <1>1, <1>3, Started DEF LoopEnds, Cancelled, Inside, OneTunnel
  <2>2. Becomes(g, Finished)
    BY <1>1, <1>3, <2>1, Started DEF LoopEnds, Becomes, Thread, PCs, Finished, Fresh, NoSess
  <2> QED
    BY <1>1, <1>3, <2>2, OneMoves DEF LoopEnds
<1> QED
  BY <1>2, <1>3

\* Shutdown keeps Inside.
LEMMA ShutdownKeeps ==
    ASSUME Inside, Shutdown
    PROVE  Inside'
<1>1. sess \in Threads /\ thr \in [Threads -> Thread]
  BY ConstantsAssumption DEF Shutdown, Inside, InsideOK, Live, NoSess, Threads, Gens
<1>2. thr' = [thr EXCEPT ![sess] = thr[sess]] /\ StopsAs(sess, thr[sess])
  BY <1>1 DEF Shutdown, StopsAs
<1> QED
  BY <1>1, <1>2, OneStops DEF Shutdown

\* Inside holds of a helper just started.
LEMMA InitInside ==
    ASSUME Init
    PROVE  Inside
<1> USE ConstantsAssumption DEF Init, NoSess, Gens, Threads
<1>1. Fresh \in Thread
  BY DEF Fresh, Thread, PCs
<1>2. InsideOK
  BY <1>1 DEF InsideOK
<1>3. \A t \in Threads : thr[t] = Fresh
  OBVIOUS
<1>4. StampsAreCurrent /\ Unbegun /\ Made /\ LoopsOwn
  BY <1>3 DEF StampsAreCurrent, Unbegun, Made, LoopsOwn, Renewal, Live, Fresh
<1>5. OneTunnel /\ LiveSessionIsRenewed
  BY <1>3 DEF OneTunnel, LiveSessionIsRenewed, Live
<1> QED
  BY <1>2, <1>4, <1>5 DEF Inside

\* The next process starts where Init does, but for the servers.
LEMMA RestartKeeps ==
    ASSUME Restart
    PROVE  Inside'
<1> DEFINE F == {t \in Conns : thr[t] # Fresh}
<1>1. thr' = [t \in Threads |-> IF t \in F THEN Finished ELSE Fresh]
  BY DEF Restart
<1>2. F \in SUBSET Conns
  OBVIOUS
<1> HIDE DEF F
<1>3. InsideOK'
  BY <1>1, <1>2, ConstantsAssumption DEF Restart, InsideOK, Finished, Fresh, Thread, PCs, NoSess, Gens, Threads
<1>4. /\ \A t \in Threads : thr'[t] \in {Finished, Fresh}
      /\ \A g \in Gens : thr'[g] = Fresh
  BY <1>1, <1>2, ConstantsAssumption DEF Threads, Gens
<1>5. StampsAreCurrent' /\ Unbegun' /\ Made' /\ LoopsOwn'
  BY <1>4 DEF Restart, StampsAreCurrent, Unbegun, Made, LoopsOwn, Renewal, Live, Finished, Fresh, NoSess
<1>6. OneTunnel' /\ LiveSessionIsRenewed'
  BY <1>4 DEF Restart, OneTunnel, LiveSessionIsRenewed, Live
<1> QED
  BY <1>3, <1>5, <1>6 DEF Inside

\* Every step keeps Inside.
LEMMA InsideIsKept ==
    ASSUME Inside, [Next]_vars
    PROVE  Inside'
<1>1. ASSUME NEW c \in Conns, Request(c) \/ Step(c)
      PROVE  Inside'
  BY <1>1, RequestKeeps, StepKeeps DEF Threads
<1>2. ASSUME NEW g \in Gens, LoopStep(g)
      PROVE  Inside'
  BY <1>2, LoopKeeps, StepKeeps DEF LoopStep, Threads
<1>3. CASE UNCHANGED <<session_vars, thr>>
  BY <1>3 DEF session_vars, Inside, InsideOK, StampsAreCurrent, Unbegun, Made, LoopsOwn,
              OneTunnel, LiveSessionIsRenewed, Live
<1>4. ASSUME NEW g \in Gens, GiveReplacedBack(g)
      PROVE  Inside'
  BY <1>3, <1>4 DEF GiveReplacedBack
<1>5. ASSUME NEW p \in Servers \X Keys, ServerForgets(p)
      PROVE  Inside'
  BY <1>3, <1>5 DEF ServerForgets
<1>6. CASE UNCHANGED vars
  BY <1>3, <1>6 DEF vars, session_vars
<1> QED
  BY <1>1, <1>2, <1>4, <1>5, <1>6, ShutdownKeeps, RestartKeeps DEF Next

-----------------------------------------------------------------------------
(* What the servers hold.                                                  *)

\* Enrollments are of a server and a key.
LEMMA PeersArePairs == \A s \in ConnectSpec : Peer(s) \in Servers \X Keys
  BY DEF ConnectSpec, Peer

\* A goroutine's step keeps OutsideOK.
LEMMA StepKeepsOutside ==
    ASSUME IInv, NEW t \in Threads, Step(t)
    PROVE  OutsideOK'
<1> USE DEF IInv, OutsideOK
<1>1. thr[t].pc \in {"enroll", "install", "giveback"} => Peer(thr[t].spec) \in Servers \X Keys
  BY PeersArePairs DEF Inside, Made
<1>2. ASSUME NEW of, NEW why \in Errors, Drop(of, why), UNCHANGED <<peers, losses, givebacks>>
      PROVE  OutsideOK'
  BY <1>2 DEF Drop
<1>3. Live => sess \in Gens
  BY DEF Inside, InsideOK, Live, NoSess, Gens
<1>4. CASE EnrollAnswered(t)
  BY <1>1, <1>4 DEF EnrollAnswered
<1>5. CASE EnrollFails(t)
  BY <1>1, <1>5 DEF EnrollFails
<1>6. CASE GiveWay(t)
  BY <1>6 DEF GiveWay, server_vars
<1>7. CASE Install(t)
  BY <1>3, <1>7 DEF Install, Replaced, server_vars, Errors
<1>8. CASE UpFails(t)
  BY <1>1, <1>3, <1>8 DEF UpFails, Replaced, Errors
<1>9. CASE GiveBack(t)
  BY <1>1, <1>9 DEF GiveBack, Deregister
<1>10. CASE HeartbeatTaken(t) \/ HeartbeatUnanswered(t)
  BY <1>10 DEF HeartbeatTaken, HeartbeatUnanswered, Answer, server_vars
<1>11. CASE HeartbeatRefused(t)
  BY <1>11 DEF HeartbeatRefused, Answer
<1>12. CASE Renewed(t) \/ RetryLater(t) \/ Reenroll(t)
  BY <1>12 DEF Renewed, RetryLater, Reenroll, server_vars, Errors
<1>13. CASE Refused(t) \/ ReenrollFailed(t)
  BY <1>2, <1>13 DEF Refused, ReenrollFailed, Errors
<1> QED
  BY <1>4, <1>5, <1>6, <1>7, <1>8, <1>9, <1>10, <1>11, <1>12, <1>13 DEF Step

\* Every step keeps OutsideOK.
LEMMA OutsideIsKept ==
    ASSUME IInv, [Next]_vars
    PROVE  OutsideOK'
<1> USE DEF OutsideOK
<1>1. ASSUME NEW c \in Conns, Request(c)
      PROVE  OutsideOK'
  BY <1>1 DEF IInv, Request, Connect, RenewNow, Down, server_vars, Errors
<1>2. ASSUME NEW g \in Gens, TimerFires(g) \/ LoopEnds(g)
      PROVE  OutsideOK'
  BY <1>2 DEF IInv, TimerFires, LoopEnds, server_vars
<1>3. ASSUME NEW g \in Gens, GiveReplacedBack(g)
      PROVE  OutsideOK'
  BY <1>3 DEF IInv, GiveReplacedBack, Deregister
<1>4. CASE Shutdown
  BY <1>4 DEF IInv, Shutdown
<1>5. CASE Restart
  BY <1>5 DEF IInv, Restart, Errors
<1>6. ASSUME NEW p \in Servers \X Keys, ServerForgets(p)
      PROVE  OutsideOK'
  BY <1>6, ConstantsAssumption DEF IInv, ServerForgets
<1>7. CASE UNCHANGED vars
  BY <1>7 DEF IInv, vars
<1>8. ASSUME NEW t \in Threads, Step(t)
      PROVE  OutsideOK'
  BY <1>8, StepKeepsOutside
<1> QED
  BY <1>1, <1>2, <1>3, <1>4, <1>5, <1>6, <1>7, <1>8 DEF Next, LoopStep, Threads

-----------------------------------------------------------------------------
(* The theorems.                                                           *)

\* IInv is an invariant of the helper.
LEMMA Invariance == Spec => []IInv
<1>1. Init => IInv
  <2> SUFFICES ASSUME Init PROVE IInv
    OBVIOUS
  <2>1. OutsideOK
    BY ConstantsAssumption DEF Init, OutsideOK, Errors
  <2> QED
    BY <2>1, InitInside DEF IInv
<1>2. IInv /\ [Next]_vars => IInv'
  BY InsideIsKept, OutsideIsKept DEF IInv
<1> QED
  BY <1>1, <1>2, PTL DEF Spec

\* Every variable keeps its type, for any number of connections and sessions.
THEOREM TypeCorrect == Spec => []TypeOK
<1>1. IInv => TypeOK
  BY DEF IInv, OutsideOK, Inside, InsideOK, TypeOK
<1> QED
  BY <1>1, Invariance, PTL

\* enroll's comparison of s.gen with its own stamp is a sound test of whether
\* its session is the live one.
THEOREM StampsCorrect == Spec => []StampsAreCurrent
<1>1. IInv => StampsAreCurrent
  BY DEF IInv, Inside
<1> QED
  BY <1>1, Invariance, PTL

\* However connects, downs, drops, re-enrollments and restarts interleave, the
\* live session's tunnel is the only one up, and its context alone goes on.
THEOREM OneTunnelCorrect == Spec => []OneTunnel
<1>1. IInv => OneTunnel
  BY DEF IInv, Inside
<1> QED
  BY <1>1, Invariance, PTL

\* A tunnel that is up always has its renewal loop.
THEOREM LiveSessionIsRenewedCorrect == Spec => []LiveSessionIsRenewed
<1>1. IInv => LiveSessionIsRenewed
  BY DEF IInv, Inside
<1> QED
  BY <1>1, Invariance, PTL

\* A tunnel that is down comes up for a connect, in every step of every
\* behavior: a re-enrollment's stamp is out of date by then.
THEOREM ComesUpForAConnectCorrect == Spec => ComesUpForAConnect
<1>1. ASSUME IInv, [Next]_vars, ~Live, Live'
      PROVE  \E c \in Conns : Install(c) /\ thr[c].of = 0
  <2>1. ASSUME NEW t \in Threads, Step(t)
        PROVE  Install(t)
    BY <1>1, <2>1 DEF Step, EnrollAnswered, EnrollFails, GiveWay, UpFails, GiveBack, HeartbeatTaken,
          HeartbeatRefused, HeartbeatUnanswered, Answer, Renewed, Reenroll, Refused, ReenrollFailed,
          RetryLater, Drop, StopLocked, session_vars, Live
  <2>2. ASSUME NEW t \in Threads, Install(t)
        PROVE  t \in Conns /\ thr[t].of = 0
    <3>1. thr[t].of = 0
      BY <1>1, <2>2, ConstantsAssumption DEF Install, Superseded, IInv, Inside, InsideOK,
            StampsAreCurrent, Live, NoSess, Thread
    <3> QED
      BY <1>1, <2>2, <3>1, Started DEF Install, IInv, Threads
  <2>3. \E t \in Threads : Step(t)
    BY <1>1 DEF Next, LoopStep, Request, Connect, RenewNow, Down, StopLocked, TimerFires, LoopEnds,
          GiveReplacedBack, Shutdown, Restart, ServerForgets, session_vars, vars, Live, NoSess, Threads
  <2> QED
    BY <2>1, <2>2, <2>3
<1> QED
  BY <1>1, Invariance, PTL DEF Spec, ComesUpForAConnect

\* What a renewal finds out about its own session never touches another.
THEOREM RenewalsActOnTheirOwnCorrect == Spec => RenewalsActOnTheirOwn
<1>1. ASSUME IInv, NEW t \in Threads, Step(t), thr[t].of \notin {0, sess}
      PROVE  UNCHANGED session_vars
  <2>1. thr[t].pc = "install" => Superseded(t)
    BY <1>1, ConstantsAssumption DEF Superseded, IInv, Inside, InsideOK, StampsAreCurrent, Thread
  <2> QED
    BY <1>1, <2>1 DEF Step, EnrollAnswered, EnrollFails, GiveWay, Install, UpFails, GiveBack,
          HeartbeatTaken, HeartbeatRefused, HeartbeatUnanswered, Answer, Renewed, Reenroll, Refused,
          ReenrollFailed, RetryLater, Drop
<1>2. IInv => \A t \in Threads :
                 Step(t) /\ thr[t].of \notin {0, sess} => UNCHANGED session_vars
  BY <1>1
<1> QED
  BY <1>2, Invariance, PTL DEF RenewalsActOnTheirOwn

-----------------------------------------------------------------------------
(* Helper implements Connection.                                           *)

\* A re-enrollment under way is of the peer that its session leads to.
SamePeer ==
    \A t \in Threads :
        thr[t].pc \in {"enroll", "install"} /\ thr[t].of # 0
        => Peer(thr[t].spec) = Peer(specOf[thr[t].of])

\* Where a session leads never changes: a renewal brings another bearer only.
LEMMA PeersStay ==
    ASSUME IInv, [Next]_vars, ~Restart, NEW g \in Gens, thr[g] # Fresh
    PROVE  Peer(specOf'[g]) = Peer(specOf[g])
<1>1. specOf \in [Gens -> ConnectSpec \cup {NoSpec}]
  BY DEF IInv, Inside, InsideOK
<1>2. ASSUME NEW c \in Conns, NEW b \in Bearers, RenewNow(c, b)
      PROVE  Peer(specOf'[g]) = Peer(specOf[g])
  <2>1. specOf[g] \in ConnectSpec
    BY DEF IInv, Inside, Made
  <2> QED
    BY <1>1, <1>2, <2>1 DEF RenewNow, Peer, ConnectSpec
<1>3. ASSUME NEW t \in Threads, Install(t)
      PROVE  Peer(specOf'[g]) = Peer(specOf[g])
  <2>1. g # GenStopped + 1
    BY ConstantsAssumption DEF IInv, Inside, InsideOK, Unbegun, GenStopped, Gens
  <2> QED
    BY <1>1, <1>3, <2>1 DEF Install
<1>4. ASSUME NEW t \in Threads, Step(t), ~Install(t)
      PROVE  UNCHANGED specOf
  BY <1>4 DEF Step, EnrollAnswered, EnrollFails, GiveWay, UpFails, GiveBack, HeartbeatTaken,
        HeartbeatRefused, HeartbeatUnanswered, Answer, Renewed, Reenroll, Refused, ReenrollFailed,
        RetryLater, Drop, StopLocked, session_vars
<1> QED
  BY <1>2, <1>3, <1>4 DEF Next, LoopStep, Request, Connect, Down, StopLocked, TimerFires, LoopEnds,
        GiveReplacedBack, Shutdown, ServerForgets, session_vars, vars, Threads

\* Every step keeps SamePeer.
LEMMA SamePeerIsKept ==
    ASSUME IInv, SamePeer, [Next]_vars
    PROVE  SamePeer'
<1>1. CASE Restart
  BY <1>1 DEF Restart, SamePeer, Finished, Fresh
<1>2. CASE ~Restart
  <2>1. \A u \in Threads : thr[u].of # 0 =>
           thr[u].of \in Gens /\ Peer(specOf'[thr[u].of]) = Peer(specOf[thr[u].of])
    BY <1>2, PeersStay, ConstantsAssumption DEF IInv, Inside, InsideOK, Made, Thread, Gens
  <2>2. ASSUME NEW u \in Threads, thr'[u].pc \in {"enroll", "install"}, thr'[u].of # 0,
               \/ thr'[u] = thr[u]
               \/ thr'[u] = [thr[u] EXCEPT !.pc = "install"] /\ thr[u].pc = "enroll"
               \/ /\ thr'[u] = [thr[u] EXCEPT !.pc = "enroll", !.spec = specOf[thr[u].of]]
                  /\ thr[u] \in Thread
        PROVE  Peer(thr'[u].spec) = Peer(specOf'[thr'[u].of])
    <3>1. thr[u] \in Thread
      BY DEF IInv, Inside, InsideOK
    <3>2. thr'[u].of = thr[u].of
      BY <2>2, <3>1 DEF Thread
    <3>3. Peer(thr'[u].spec) = Peer(specOf[thr[u].of])
      BY <2>2, <3>1, <3>2 DEF SamePeer, Thread
    <3> QED
      BY <2>1, <2>2, <3>2, <3>3
  <2>3. ASSUME NEW u \in Threads, thr'[u].pc \in {"enroll", "install"}, thr'[u].of # 0
        PROVE  \/ thr'[u] = thr[u]
               \/ thr'[u] = [thr[u] EXCEPT !.pc = "install"] /\ thr[u].pc = "enroll"
               \/ /\ thr'[u] = [thr[u] EXCEPT !.pc = "enroll", !.spec = specOf[thr[u].of]]
                  /\ thr[u] \in Thread
    <3>1. thr \in [Threads -> Thread]
      BY DEF IInv, Inside, InsideOK
    <3>2. ASSUME NEW t \in Threads, NEW r, thr' = [thr EXCEPT ![t] = r],
                 r.pc \notin {"enroll", "install"} \/ r.of = 0
          PROVE  thr'[u] = thr[u]
      BY <2>3, <3>1, <3>2
    <3>3. ASSUME NEW t \in Threads, Step(t), ~EnrollAnswered(t), ~Reenroll(t), ~Install(t)
          PROVE  thr'[u] = thr[u]
      <4>1. thr[t] \in Thread
        BY <3>1
      <4>2. CASE GiveBack(t) \/ UpFails(t) \/ Refused(t) \/ ReenrollFailed(t)
        BY <3>2, <4>2 DEF GiveBack, UpFails, Refused, ReenrollFailed, Finished
      <4>3. CASE Renewed(t) \/ RetryLater(t)
        BY <3>2, <4>3 DEF Renewed, RetryLater, GoesOn, Waiting, Finished
      <4>4. CASE HeartbeatTaken(t) \/ HeartbeatRefused(t) \/ HeartbeatUnanswered(t)
        <5>1. PICK pc \in {"renewed", "forgotten", "refused", "unanswered"} :
                 thr' = [thr EXCEPT ![t] = [thr[t] EXCEPT !.pc = pc]]
          BY <4>4 DEF HeartbeatTaken, HeartbeatRefused, HeartbeatUnanswered, Answer
        <5>2. [thr[t] EXCEPT !.pc = pc].pc = pc
          BY <4>1 DEF Thread
        <5> QED
          BY <3>2, <5>1, <5>2
      <4>5. CASE EnrollFails(t) \/ GiveWay(t)
        <5>1. PICK pc \in {"failed", "giveback"} :
                 \/ thr' = [thr EXCEPT ![t] = [thr[t] EXCEPT !.pc = pc]]
                 \/ thr' = [thr EXCEPT ![t] = Finished]
          BY <4>5 DEF EnrollFails, GiveWay
        <5>2. [thr[t] EXCEPT !.pc = pc].pc = pc /\ Finished.pc = "done"
          BY <4>1 DEF Thread, Finished
        <5> QED
          BY <3>2, <5>1, <5>2
      <4> QED
        BY <3>3, <4>2, <4>3, <4>4, <4>5 DEF Step
    <3>4. ASSUME NEW t \in Threads, Install(t)
          PROVE  thr'[u] = thr[u]
      BY <2>3, <3>1, <3>4 DEF Install, Waiting, Finished
    <3>5. ASSUME NEW t \in Threads, EnrollAnswered(t) \/ Reenroll(t), thr'[u] # thr[u]
          PROVE  \/ thr'[u] = [thr[u] EXCEPT !.pc = "install"] /\ thr[u].pc = "enroll"
                 \/ /\ thr'[u] = [thr[u] EXCEPT !.pc = "enroll", !.spec = specOf[thr[u].of]]
                    /\ thr[u] \in Thread
      BY <3>1, <3>5 DEF EnrollAnswered, Reenroll
    <3>6. ASSUME NEW c \in Conns, Request(c)
          PROVE  thr'[u] = thr[u]
      BY <2>3, <3>1, <3>6 DEF Request, Connect, RenewNow, Down, Finished
    <3>7. ASSUME NEW g \in Gens, TimerFires(g) \/ LoopEnds(g)
          PROVE  thr'[u] = thr[u]
      <4>1. g \in Threads /\ [thr[g] EXCEPT !.pc = "heartbeat"].pc = "heartbeat"
        BY <3>1 DEF Threads, Thread
      <4> QED
        BY <3>2, <3>7, <4>1 DEF TimerFires, LoopEnds, Finished
    <3> QED
      BY <1>2, <3>3, <3>4, <3>5, <3>6, <3>7 DEF Next, LoopStep, GiveReplacedBack, Shutdown,
            ServerForgets, vars, Threads
  <2> QED
    BY <2>2, <2>3 DEF SamePeer
<1> QED
  BY <1>1, <1>2

ConnNow  == IF Live THEN Peer(specOf[sess]) ELSE None
Asks(r)  == IF r.pc \in {"enroll", "install"} /\ r.of = 0 THEN Peer(r.spec) ELSE None
AskedNow == [c \in Conns |-> Asks(thr[c])]

\* The steps of Connection, in the terms of Helper.
Linked ==
    \/ ConnNow' \in {ConnNow, None} /\ AskedNow' = AskedNow
    \/ \E c \in Conns :
         /\ AskedNow[c] # None
         /\ AskedNow' = [AskedNow EXCEPT ![c] = None]
         /\ ConnNow' \in {ConnNow, None, AskedNow[c]}
    \/ \E c \in Conns, p \in Servers \X Keys :
         /\ AskedNow[c] = None
         /\ AskedNow' = [AskedNow EXCEPT ![c] = p]
         /\ ConnNow' = ConnNow
    \/ ConnNow' = None /\ AskedNow' = [c \in Conns |-> None]

\* A step that is Linked is a step of Connection or a stutter.
LEMMA LinkedSteps ==
    ASSUME Linked
    PROVE  [Link!Next]_(Link!vars)
  BY DEF Linked, ConnNow, AskedNow, Asks, Link!Next, Link!Ask, Link!Grant, Link!Deny, Link!GoDown,
         Link!Crash, Link!vars

\* What is asked changes only with the goroutine that moves.
LEMMA AskedMoves ==
    ASSUME NEW t, NEW r, \A c \in Conns \ {t} : thr'[c] = thr[c], thr'[t] = r
    PROVE  /\ t \in Conns => AskedNow' = [AskedNow EXCEPT ![t] = Asks(r)]
           /\ Asks(r) = Asks(thr[t]) \/ t \notin Conns => AskedNow' = AskedNow
<1>1. \A c \in Conns : AskedNow'[c] = IF c = t THEN Asks(r) ELSE AskedNow[c]
  BY DEF AskedNow, Asks
<1> QED
  BY <1>1 DEF AskedNow

\* A goroutine's step is a step of Connection, or a stutter.
LEMMA StepIsLinked ==
    ASSUME IInv, SamePeer, NEW t \in Threads, Step(t)
    PROVE  Linked
<1> USE ConstantsAssumption
<1>1. thr \in [Threads -> Thread] /\ thr[t] \in Thread
  BY DEF IInv, Inside, InsideOK
<1>2. thr[t].pc \in {"enroll", "install"} /\ thr[t].of = 0 => t \in Conns
  BY Started DEF IInv, Threads
<1>3. thr[t].pc \in {"enroll", "install"} => Peer(thr[t].spec) # None
  BY PeersArePairs DEF IInv, Inside, Made
<1>4. Asks(Finished) = None
  BY DEF Asks, Finished
<1>5. ASSUME NEW r, thr' = [thr EXCEPT ![t] = r], Asks(r) \in {None, Asks(thr[t])},
             ConnNow' \in {ConnNow, None}
      PROVE  Linked
  <2>1. thr'[t] = r /\ \A c \in Conns \ {t} : thr'[c] = thr[c]
    BY <1>1, <1>5 DEF Threads
  <2>2. CASE Asks(r) = Asks(thr[t]) \/ t \notin Conns
    BY <1>5, <2>1, <2>2, AskedMoves DEF Linked
  <2>3. CASE Asks(r) = None /\ Asks(thr[t]) # None /\ t \in Conns
    <3>1. AskedNow[t] # None
      BY <2>3 DEF AskedNow
    <3>2. AskedNow' = [AskedNow EXCEPT ![t] = None]
      BY <2>1, <2>3, AskedMoves
    <3> QED
      BY <1>5, <2>3, <3>1, <3>2 DEF Linked
  <2> QED
    BY <1>5, <2>2, <2>3
<1>6. UNCHANGED session_vars => ConnNow' = ConnNow
  BY DEF session_vars, ConnNow, Live
<1>7. StopLocked => ConnNow' = None
  BY DEF StopLocked, ConnNow, Live
<1>8. CASE EnrollAnswered(t)
  <2>1. Asks([thr[t] EXCEPT !.pc = "install"]) = Asks(thr[t])
    BY <1>1, <1>8 DEF EnrollAnswered, Asks, Thread
  <2> QED
    BY <1>5, <1>6, <1>8, <2>1 DEF EnrollAnswered
<1>9. CASE EnrollFails(t) \/ GiveWay(t)
  <2>1. PICK r \in {Finished, [thr[t] EXCEPT !.pc = "failed"], [thr[t] EXCEPT !.pc = "giveback"]} :
           thr' = [thr EXCEPT ![t] = r]
    BY <1>9 DEF EnrollFails, GiveWay
  <2>2. Asks(r) = None
    BY <1>1, <1>4, <2>1 DEF Asks, Thread
  <2> QED
    BY <1>5, <1>6, <1>9, <2>1, <2>2 DEF EnrollFails, GiveWay
<1>10. CASE Install(t)
  <2> DEFINE g == GenStopped + 1
  <2>1. /\ g \in Gens /\ sess' = g /\ specOf' = [specOf EXCEPT ![g] = thr[t].spec]
        /\ specOf \in [Gens -> ConnectSpec \cup {NoSpec}]
    BY <1>10 DEF Install, Gens, GenStopped, IInv, Inside, InsideOK
  <2>2. ConnNow' = Peer(thr[t].spec)
    BY <2>1 DEF ConnNow, Live, NoSess, Gens
  <2>3. g \notin Conns /\ thr' = [thr EXCEPT ![t] = Finished, ![g] = Waiting(g)]
    BY <1>10, <2>1 DEF Install, Gens
  <2>4. CASE t \in Conns
    <3>1. thr'[t] = Finished /\ \A c \in Conns \ {t} : thr'[c] = thr[c]
      BY <1>1, <2>3, <2>4 DEF Threads
    <3>2. AskedNow' = [AskedNow EXCEPT ![t] = None]
      BY <1>4, <2>4, <3>1, AskedMoves
    <3>3. CASE thr[t].of = 0
      <4>1. AskedNow[t] = Peer(thr[t].spec)
        BY <1>10, <2>4, <3>3 DEF Install, AskedNow, Asks
      <4> QED
        BY <1>3, <1>10, <2>2, <2>4, <3>2, <4>1 DEF Linked, Install
    <3>4. CASE thr[t].of # 0
      <4>1. Asks(thr[t]) = None
        BY <3>4 DEF Asks
      <4>2. AskedNow' = AskedNow
        BY <1>4, <3>1, <4>1, AskedMoves
      <4>3. thr[t].of = sess /\ Live
        BY <1>1, <1>10, <3>4 DEF Install, Superseded, IInv, Inside, InsideOK, StampsAreCurrent,
              Live, NoSess, Thread
      <4>4. ConnNow' = ConnNow
        BY <1>10, <2>2, <3>4, <4>3 DEF Install, SamePeer, ConnNow
      <4> QED
        BY <4>2, <4>4 DEF Linked
    <3> QED
      BY <3>3, <3>4
  <2>5. CASE t \notin Conns
    <3>1. \A c \in Conns : thr'[c] = thr[c]
      BY <1>1, <2>3, <2>5 DEF Threads
    <3>2. AskedNow' = AskedNow
      BY <3>1 DEF AskedNow, Asks
    <3>3. thr[t].of # 0
      BY <1>2, <1>10, <2>5 DEF Install
    <3>4. thr[t].of = sess /\ Live
      BY <1>1, <1>10, <3>3 DEF Install, Superseded, IInv, Inside, InsideOK, StampsAreCurrent,
            Live, NoSess, Thread
    <3>5. ConnNow' = ConnNow
      BY <1>10, <2>2, <3>3, <3>4 DEF Install, SamePeer, ConnNow
    <3> QED
      BY <3>2, <3>5 DEF Linked
  <2> QED
    BY <2>4, <2>5
<1>11. CASE UpFails(t)
  BY <1>4, <1>5, <1>7, <1>11 DEF UpFails
<1>12. CASE GiveBack(t)
  BY <1>4, <1>5, <1>6, <1>12 DEF GiveBack
<1>13. CASE HeartbeatTaken(t) \/ HeartbeatRefused(t) \/ HeartbeatUnanswered(t)
  <2>1. PICK pc \in {"renewed", "forgotten", "refused", "unanswered"} : Answer(t, pc)
    BY <1>13 DEF HeartbeatTaken, HeartbeatRefused, HeartbeatUnanswered
  <2>2. Asks([thr[t] EXCEPT !.pc = pc]) = None
    BY <1>1, <2>1 DEF Asks, Thread
  <2> QED
    BY <1>5, <1>6, <2>1, <2>2 DEF Answer
<1>14. CASE Renewed(t) \/ RetryLater(t)
  <2>1. Asks(GoesOn(t)) = None
    BY <1>4 DEF GoesOn, Waiting, Asks
  <2> QED
    BY <1>5, <1>6, <1>14, <2>1 DEF Renewed, RetryLater
<1>15. CASE Reenroll(t)
  <2> DEFINE r == [thr[t] EXCEPT !.pc = "enroll", !.spec = specOf[thr[t].of]]
  <2>1. thr[t].of # 0
    BY <1>15 DEF Reenroll, IInv, Inside, Made, Renewal
  <2>2. Asks(r) = None
    BY <1>1, <2>1 DEF Asks, Thread
  <2> QED
    BY <1>5, <1>6, <1>15, <2>2 DEF Reenroll
<1>16. CASE Refused(t) \/ ReenrollFailed(t)
  BY <1>4, <1>5, <1>6, <1>7, <1>16 DEF Refused, ReenrollFailed, Drop
<1> QED
  BY <1>8, <1>9, <1>10, <1>11, <1>12, <1>13, <1>14, <1>15, <1>16 DEF Step

\* Every step of the helper is a step of Connection, or a stutter.
LEMMA NextIsLinked ==
    ASSUME IInv, SamePeer, [Next]_vars
    PROVE  Linked
<1> USE ConstantsAssumption
<1>1. thr \in [Threads -> Thread]
  BY DEF IInv, Inside, InsideOK
<1>2. ASSUME NEW t \in Threads, Step(t)
      PROVE  Linked
  BY <1>2, StepIsLinked
<1>3. ASSUME NEW c \in Conns, NEW r, thr[c] = Fresh, thr' = [thr EXCEPT ![c] = r]
      PROVE  /\ AskedNow[c] = None
             /\ AskedNow' = [AskedNow EXCEPT ![c] = Asks(r)]
             /\ Asks(r) = None => AskedNow' = AskedNow
  <2>1. thr'[c] = r /\ \A d \in Conns \ {c} : thr'[d] = thr[d]
    BY <1>1, <1>3 DEF Threads
  <2>2. Asks(thr[c]) = None
    BY <1>3 DEF Asks, Fresh
  <2> QED
    BY <2>1, <2>2, AskedMoves DEF AskedNow
<1>4. ASSUME NEW c \in Conns, NEW s \in ConnectSpec, Connect(c, s)
      PROVE  Linked
  <2> DEFINE r == [pc |-> "enroll", of |-> 0, spec |-> s]
  <2>1. Asks(r) = Peer(s) /\ Peer(s) \in Servers \X Keys
    BY PeersArePairs DEF Asks
  <2>2. ConnNow' = ConnNow /\ thr[c] = Fresh /\ thr' = [thr EXCEPT ![c] = r]
    BY <1>4 DEF Connect, session_vars, ConnNow, Live
  <2> HIDE DEF r
  <2> QED
    BY <1>3, <2>1, <2>2 DEF Linked
<1>5. ASSUME NEW c \in Conns, NEW b \in Bearers, RenewNow(c, b)
      PROVE  Linked
  <2> DEFINE r == [pc |-> "heartbeat", of |-> sess, spec |-> NoSpec]
  <2>1. Asks(r) = None
    BY DEF Asks
  <2>2. thr[c] = Fresh /\ thr' = [thr EXCEPT ![c] = r]
    BY <1>5 DEF RenewNow
  <2>3. ConnNow' = ConnNow
    <3>1. sess \in Gens /\ specOf \in [Gens -> ConnectSpec \cup {NoSpec}]
      BY <1>5 DEF RenewNow, Live, NoSess, Gens, IInv, Inside, InsideOK
    <3>2. Peer(specOf'[sess]) = Peer(specOf[sess])
      BY <1>5, <3>1 DEF RenewNow, Peer, ConnectSpec, NoSpec
    <3> QED
      BY <1>5, <3>2 DEF RenewNow, ConnNow, Live
  <2> HIDE DEF r
  <2> QED
    BY <1>3, <2>1, <2>2, <2>3 DEF Linked
<1>6. ASSUME NEW c \in Conns, Down(c)
      PROVE  Linked
  <2> DEFINE r == IF Live THEN [pc |-> "giveback", of |-> 0, spec |-> specOf[sess]] ELSE Finished
  <2>1. Asks(r) = None
    BY DEF Asks, Finished
  <2>2. thr[c] = Fresh /\ thr' = [thr EXCEPT ![c] = r] /\ ConnNow' = None
    BY <1>6 DEF Down, StopLocked, ConnNow, Live
  <2> HIDE DEF r
  <2> QED
    BY <1>3, <2>1, <2>2 DEF Linked
<1>7. ASSUME NEW g \in Gens, TimerFires(g) \/ LoopEnds(g)
      PROVE  Linked
  <2>1. \A c \in Conns : thr'[c] = thr[c]
    BY <1>1, <1>7 DEF TimerFires, LoopEnds, Threads, Gens
  <2>2. AskedNow' = AskedNow
    BY <2>1 DEF AskedNow, Asks
  <2>3. ConnNow' = ConnNow
    BY <1>7 DEF TimerFires, LoopEnds, session_vars, ConnNow, Live
  <2> QED
    BY <2>2, <2>3 DEF Linked
<1>8. ASSUME UNCHANGED thr, UNCHANGED session_vars \/ StopLocked
      PROVE  Linked
  BY <1>8 DEF Linked, AskedNow, Asks, ConnNow, StopLocked, session_vars, Live
<1>9. CASE Restart
  <2>1. \A c \in Conns : thr'[c] \in {Finished, Fresh}
    BY <1>9 DEF Restart, Threads
  <2>2. AskedNow' = [c \in Conns |-> None]
    BY <2>1 DEF AskedNow, Asks, Finished, Fresh
  <2>3. ConnNow' = None
    BY <1>9 DEF Restart, ConnNow, Live
  <2> QED
    BY <2>2, <2>3 DEF Linked
<1> QED
  <2>1. CASE UNCHANGED vars
    BY <1>8, <2>1 DEF vars, session_vars
  <2>2. CASE Shutdown
    BY <1>8, <2>2 DEF Shutdown
  <2>3. ASSUME NEW g \in Gens, GiveReplacedBack(g)
        PROVE  Linked
    BY <1>8, <2>3 DEF GiveReplacedBack
  <2>4. ASSUME NEW p \in Servers \X Keys, ServerForgets(p)
        PROVE  Linked
    BY <1>8, <2>4 DEF ServerForgets
  <2> QED
    BY <1>2, <1>4, <1>5, <1>6, <1>7, <1>9, <2>1, <2>2, <2>3, <2>4 DEF Next, LoopStep, Request, Threads

\* Whatever the goroutines do, the app is given the tunnel that one of its
\* requests in flight asks for, or none.
THEOREM ConnectionImplemented == Spec => ImplementsConnection
<1>1. Init => SamePeer /\ Link!Init
  <2> SUFFICES ASSUME Init PROVE SamePeer /\ Link!Init
    OBVIOUS
  <2>1. \A t \in Threads : thr[t] = Fresh
    BY DEF Init
  <2> QED
    BY <2>1 DEF Init, SamePeer, Fresh, Link!Init, Live, Threads
<1>2. IInv /\ SamePeer /\ [Next]_vars => SamePeer'
  BY SamePeerIsKept
<1>3. IInv /\ SamePeer /\ [Next]_vars => [Link!Next]_(Link!vars)
  BY NextIsLinked, LinkedSteps
<1> QED
  BY <1>1, <1>2, <1>3, Invariance, PTL DEF Spec, ImplementsConnection, Link!Spec

-----------------------------------------------------------------------------
(* When the tunnel goes down, and what is left on the servers.             *)

\* What a goroutine's step may do to the live session and to lastErr.
LEMMA StepExplains ==
    ASSUME IInv, NEW t \in Threads, Step(t)
    PROVE  /\ Live /\ ~Live' => lastErr' \in Reasons
           /\ ~Live /\ lastErr' # lastErr =>
                \/ Live' \/ RetryLater(t)
                \/ t \in Conns /\ UpFails(t) /\ thr[t].of = 0
           /\ ~Live /\ lastErr # "none" /\ lastErr' = "none" => Live'
<1> USE ConstantsAssumption DEF Reasons
<1>1. CASE EnrollAnswered(t) \/ EnrollFails(t) \/ GiveWay(t) \/ GiveBack(t) \/ Reenroll(t)
  BY <1>1 DEF EnrollAnswered, EnrollFails, GiveWay, GiveBack, Reenroll, session_vars, Live
<1>2. CASE HeartbeatTaken(t) \/ HeartbeatRefused(t) \/ HeartbeatUnanswered(t)
  BY <1>2 DEF HeartbeatTaken, HeartbeatRefused, HeartbeatUnanswered, Answer, session_vars, Live
<1>3. CASE Install(t)
  <2>1. GenStopped + 1 # 0
    BY DEF GenStopped, IInv, Inside, InsideOK
  <2> QED
    BY <1>3, <2>1 DEF Install, Live, NoSess
<1>4. CASE UpFails(t)
  <2>1. lastErr' = "up failed"
    BY <1>4 DEF UpFails
  <2>2. ~Live => thr[t].of = 0
    <3>1. thr[t] \in Thread /\ gen \in Nat
      BY DEF IInv, Inside, InsideOK
    <3>2. thr[t].of \in 0..MaxGen
      BY <3>1 DEF Thread
    <3>3. thr[t].of # 0 => gen = thr[t].of
      BY <1>4 DEF UpFails, Superseded
    <3>4. thr[t].of # 0 => thr[t].of < gen \/ thr[t].of = sess
      BY DEF IInv, Inside, StampsAreCurrent
    <3> QED
      BY <3>1, <3>2, <3>3, <3>4 DEF Live, NoSess
  <2>3. t \in Gens => thr[t].of # 0
    <3>1. t \in Gens => thr[t].of = t
      BY <1>4 DEF UpFails, IInv, Inside, LoopsOwn
    <3> QED
      BY <3>1 DEF Gens
  <2>4. Live => lastErr' \in Reasons
    BY <2>1
  <2>5. ~Live => t \in Conns /\ UpFails(t) /\ thr[t].of = 0
    BY <1>4, <2>2, <2>3 DEF Threads
  <2> QED
    BY <2>1, <2>4, <2>5
<1>5. CASE Refused(t) \/ ReenrollFailed(t)
  <2>1. thr[t].of # 0
    BY <1>5 DEF Refused, ReenrollFailed, IInv, Inside, Made, Renewal
  <2>2. CASE sess = thr[t].of
    BY <1>5, <2>1, <2>2 DEF Refused, ReenrollFailed, Drop, Live, NoSess
  <2>3. CASE sess # thr[t].of
    BY <1>5, <2>3 DEF Refused, ReenrollFailed, Drop, session_vars, Live
  <2> QED
    BY <2>2, <2>3
<1>6. CASE Renewed(t)
  <2>1. thr[t].of # 0
    BY <1>6 DEF Renewed, IInv, Inside, Made, Renewal
  <2> QED
    BY <1>6, <2>1 DEF Renewed, session_vars, Live, NoSess
<1>7. CASE RetryLater(t)
  BY <1>7 DEF RetryLater, session_vars, Live
<1> QED
  BY <1>1, <1>2, <1>3, <1>4, <1>5, <1>6, <1>7 DEF Step

\* When the helper itself takes the tunnel down it says for which reason, which
\* stays until the app asks for something, the tunnel is up again or a renewal
\* still under way for the old session fails (RetryLater); no success of one
\* wipes it out.
THEOREM DownIsExplainedCorrect == Spec => DownIsExplained
<1> DEFINE Explained ==
      /\ Live /\ ~Live' =>
           \/ lastErr' \in Reasons
           \/ Shutdown \/ Restart \/ \E c \in Conns : Down(c)
      /\ ~Live /\ lastErr \in Reasons /\ lastErr' # lastErr =>
           \/ Live' \/ Restart
           \/ \E c \in Conns : Down(c) \/ (UpFails(c) /\ thr[c].of = 0)
           \/ \E t \in Threads : RetryLater(t)
      /\ ~Live /\ lastErr # "none" /\ lastErr' = "none" =>
           \/ Live' \/ Restart \/ \E c \in Conns : Down(c)
<1>1. ASSUME IInv, [Next]_vars
      PROVE  Explained
  <2>1. ASSUME NEW t \in Threads, Step(t)
        PROVE  Explained
    BY <1>1, <2>1, StepExplains
  <2>2. CASE UNCHANGED <<sess, lastErr>>
    BY <2>2 DEF Live
  <2>3. ASSUME NEW c \in Conns, Request(c)
        PROVE  Explained
    BY <2>2, <2>3 DEF Request, Connect, RenewNow, session_vars
  <2>4. ASSUME NEW g \in Gens, TimerFires(g) \/ LoopEnds(g) \/ GiveReplacedBack(g)
        PROVE  Explained
    BY <2>2, <2>4 DEF TimerFires, LoopEnds, GiveReplacedBack, session_vars
  <2>5. CASE Shutdown
    BY <2>5 DEF Shutdown
  <2>6. ASSUME NEW p \in Servers \X Keys, ServerForgets(p)
        PROVE  Explained
    BY <2>2, <2>6 DEF ServerForgets, session_vars
  <2>7. CASE UNCHANGED vars
    BY <2>2, <2>7 DEF vars
  <2> QED
    BY <1>1, <2>1, <2>3, <2>4, <2>5, <2>6, <2>7 DEF Next, LoopStep, Threads
<1> QED
  BY <1>1, Invariance, PTL DEF Spec, DownIsExplained

\* A goroutine that is about to install or give back p answers for it.
AnswersFor(r, p) == r.pc \in {"install", "giveback"} /\ Peer(r.spec) = p

OfLive(p) == Live /\ Peer(specOf[sess]) = p

OfReplaced(p) == \E g \in givebacks : Peer(specOf[g]) = p

\* A session whose deregistration is under way was begun.
ReplacedWereBegun == \A g \in givebacks : thr[g] # Fresh

\* Who answers for a peer.
LEMMA Owners ==
    \A p : p \in OwnedPeers <=> \/ OfLive(p)
                                \/ OfReplaced(p)
                                \/ \E t \in Threads : AnswersFor(thr[t], p)
  BY DEF OwnedPeers, OfLive, OfReplaced, AnswersFor

\* One goroutine moves; what it, the live session or a deregistration no longer
\* answers for is stranded, or not the server's.
LEMMA OneAnswers ==
    ASSUME IInv, NothingLeftBehind, NEW t \in Threads, NEW r, thr' = [thr EXCEPT ![t] = r],
           UNCHANGED specOf, givebacks \subseteq givebacks',
           \A p \in peers' :
             \/ p \in stranded' \/ AnswersFor(r, p) \/ OfLive(p)' \/ OfReplaced(p)'
             \/ /\ p \in peers /\ p \notin stranded
                /\ ~AnswersFor(thr[t], p)
                /\ OfLive(p) => sess' = sess
    PROVE  NothingLeftBehind'
<1>1. thr'[t] = r /\ \A u \in Threads \ {t} : thr'[u] = thr[u]
  BY DEF IInv, Inside, InsideOK
<1>2. ASSUME NEW p, OfLive(p)' \/ OfReplaced(p)' \/ \E u \in Threads : AnswersFor(thr'[u], p)
      PROVE  p \in OwnedPeers'
  BY <1>2 DEF OwnedPeers, OfLive, OfReplaced, AnswersFor
<1>3. ASSUME NEW p \in peers, p \notin stranded, ~AnswersFor(thr[t], p),
             OfLive(p) => sess' = sess
      PROVE  p \in OwnedPeers'
  <2>1. CASE OfLive(p)
    BY <1>2, <1>3, <2>1 DEF OfLive, Live
  <2>2. CASE OfReplaced(p)
    BY <1>2, <2>2 DEF OfReplaced
  <2>3. ASSUME NEW u \in Threads, AnswersFor(thr[u], p)
        PROVE  p \in OwnedPeers'
    BY <1>1, <1>2, <1>3, <2>3
  <2> QED
    BY <1>3, <2>1, <2>2, <2>3, Owners DEF NothingLeftBehind
<1> QED
  BY <1>1, <1>2, <1>3 DEF NothingLeftBehind

\* The live session is an enrollment, and its loop was begun.
LEMMA LiveWasMade ==
    ASSUME IInv, Live
    PROVE  /\ sess \in Gens /\ sess \in Threads
           /\ thr[sess] # Fresh /\ specOf[sess] \in ConnectSpec
           /\ Peer(specOf[sess]) \in Servers \X Keys
  BY PeersArePairs DEF IInv, Inside, InsideOK, LiveSessionIsRenewed, Live, NoSess, Gens, Threads,
                       Fresh, Made

\* A goroutine's step, but an installation, leaves nothing behind.
LEMMA StepLeavesNothing ==
    ASSUME IInv, NothingLeftBehind, NEW t \in Threads, Step(t), ~Install(t)
    PROVE  NothingLeftBehind'
<1> USE ConstantsAssumption
<1>1. thr \in [Threads -> Thread] /\ thr[t] \in Thread
  BY DEF IInv, Inside, InsideOK
<1>2. Finished.pc = "done" /\ Fresh.pc = "new"
  BY DEF Finished, Fresh
<1>3. ASSUME NEW r, thr' = [thr EXCEPT ![t] = r], UNCHANGED <<sess, specOf, givebacks>>,
             \A p : AnswersFor(thr[t], p) => AnswersFor(r, p),
             \A p \in peers' : \/ p \in stranded' \/ AnswersFor(r, p)
                               \/ p \in peers /\ p \notin stranded
      PROVE  NothingLeftBehind'
  BY <1>3, OneAnswers
<1>4. CASE EnrollAnswered(t)
  <2> DEFINE r == [thr[t] EXCEPT !.pc = "install"]
  <2>1. r.pc = "install" /\ r.spec = thr[t].spec
    BY <1>1 DEF Thread
  <2> HIDE DEF r
  <2>2. \A p : AnswersFor(thr[t], p) => AnswersFor(r, p)
    BY <1>4, <2>1 DEF EnrollAnswered, AnswersFor
  <2>3. \A p \in peers' : \/ p \in stranded' \/ AnswersFor(r, p)
                          \/ p \in peers /\ p \notin stranded
    BY <1>4, <2>1 DEF EnrollAnswered, AnswersFor
  <2> QED
    BY <1>3, <1>4, <2>2, <2>3 DEF EnrollAnswered, session_vars, r
<1>5. CASE EnrollFails(t)
  <2>1. PICK r : thr' = [thr EXCEPT ![t] = r]
    BY <1>5 DEF EnrollFails
  <2> QED
    BY <1>3, <1>5, <2>1 DEF EnrollFails, session_vars, AnswersFor
<1>6. CASE GiveWay(t)
  <2>1. CASE IsLivePeer(Peer(thr[t].spec))
    <3>1. \A p : AnswersFor(thr[t], p) => OfLive(p)'
      BY <1>6, <2>1 DEF GiveWay, session_vars, AnswersFor, IsLivePeer, OfLive, Live
    <3>2. /\ thr' = [thr EXCEPT ![t] = Finished]
          /\ UNCHANGED <<sess, specOf, givebacks, peers, stranded>>
      BY <1>6, <2>1 DEF GiveWay, session_vars, server_vars
    <3> QED
      BY <3>1, <3>2, OneAnswers
  <2>2. CASE ~IsLivePeer(Peer(thr[t].spec))
    <3> DEFINE r == [thr[t] EXCEPT !.pc = "giveback"]
    <3>1. r.pc = "giveback" /\ r.spec = thr[t].spec
      BY <1>1 DEF Thread
    <3>2. /\ thr' = [thr EXCEPT ![t] = r]
          /\ UNCHANGED <<sess, specOf, givebacks, peers, stranded>>
      BY <1>6, <2>2 DEF GiveWay, session_vars, server_vars
    <3> HIDE DEF r
    <3> QED
      BY <1>3, <3>1, <3>2 DEF AnswersFor
  <2> QED
    BY <2>1, <2>2
<1>7. CASE UpFails(t)
  <2>1. \A p \in peers : AnswersFor(thr[t], p) => p \in stranded'
    BY <1>7 DEF UpFails, AnswersFor
  <2>2. /\ UNCHANGED <<peers, specOf>> /\ givebacks' = Replaced(Peer(thr[t].spec))
        /\ stranded \subseteq stranded' /\ thr' = [thr EXCEPT ![t] = Finished]
        /\ thr[t].pc = "install"
    BY <1>7 DEF UpFails, StopLocked
  <2>3. \A p \in peers : OfLive(p) => p \in stranded' \/ OfReplaced(p)'
    <3>1. ASSUME NEW p \in peers, OfLive(p)
          PROVE  p \in stranded' \/ OfReplaced(p)'
      <4>1. CASE IsLivePeer(Peer(thr[t].spec))
        BY <2>1, <2>2, <3>1, <4>1 DEF IsLivePeer, OfLive, AnswersFor
      <4>2. CASE ~IsLivePeer(Peer(thr[t].spec))
        BY <2>2, <3>1, <4>2 DEF Replaced, OfLive, OfReplaced
      <4> QED
        BY <4>1, <4>2
    <3> QED
      BY <3>1
  <2>4. givebacks \subseteq givebacks'
    BY <2>2 DEF Replaced
  <2> QED
    BY <2>1, <2>2, <2>3, <2>4, OneAnswers
<1>8. CASE GiveBack(t)
  <2> DEFINE q == Peer(thr[t].spec)
  <2>1. \/ peers' = peers \ {q} /\ stranded' = stranded \ {q}
        \/ peers' = peers /\ stranded' = stranded \cup (peers \cap {q})
    BY <1>8 DEF GiveBack, Deregister
  <2>2. \A p : AnswersFor(thr[t], p) => p = q
    BY DEF AnswersFor
  <2> HIDE DEF q
  <2>3. \A p \in peers' : /\ p \in peers
                          /\ AnswersFor(thr[t], p) => p \in stranded'
                          /\ p \in stranded => p \in stranded'
    BY <2>1, <2>2
  <2> QED
    BY <1>8, <2>3, OneAnswers DEF GiveBack, session_vars
<1>9. CASE HeartbeatTaken(t) \/ HeartbeatRefused(t) \/ HeartbeatUnanswered(t)
  <2>1. PICK pc : Answer(t, pc)
    BY <1>9 DEF HeartbeatTaken, HeartbeatRefused, HeartbeatUnanswered
  <2> DEFINE q == Peer(specOf[thr[t].of])
  <2>2. \/ peers' = peers \ {q} /\ stranded' = stranded \ {q}
        \/ UNCHANGED <<peers, stranded>>
    BY <1>9 DEF HeartbeatTaken, HeartbeatRefused, HeartbeatUnanswered, server_vars
  <2> HIDE DEF q
  <2>3. \A p \in peers' : p \in stranded' \/ (p \in peers /\ p \notin stranded)
    BY <2>2
  <2> QED
    BY <1>3, <2>1, <2>3 DEF Answer, session_vars, AnswersFor
<1>10. CASE Renewed(t) \/ RetryLater(t)
  BY <1>3, <1>10 DEF Renewed, RetryLater, session_vars, server_vars, AnswersFor
<1>11. CASE Reenroll(t)
  <2>1. PICK r : thr' = [thr EXCEPT ![t] = r]
    BY <1>1, <1>11 DEF Reenroll
  <2> QED
    BY <1>3, <1>11, <2>1 DEF Reenroll, session_vars, server_vars, AnswersFor
<1>12. CASE Refused(t) \/ ReenrollFailed(t)
  <2>1. /\ UNCHANGED <<peers, givebacks, specOf>> /\ thr' = [thr EXCEPT ![t] = Finished]
        /\ stranded \subseteq stranded' /\ thr[t].pc \in {"refused", "failed"}
    BY <1>12 DEF Refused, ReenrollFailed, Drop, StopLocked, session_vars
  <2>2. \A p \in peers : OfLive(p) => p \in stranded' \/ sess' = sess
    BY <1>12 DEF Refused, ReenrollFailed, Drop, session_vars, OfLive
  <2> QED
    BY <2>1, <2>2, OneAnswers DEF AnswersFor
<1> QED
  BY <1>4, <1>5, <1>6, <1>7, <1>8, <1>9, <1>10, <1>11, <1>12 DEF Step

\* A goroutine that was started does not start again in this process.
LEMMA StartedStays ==
    ASSUME IInv, [Next]_vars, ~Restart, NEW u \in Threads, thr[u] # Fresh
    PROVE  thr'[u] # Fresh
<1>1. thr \in [Threads -> Thread]
  BY DEF IInv, Inside, InsideOK
<1>2. Finished.pc = "done" /\ Fresh.pc = "new" /\ \A g : Waiting(g).pc = "wait"
  BY DEF Finished, Fresh, Waiting
<1>3. ASSUME NEW t \in Threads, NEW r, thr' = [thr EXCEPT ![t] = r], r.pc # "new"
      PROVE  thr'[u] # Fresh
  BY <1>1, <1>2, <1>3
<1>4. ASSUME NEW t \in Threads, NEW pc \in PCs \ {"new"}, thr' = [thr EXCEPT ![t].pc = pc]
      PROVE  thr'[u] # Fresh
  <2>1. [thr[t] EXCEPT !.pc = pc].pc = pc
    BY <1>1 DEF Thread
  <2> QED
    BY <1>3, <1>4, <2>1
<1>5. ASSUME NEW t \in Threads, Step(t)
      PROVE  thr'[u] # Fresh
  <2>1. CASE EnrollAnswered(t)
    BY <1>4, <2>1 DEF EnrollAnswered, PCs
  <2>2. CASE EnrollFails(t) \/ GiveWay(t)
    <3>1. \/ thr' = [thr EXCEPT ![t] = Finished]
          \/ \E pc \in {"failed", "giveback"} : thr' = [thr EXCEPT ![t].pc = pc]
      BY <2>2 DEF EnrollFails, GiveWay
    <3> QED
      BY <1>2, <1>3, <1>4, <3>1 DEF PCs
  <2>3. CASE Install(t)
    BY <1>1, <1>2, <2>3 DEF Install
  <2>4. CASE UpFails(t) \/ GiveBack(t) \/ Refused(t) \/ ReenrollFailed(t)
    BY <1>2, <1>3, <2>4 DEF UpFails, GiveBack, Refused, ReenrollFailed
  <2>5. CASE HeartbeatTaken(t) \/ HeartbeatRefused(t) \/ HeartbeatUnanswered(t)
    <3>1. PICK pc \in {"renewed", "forgotten", "refused", "unanswered"} : Answer(t, pc)
      BY <2>5 DEF HeartbeatTaken, HeartbeatRefused, HeartbeatUnanswered
    <3> QED
      BY <1>4, <3>1 DEF Answer, PCs
  <2>6. CASE Renewed(t) \/ RetryLater(t)
    BY <1>2, <1>3, <2>6 DEF Renewed, RetryLater, GoesOn
  <2>7. CASE Reenroll(t)
    <3>1. [thr[t] EXCEPT !.pc = "enroll", !.spec = specOf[thr[t].of]].pc = "enroll"
      BY <1>1 DEF Thread
    <3>2. thr' = [thr EXCEPT ![t] = [thr[t] EXCEPT !.pc = "enroll", !.spec = specOf[thr[t].of]]]
      BY <1>1, <2>7 DEF Reenroll
    <3> QED
      BY <1>3, <3>1, <3>2
  <2> QED
    BY <1>5, <2>1, <2>2, <2>3, <2>4, <2>5, <2>6, <2>7 DEF Step
<1>6. ASSUME NEW c \in Conns, Request(c)
      PROVE  thr'[u] # Fresh
  <2>1. c \in Threads
    BY DEF Threads
  <2>2. ASSUME NEW s \in ConnectSpec, Connect(c, s)
        PROVE  thr'[u] # Fresh
    BY <1>3, <2>1, <2>2 DEF Connect
  <2>3. ASSUME NEW b \in Bearers, RenewNow(c, b)
        PROVE  thr'[u] # Fresh
    BY <1>3, <2>1, <2>3 DEF RenewNow
  <2>4. CASE Down(c)
    <3> DEFINE r == IF Live THEN [pc |-> "giveback", of |-> 0, spec |-> specOf[sess]]
                            ELSE Finished
    <3>1. thr' = [thr EXCEPT ![c] = r] /\ r.pc # "new"
      BY <1>2, <2>4 DEF Down
    <3> HIDE DEF r
    <3> QED
      BY <1>3, <2>1, <3>1
  <2> QED
    BY <1>6, <2>2, <2>3, <2>4 DEF Request
<1>7. ASSUME NEW g \in Gens, TimerFires(g) \/ LoopEnds(g)
      PROVE  thr'[u] # Fresh
  <2>1. CASE TimerFires(g)
    BY <1>4, <2>1 DEF TimerFires, PCs, Threads
  <2>2. CASE LoopEnds(g)
    BY <1>2, <1>3, <2>2 DEF LoopEnds, Threads
  <2> QED
    BY <1>7, <2>1, <2>2
<1>8. CASE thr' = thr
  BY <1>8
<1> QED
  BY <1>5, <1>6, <1>7, <1>8 DEF Next, LoopStep, GiveReplacedBack, Shutdown, ServerForgets, vars, Threads

\* Every step keeps ReplacedWereBegun.
LEMMA ReplacedStayBegun ==
    ASSUME IInv, ReplacedWereBegun, [Next]_vars
    PROVE  ReplacedWereBegun'
<1>1. CASE Restart
  BY <1>1 DEF Restart, ReplacedWereBegun
<1>2. CASE ~Restart
  <2>1. Live => sess \in Threads /\ thr[sess] # Fresh
    BY LiveWasMade
  <2>2. \A g \in givebacks' : g \in givebacks \/ (Live /\ g = sess)
    <3>1. ASSUME NEW t \in Threads, Step(t)
          PROVE  \A g \in givebacks' : g \in givebacks \/ (Live /\ g = sess)
      BY <3>1 DEF Step, EnrollAnswered, EnrollFails, GiveWay, Install, UpFails, Replaced, GiveBack,
            HeartbeatTaken, HeartbeatRefused, HeartbeatUnanswered, Answer, Renewed, Reenroll,
            Refused, ReenrollFailed, RetryLater
    <3> QED
      BY <1>2, <3>1 DEF Next, LoopStep, Request, Connect, RenewNow, Down, TimerFires, LoopEnds,
            GiveReplacedBack, Shutdown, ServerForgets, vars, Threads
  <2>3. \A g \in givebacks' : g \in Threads /\ thr[g] # Fresh
    BY <2>1, <2>2 DEF IInv, OutsideOK, ReplacedWereBegun, Threads
  <2> QED
    BY <1>2, <2>3, StartedStays DEF ReplacedWereBegun
<1> QED
  BY <1>1, <1>2

\* An installation hands what the old session and its own goroutine answer for
\* to the deregistration and to the new session.
LEMMA InstallLeavesNothing ==
    ASSUME IInv, NothingLeftBehind, ReplacedWereBegun, NEW t \in Threads, Install(t)
    PROVE  NothingLeftBehind'
<1> USE ConstantsAssumption
<1> DEFINE g == GenStopped + 1
<1>0. PICK q : q = Peer(thr[t].spec)
  OBVIOUS
<1>1. /\ thr \in [Threads -> Thread] /\ specOf \in [Gens -> ConnectSpec \cup {NoSpec}]
      /\ givebacks \subseteq Gens
  BY DEF IInv, Inside, InsideOK, OutsideOK
<1>2. g \in Gens /\ g \in Threads /\ g # 0 /\ thr[g] = Fresh
  <2>1. gen \in Nat /\ g \in 1..MaxGen /\ g > gen
    BY DEF Install, IInv, Inside, InsideOK, GenStopped
  <2> QED
    BY <2>1 DEF IInv, Inside, Unbegun, Gens, Threads
<1>3. /\ thr' = [thr EXCEPT ![t] = Finished, ![g] = Waiting(g)]
      /\ specOf' = [specOf EXCEPT ![g] = thr[t].spec]
      /\ sess' = g /\ givebacks' = Replaced(q)
      /\ UNCHANGED <<peers, stranded>> /\ thr[t].pc = "install"
  BY <1>0 DEF Install, server_vars
<1> HIDE DEF g
<1>4. \A h \in Gens \ {g} : specOf'[h] = specOf[h]
  BY <1>1, <1>3
<1>5. OfLive(q)'
  BY <1>0, <1>1, <1>2, <1>3 DEF OfLive, Live, NoSess
<1>6. ASSUME NEW p, OfLive(p)' \/ OfReplaced(p)' \/ \E u \in Threads : AnswersFor(thr'[u], p)
      PROVE  p \in OwnedPeers'
  BY <1>6 DEF OwnedPeers, OfLive, OfReplaced, AnswersFor
<1>7. ASSUME NEW p \in peers, OfLive(p)
      PROVE  p \in OwnedPeers'
  <2>1. sess \in Gens \ {g}
    BY <1>2, <1>7, LiveWasMade DEF OfLive
  <2>2. CASE IsLivePeer(q)
    BY <1>5, <1>6, <1>7, <2>2 DEF IsLivePeer, OfLive
  <2>3. CASE ~IsLivePeer(q)
    BY <1>3, <1>4, <1>6, <1>7, <2>1, <2>3 DEF Replaced, OfLive, OfReplaced
  <2> QED
    BY <2>2, <2>3
<1>8. ASSUME NEW p \in peers, OfReplaced(p)
      PROVE  p \in OwnedPeers'
  <2>1. PICK h \in givebacks : Peer(specOf[h]) = p
    BY <1>8 DEF OfReplaced
  <2>2. h \in Gens \ {g} /\ h \in givebacks'
    BY <1>1, <1>2, <1>3 DEF ReplacedWereBegun, Replaced
  <2> QED
    BY <1>4, <1>6, <2>1, <2>2 DEF OfReplaced
<1>9. ASSUME NEW p \in peers, NEW u \in Threads, AnswersFor(thr[u], p)
      PROVE  p \in OwnedPeers'
  <2>1. CASE u = t
    BY <1>0, <1>5, <1>6, <1>9, <2>1 DEF AnswersFor
  <2>2. CASE u # t
    <3>1. u # g
      BY <1>2, <1>9 DEF AnswersFor, Fresh
    <3> QED
      BY <1>1, <1>3, <1>6, <1>9, <2>2, <3>1
  <2> QED
    BY <2>1, <2>2
<1> QED
  BY <1>3, <1>7, <1>8, <1>9, Owners DEF NothingLeftBehind

\* A request of the app leaves nothing behind.
LEMMA RequestLeavesNothing ==
    ASSUME IInv, NothingLeftBehind, NEW c \in Conns, Request(c)
    PROVE  NothingLeftBehind'
<1> USE ConstantsAssumption
<1>1. c \in Threads /\ thr \in [Threads -> Thread] /\ \A p : ~AnswersFor(Fresh, p)
  BY DEF IInv, Inside, InsideOK, Threads, AnswersFor, Fresh
<1>2. ASSUME NEW s \in ConnectSpec, Connect(c, s)
      PROVE  NothingLeftBehind'
  BY <1>1, <1>2, OneAnswers DEF Connect, server_vars, session_vars
<1>3. ASSUME NEW b \in Bearers, RenewNow(c, b)
      PROVE  NothingLeftBehind'
  <2>1. sess \in Gens /\ specOf[sess] \in ConnectSpec
        /\ specOf \in [Gens -> ConnectSpec \cup {NoSpec}] /\ givebacks \subseteq Gens
    BY <1>3, LiveWasMade DEF RenewNow, IInv, Inside, InsideOK, OutsideOK
  <2>2. \A h \in Gens : Peer(specOf'[h]) = Peer(specOf[h])
    BY <1>3, <2>1 DEF RenewNow, Peer, ConnectSpec
  <2>3. \A u \in Threads \ {c} : thr'[u] = thr[u]
    BY <1>1, <1>3 DEF RenewNow
  <2>4. \A p \in OwnedPeers : p \in OwnedPeers'
    <3>1. ASSUME NEW p, \/ OfLive(p)' \/ OfReplaced(p)'
                        \/ \E u \in Threads : AnswersFor(thr'[u], p)
          PROVE  p \in OwnedPeers'
      BY <3>1 DEF OwnedPeers, OfLive, OfReplaced, AnswersFor
    <3>2. ASSUME NEW p, OfLive(p)
          PROVE  p \in OwnedPeers'
      BY <1>3, <2>1, <2>2, <3>1, <3>2 DEF RenewNow, OfLive, Live
    <3>3. ASSUME NEW p, OfReplaced(p)
          PROVE  p \in OwnedPeers'
      BY <1>3, <2>1, <2>2, <3>1, <3>3 DEF RenewNow, OfReplaced
    <3>4. ASSUME NEW p, NEW u \in Threads, AnswersFor(thr[u], p)
          PROVE  p \in OwnedPeers'
      BY <1>1, <1>3, <2>3, <3>1, <3>4 DEF RenewNow
    <3> QED
      BY <3>2, <3>3, <3>4, Owners
  <2> QED
    BY <1>3, <2>4 DEF RenewNow, server_vars, NothingLeftBehind
<1>4. CASE Down(c)
  <2> DEFINE r == IF Live THEN [pc |-> "giveback", of |-> 0, spec |-> specOf[sess]] ELSE Finished
  <2>1. \A p : OfLive(p) => AnswersFor(r, p)
    BY DEF OfLive, AnswersFor
  <2>2. /\ thr' = [thr EXCEPT ![c] = r] /\ thr[c] = Fresh
        /\ UNCHANGED <<specOf, givebacks, peers, stranded>>
    BY <1>4 DEF Down, StopLocked, server_vars
  <2> HIDE DEF r
  <2> QED
    BY <1>1, <2>1, <2>2, OneAnswers
<1> QED
  BY <1>2, <1>3, <1>4 DEF Request

\* A loop's timer and its end leave nothing behind.
LEMMA LoopLeavesNothing ==
    ASSUME IInv, NothingLeftBehind, NEW g \in Gens, TimerFires(g) \/ LoopEnds(g)
    PROVE  NothingLeftBehind'
<1>1. PICK r : thr' = [thr EXCEPT ![g] = r]
  BY DEF TimerFires, LoopEnds
<1>2. \A p : ~AnswersFor(thr[g], p)
  BY DEF TimerFires, LoopEnds, AnswersFor
<1>3. UNCHANGED <<sess, specOf, givebacks, peers, stranded>> /\ g \in Threads
  BY DEF TimerFires, LoopEnds, session_vars, server_vars, Threads
<1> QED
  BY <1>1, <1>2, <1>3, OneAnswers

\* A deregistration that is over leaves its session's lease given back, or
\* stranded.
LEMMA GivenBackLeavesNothing ==
    ASSUME IInv, NothingLeftBehind, NEW g \in Gens, GiveReplacedBack(g)
    PROVE  NothingLeftBehind'
<1>1. PICK q : q = Peer(specOf[g])
  OBVIOUS
<1>2. \/ peers' = peers \ {q} /\ stranded' = stranded \ {q}
      \/ peers' = peers /\ stranded' = stranded \cup (peers \cap {q})
  BY <1>1 DEF GiveReplacedBack, Deregister
<1>3. UNCHANGED <<sess, specOf, thr>> /\ givebacks' = givebacks \ {g}
  BY DEF GiveReplacedBack, session_vars
<1>4. \A p \in OwnedPeers \ {q} : p \in OwnedPeers'
  BY <1>1, <1>3 DEF OwnedPeers, Live
<1> QED
  BY <1>2, <1>4 DEF NothingLeftBehind

\* Whatever the goroutines, the server and the app do, and in whatever order, a
\* lease on a server is the live session's, or somebody is about to give it
\* back, but for those that a failure left there.
THEOREM NothingLeftBehindCorrect == Spec => []NothingLeftBehind
<1>1. Init => NothingLeftBehind /\ ReplacedWereBegun
  BY DEF Init, NothingLeftBehind, ReplacedWereBegun
<1>2. ASSUME IInv, NothingLeftBehind, ReplacedWereBegun, [Next]_vars
      PROVE  NothingLeftBehind'
  <2>1. ASSUME NEW t \in Threads, Step(t)
        PROVE  NothingLeftBehind'
    BY <1>2, <2>1, StepLeavesNothing, InstallLeavesNothing
  <2>2. CASE Shutdown
    <3>1. thr' = [thr EXCEPT ![sess] = thr[sess]] /\ sess \in Threads
      BY <1>2, <2>2, LiveWasMade DEF Shutdown, IInv, Inside, InsideOK
    <3>2. /\ UNCHANGED <<peers, specOf, givebacks>> /\ stranded \subseteq stranded'
          /\ \A p \in peers : OfLive(p) => p \in stranded'
      BY <2>2 DEF Shutdown, StopLocked, OfLive
    <3> QED
      BY <1>2, <3>1, <3>2, OneAnswers
  <2>3. CASE Restart
    BY <2>3 DEF Restart, NothingLeftBehind
  <2>4. ASSUME NEW p \in Servers \X Keys, ServerForgets(p)
        PROVE  NothingLeftBehind'
    <3>1. OwnedPeers' = OwnedPeers
      BY <2>4 DEF ServerForgets, session_vars, OwnedPeers, Live
    <3> QED
      BY <1>2, <2>4, <3>1 DEF ServerForgets, NothingLeftBehind
  <2>5. CASE UNCHANGED vars
    BY <1>2, <2>5 DEF vars, NothingLeftBehind, OwnedPeers, Live
  <2> QED
    BY <1>2, <2>1, <2>2, <2>3, <2>4, <2>5, RequestLeavesNothing, LoopLeavesNothing,
       GivenBackLeavesNothing DEF Next, LoopStep, Threads
<1>3. IInv /\ ReplacedWereBegun /\ [Next]_vars => ReplacedWereBegun'
  BY ReplacedStayBegun
<1> QED
  BY <1>1, <1>2, <1>3, Invariance, PTL DEF Spec
=============================================================================
