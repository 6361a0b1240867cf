--------------------------- MODULE AppCore_proofs ---------------------------
(***************************************************************************)
(* Proofs about AppCore, for any number of calls, windows and loops, any   *)
(* people and tenants, with a key registry and without.                    *)
(*                                                                         *)
(* IInv adds to the invariants of AppCore what each kind of goroutine may  *)
(* be at and carry (Proper), and who has which refresh token (Tokens): one *)
(* that was issued to a goroutine and is not saved yet is that goroutine's *)
(* alone.                                                                  *)
(***************************************************************************)
EXTENDS AppCore, TLAPS

CallPCs == {"idle", "done", "signIn", "forget", "save", "chosen", "load", "register",
            "refresh", "bearer", "offer", "require", "connected", "down", "clear"}
PollPCs == {"look", "ask", "show"}
LoopPCs == {"done", "ask", "wait", "load", "register", "refresh", "save", "bearer", "end"}

\* A sign-in and what comes after session have a session.
HasSession(r) ==
    \/ r.pc \in {"register", "refresh", "save", "bearer", "offer"}
    \/ r.pc = "forget" /\ r.op = "login"

\* What a goroutine t may be, r.
Proper(t, r) ==
    /\ r \in Thread
    /\ HasSession(r) => r.sess \in Session
    /\ t \in Calls => r.pc \in CallPCs /\ r.op \notin {"status", "renew"}
    /\ t \in Polls => r.pc \in PollPCs /\ r.op = "status"
    /\ t \in Loops => r.pc \in LoopPCs /\ r.op = "renew"
    /\ r.pc = "signIn" => r.pick \in People
    /\ r.pc = "load" /\ r.op = "setTenant" => r.pick \in Tenants \cup {None}
    /\ r.pc \in {"ask", "show"} /\ t \in Polls => r.pick \in BOOLEAN

Goroutines ==
    /\ thr \in [Threads -> Thread]
    /\ \A t \in Threads : Proper(t, thr[t])

Holding ==
    /\ stopRenew \in Loops \cup {NoLoop}
    /\ stopped \subseteq Loops
    /\ OneLoopIsHeld

\* The file, the provider's tokens and what the calls leave behind.
Data ==
    /\ stored \in Session \cup {None}
    /\ issued \in 0..MaxTokens
    /\ unspent \subseteq 1..issued
    /\ up \in BOOLEAN
    /\ offered \subseteq Tenants
    /\ required \in BOOLEAN

\* A goroutine with a token issued to it that it has yet to save.
Carries(r) ==
    \/ r.pc = "refresh"
    \/ r.pc = "save" /\ r.op # "setTenant"
    \/ r.pc = "forget" /\ r.op = "login"

\* No token is anywhere before it is issued.
TokensAreIssued ==
    /\ stored # None => stored.refresh <= issued
    /\ \A t \in Threads : thr[t].sess # None => thr[t].sess.refresh <= issued

\* A token not saved yet is unspent, and neither the file nor any other
\* goroutine has it: nobody else can spend it.
CarriedTokensAreOwn ==
    \A t \in Threads : Carries(thr[t]) =>
        /\ thr[t].sess.refresh \in unspent
        /\ stored # None => stored.refresh # thr[t].sess.refresh
        /\ \A u \in Threads \ {t} :
             thr[u].sess # None => thr[u].sess.refresh # thr[t].sess.refresh

Tokens == TokensAreIssued /\ CarriedTokensAreOwn

IInv == Goroutines /\ Holding /\ Data /\ Tokens

-----------------------------------------------------------------------------
\* Of the goroutines, t moves.
OnlyMoves(t) ==
    /\ thr' \in [Threads -> Thread]
    /\ \A u \in Threads \ {t} : thr'[u] = thr[u]

\* What a goroutine t becomes, r, when no token is issued: its session is the
\* one it had, or the file's, and nothing of the file's is yet to be saved.
Keeps(t, r) ==
    /\ \/ r.sess = None
       \/ r.sess = thr[t].sess
       \/ stored # None /\ r.sess.refresh = stored.refresh /\ ~Carries(r)
    /\ Carries(r) => Carries(thr[t]) /\ r.sess = thr[t].sess

\* A loop does not end, nor begin.
SameLoop(t, r) == t \in Loops => (r.pc = "done" <=> thr[t].pc = "done")

\* A goroutine that moves to where it may be.
LEMMA GoroutinesStay ==
    ASSUME Goroutines, NEW t \in Threads, OnlyMoves(t), Proper(t, thr'[t])
    PROVE  Goroutines'
<1>1. \A u \in Threads : Proper(u, thr'[u])
  BY DEF Goroutines, OnlyMoves
<1> QED
  BY <1>1 DEF Goroutines, OnlyMoves, Proper, HasSession

\* No loop begins or ends, and stopRenew stays.
LEMMA HoldingStays ==
    ASSUME Goroutines, Holding, NEW t \in Threads, OnlyMoves(t), SameLoop(t, thr'[t]),
           UNCHANGED <<stopRenew, stopped>>
    PROVE  Holding'
<1>1. \A l \in Loops : l \in Threads /\ (thr'[l].pc = "done" <=> thr[l].pc = "done")
  BY DEF OnlyMoves, SameLoop, Threads
<1> QED
  BY <1>1 DEF Holding, OneLoopIsHeld, NoLoop

\* A goroutine that keeps what it had, or loads the file, disturbs no token.
LEMMA TokensStay ==
    ASSUME Goroutines, Tokens, NEW t \in Threads, OnlyMoves(t), Keeps(t, thr'[t]),
           UNCHANGED <<issued, unspent>>, stored' \in {stored, None}
    PROVE  Tokens'
<1>1. \A u \in Threads \ {t} : thr'[u] = thr[u]
  BY DEF OnlyMoves
<1>2. TokensAreIssued'
  BY <1>1 DEF Tokens, TokensAreIssued, Keeps
<1>3. CarriedTokensAreOwn'
  <2> SUFFICES ASSUME NEW u \in Threads, Carries(thr'[u])
               PROVE  /\ thr'[u].sess.refresh \in unspent
                      /\ stored' # None => stored'.refresh # thr'[u].sess.refresh
                      /\ \A v \in Threads \ {u} :
                           thr'[v].sess # None => thr'[v].sess.refresh # thr'[u].sess.refresh
    BY DEF CarriedTokensAreOwn, Carries
  <2>1. Carries(thr[u]) /\ thr'[u].sess = thr[u].sess
    BY <1>1 DEF Keeps
  <2>2. /\ thr[u].sess.refresh \in unspent
        /\ stored # None => stored.refresh # thr[u].sess.refresh
        /\ \A v \in Threads \ {u} :
             thr[v].sess # None => thr[v].sess.refresh # thr[u].sess.refresh
    BY <2>1 DEF Tokens, CarriedTokensAreOwn
  <2>3. ASSUME NEW v \in Threads \ {u}, thr'[v].sess # None
        PROVE  thr'[v].sess.refresh # thr[u].sess.refresh
    <3>1. CASE v = t
      BY <1>1, <2>2, <2>3, <3>1 DEF Keeps
    <3>2. CASE v # t
      BY <1>1, <2>2, <2>3, <3>2
    <3> QED
      BY <3>1, <3>2
  <2> QED
    BY <2>1, <2>2, <2>3
<1> QED
  BY <1>2, <1>3 DEF Tokens

\* What a step leaves of the file and of what the calls leave behind, when no
\* token is issued and stopRenew is not touched.
Quiet ==
    /\ UNCHANGED <<issued, unspent, stopRenew, stopped>>
    /\ stored' \in {stored, None}
    /\ up' \in BOOLEAN
    /\ offered' \subseteq Tenants
    /\ required' \in BOOLEAN

\* One goroutine moves; no token is issued and no loop begins or ends.
LEMMA Advances ==
    ASSUME IInv, NEW t \in Threads, OnlyMoves(t), Proper(t, thr'[t]), SameLoop(t, thr'[t]),
           Keeps(t, thr'[t]), Quiet
    PROVE  IInv'
<1>1. Goroutines'
  BY GoroutinesStay DEF IInv
<1>2. Holding'
  BY HoldingStays DEF IInv, Quiet
<1>3. Tokens'
  BY TokensStay DEF IInv, Quiet
<1>4. Data'
  BY DEF IInv, Data, Quiet
<1> QED
  BY <1>1, <1>2, <1>3, <1>4 DEF IInv

\* t with its pc at to.
Moved(t, to) == [pc |-> to, op |-> thr[t].op, sess |-> thr[t].sess, pick |-> thr[t].pick]

LEMMA GoesMoves ==
    ASSUME Goroutines, NEW t \in Threads, NEW from, NEW to \in PCs, Goes(t, from, to)
    PROVE  OnlyMoves(t) /\ thr'[t] = Moved(t, to) /\ thr[t].pc = from
<1>1. thr[t] \in Thread /\ thr \in [Threads -> Thread]
  BY DEF Goroutines
<1>2. Moved(t, to) \in Thread /\ [thr[t] EXCEPT !.pc = to] = Moved(t, to)
  BY <1>1 DEF Thread, Moved
<1> QED
  BY <1>1, <1>2 DEF Goes, OnlyMoves

\* A goroutine goes on, with all it has; what the step it comes to asks of
\* its operation, its session and its choice is there.
LEMMA GoesOn ==
    ASSUME IInv, NEW t \in Threads, NEW from, NEW to \in PCs, Goes(t, from, to),
           Proper(t, Moved(t, to)), SameLoop(t, Moved(t, to)),
           Carries(Moved(t, to)) => Carries(thr[t]), Quiet
    PROVE  IInv'
<1>1. OnlyMoves(t) /\ thr'[t] = Moved(t, to)
  BY GoesMoves DEF IInv
<1>2. Keeps(t, Moved(t, to))
  BY DEF Keeps, Moved
<1> QED
  BY <1>1, <1>2, Advances

\* Calls and loops are apart.
LEMMA Kinds ==
    ASSUME Goroutines
    PROVE  /\ \A a \in Calls : /\ a \in Threads /\ a \notin Polls /\ a \notin Loops
                               /\ thr[a].op \notin {"status", "renew"}
           /\ \A s \in Polls : s \in Threads /\ s \notin Calls /\ s \notin Loops
           /\ \A l \in Loops : /\ l \in Threads /\ l \notin Polls /\ l \notin Calls
                               /\ thr[l].op = "renew"
  BY AppAssumption DEF Threads, Goroutines, Proper

\* Where a session that failed leaves a call or a loop.
LEMMA FailedMoves ==
    ASSUME Goroutines, NEW t \in Calls \cup Loops, Failed(t), thr[t].pc # "done"
    PROVE  OnlyMoves(t) /\ Proper(t, thr'[t]) /\ SameLoop(t, thr'[t]) /\ thr'[t].sess = None
           /\ ~Carries(thr'[t])
<1>1. t \in Threads /\ thr[t] \in Thread /\ thr \in [Threads -> Thread] /\ Proper(t, thr[t])
  BY DEF Threads, Goroutines
<1>2. AfterFailure(thr[t].op) \in {"done", "ask", "require"}
  BY DEF AfterFailure
<1>3. /\ thr'[t].pc = AfterFailure(thr[t].op)
      /\ thr'[t].sess = None
      /\ thr'[t].op = thr[t].op
      /\ thr'[t].pick = thr[t].pick
  BY <1>1 DEF Failed, Thread
<1>4. thr'[t] \in Thread
  BY <1>1, <1>2 DEF Failed, Thread, PCs
<1>5. OnlyMoves(t)
  BY <1>1, <1>4 DEF Failed, OnlyMoves
<1>6. Proper(t, thr'[t])
  BY <1>1, <1>3, <1>4, Kinds DEF Proper, HasSession, AfterFailure, CallPCs, LoopPCs
<1>7. SameLoop(t, thr'[t]) /\ ~Carries(thr'[t])
  BY <1>2, <1>3, Kinds DEF SameLoop, Carries, AfterFailure
<1> QED
  BY <1>3, <1>5, <1>6, <1>7

-----------------------------------------------------------------------------
\* The person's calls begin: a goroutine without a session yet.
LEMMA Begins ==
    ASSUME IInv, NEW a \in Calls, NEW r \in Thread, thr' = [thr EXCEPT ![a] = r],
           r.pc \in {"signIn", "load", "down"}, r.op \notin {"status", "renew"}, r.sess = None,
           r.pc = "signIn" => r.pick \in People,
           r.op = "setTenant" => r.pick \in Tenants \cup {None}
    PROVE  OnlyMoves(a) /\ Proper(a, thr'[a]) /\ SameLoop(a, thr'[a]) /\ Keeps(a, thr'[a])
<1>1. a \in Threads /\ a \notin Polls /\ a \notin Loops
  BY Kinds DEF IInv
<1>2. OnlyMoves(a) /\ thr'[a] = r
  BY <1>1 DEF IInv, Goroutines, OnlyMoves
<1>3. Proper(a, r)
  BY <1>1 DEF Proper, HasSession, CallPCs
<1>4. Keeps(a, r)
  BY DEF Keeps, Carries
<1> QED
  BY <1>1, <1>2, <1>3, <1>4 DEF SameLoop

LEMMA CallNext ==
    ASSUME IInv, NEW a \in Calls, Call(a)
    PROVE  IInv'
<1> USE DEF file_vars, core_vars
<1>0. a \in Threads
  BY Kinds DEF IInv
<1>q. UNCHANGED <<file_vars, core_vars, up>> => Quiet
  BY DEF IInv, Data, Quiet
<1>1. ASSUME NEW p \in People, Login(a, p)
      PROVE  IInv'
  <2> DEFINE r == [pc |-> "signIn", op |-> "login", sess |-> None, pick |-> p]
  <2>1. r \in Thread /\ [At("signIn", "login") EXCEPT !.pick = p] = r
    BY DEF Thread, PCs, Ops, At
  <2> QED
    BY <1>0, <1>1, <1>q, <2>1, Begins, Advances DEF Login
<1>2. ASSUME NEW n \in Tenants \cup {None}, SetTenant(a, n)
      PROVE  IInv'
  <2> DEFINE r == [pc |-> "load", op |-> "setTenant", sess |-> None, pick |-> n]
  <2>1. r \in Thread /\ [At("load", "setTenant") EXCEPT !.pick = n] = r
    BY DEF Thread, PCs, Ops, At
  <2> QED
    BY <1>0, <1>2, <1>q, <2>1, Begins, Advances DEF SetTenant
<1>3. CASE ListTenants(a)
  <2>1. At("load", "tenants") \in Thread
    BY DEF Thread, PCs, Ops, At
  <2> QED
    BY <1>0, <1>3, <1>q, <2>1, Begins, Advances DEF ListTenants, Begin, At
<1>4. CASE Connect(a)
  <2>1. At("load", "connect") \in Thread
    BY DEF Thread, PCs, Ops, At
  <2> QED
    BY <1>0, <1>4, <1>q, <2>1, Begins, Advances DEF Connect, Begin, At
<1>5. ASSUME NEW op \in {"disconnect", "logout"}, Stop(a, op)
      PROVE  IInv'
  <2>1. At("down", op) \in Thread
    BY DEF Thread, PCs, Ops, At
  <2>2. /\ OnlyMoves(a) /\ Proper(a, thr'[a]) /\ Keeps(a, thr'[a])
        /\ stopped' = stopped \cup ({stopRenew} \ {NoLoop})
        /\ stopRenew' = NoLoop
        /\ UNCHANGED <<stored, issued, unspent, offered, required, up>>
    BY <1>5, <2>1, Begins DEF Stop, Begin, StopLoop, At
  <2>3. Goroutines' /\ Tokens'
    BY <1>0, <2>2, GoroutinesStay, TokensStay DEF IInv
  <2>4. Data'
    BY <2>2 DEF IInv, Data
  <2>5. \A l \in Loops : l \in Threads /\ l # a /\ thr'[l] = thr[l] /\ l # NoLoop
    BY <2>2, Kinds DEF IInv, OnlyMoves, Loops, NoLoop
  <2>6. Holding'
    BY <2>2, <2>5 DEF IInv, Holding, OneLoopIsHeld
  <2> QED
    BY <2>3, <2>4, <2>6 DEF IInv
<1> QED
  BY <1>1, <1>2, <1>3, <1>4, <1>5 DEF Call

-----------------------------------------------------------------------------
\* A token is issued, for another that t had or for none: t alone has it, and
\* what t had is not one that others carry.
LEMMA TokenIsIssued ==
    ASSUME IInv, NEW t \in Threads, OnlyMoves(t),
           NEW spent, unspent' = (unspent \ spent) \cup {issued + 1},
           spent = {} \/ (thr[t].sess # None /\ spent = {thr[t].sess.refresh}),
           issued' = issued + 1, stored' = stored,
           thr'[t].sess = None \/ thr'[t].sess.refresh = issued + 1,
           Carries(thr'[t]) => thr'[t].sess.refresh = issued + 1
    PROVE  Tokens'
<1>1. \A u \in Threads \ {t} : thr'[u] = thr[u]
  BY DEF OnlyMoves
<1>2. issued \in Nat /\ unspent \subseteq 1..issued
  BY AppAssumption DEF IInv, Data
<1>3. stored # None => stored.refresh \in Nat /\ stored.refresh <= issued
  BY AppAssumption DEF IInv, Data, Tokens, TokensAreIssued, Session
<1>4. \A u \in Threads : thr[u].sess # None => thr[u].sess.refresh \in Nat /\ thr[u].sess.refresh <= issued
  BY AppAssumption DEF IInv, Goroutines, Tokens, TokensAreIssued, Session, Thread
<1>5. TokensAreIssued'
  BY <1>1, <1>2, <1>3, <1>4 DEF TokensAreIssued
<1>6. CarriedTokensAreOwn'
  <2> SUFFICES ASSUME NEW u \in Threads, Carries(thr'[u])
               PROVE  /\ thr'[u].sess.refresh \in unspent'
                      /\ stored # None => stored.refresh # thr'[u].sess.refresh
                      /\ \A v \in Threads \ {u} :
                           thr'[v].sess # None => thr'[v].sess.refresh # thr'[u].sess.refresh
    BY DEF CarriedTokensAreOwn, Carries
  <2>1. CASE u = t
    <3>1. thr'[u].sess.refresh = issued + 1
      BY <2>1
    <3>2. \A v \in Threads \ {u} : thr'[v] = thr[v]
      BY <1>1, <2>1
    <3> QED
      BY <1>2, <1>3, <1>4, <3>1, <3>2
  <2>2. CASE u # t
    <3>1. Carries(thr[u]) /\ thr'[u] = thr[u]
      BY <1>1, <2>2
    <3>2. /\ thr[u].sess.refresh \in unspent
          /\ stored # None => stored.refresh # thr[u].sess.refresh
          /\ \A v \in Threads \ {u} :
               thr[v].sess # None => thr[v].sess.refresh # thr[u].sess.refresh
      BY <3>1 DEF IInv, Tokens, CarriedTokensAreOwn
    <3>3. thr[u].sess.refresh \notin spent
      BY <2>2, <3>2
    <3>4. thr[u].sess.refresh # issued + 1
      BY <1>2, <3>2
    <3> QED
      BY <1>1, <3>1, <3>2, <3>3, <3>4
  <2> QED
    BY <2>1, <2>2
<1> QED
  BY <1>5, <1>6 DEF Tokens

\* The provider gives t another token; nothing else changes.
LEMMA Rotates ==
    ASSUME IInv, NEW t \in Threads, OnlyMoves(t), Proper(t, thr'[t]), SameLoop(t, thr'[t]),
           thr[t].sess \in Session, Rotate(thr[t].sess.refresh),
           UNCHANGED <<stored, core_vars, up>>,
           thr'[t].sess = None \/ thr'[t].sess.refresh = issued',
           Carries(thr'[t]) => thr'[t].sess.refresh = issued'
    PROVE  IInv'
<1>1. Goroutines' /\ Holding'
  BY GoroutinesStay, HoldingStays DEF IInv, core_vars
<1>2. /\ issued' = issued + 1
      /\ unspent' = (unspent \ {thr[t].sess.refresh}) \cup {issued + 1}
      /\ issued < MaxTokens
  BY DEF Rotate
<1>3. Data'
  <2>1. issued' \in 0..MaxTokens
    BY <1>2, AppAssumption DEF IInv, Data
  <2>2. unspent' \subseteq 1..issued'
    <3>1. issued \in Nat /\ unspent \subseteq 1..issued
      BY AppAssumption DEF IInv, Data
    <3>2. \A n \in unspent' : n \in 1..issued \/ n = issued + 1
      BY <1>2, <3>1
    <3>3. 1..issued \subseteq 1..(issued + 1) /\ issued + 1 \in 1..(issued + 1)
      BY <3>1
    <3> QED
      BY <1>2, <3>2, <3>3
  <2> QED
    BY <2>1, <2>2 DEF IInv, Data, core_vars
<1>4. Tokens'
  <2>1. thr[t].sess # None
    BY NoneAssumption
  <2> QED
    BY <1>2, <2>1, TokenIsIssued
<1> QED
  BY <1>1, <1>3, <1>4 DEF IInv

\* The steps of session, of a call or a loop.
LEMMA SessionNext ==
    ASSUME IInv, NEW t \in Calls \cup Loops, SessionStep(t)
    PROVE  IInv'
<1>0. /\ t \in Threads /\ thr[t] \in Thread /\ thr \in [Threads -> Thread]
      /\ Proper(t, thr[t]) /\ t \notin Polls
      /\ HasSession(thr[t]) => thr[t].sess \in Session
  BY Kinds DEF Threads, IInv, Goroutines, Proper
<1>q. UNCHANGED <<file_vars, core_vars, up>> => Quiet
  BY DEF IInv, Data, Quiet, file_vars, core_vars
<1>f. ASSUME Failed(t), thr[t].pc # "done", Quiet
      PROVE  IInv'
  <2>1. /\ OnlyMoves(t) /\ Proper(t, thr'[t]) /\ SameLoop(t, thr'[t])
        /\ thr'[t].sess = None /\ ~Carries(thr'[t])
    BY <1>f, FailedMoves DEF IInv
  <2> QED
    BY <1>0, <1>f, <2>1, Advances DEF Keeps
<1>1. CASE Load(t)
  <2>1. CASE Failed(t)
    BY <1>1, <1>f, <1>q, <2>1 DEF Load
  <2>2. ASSUME stored # None, thr[t].op = "setTenant",
               thr' = [thr EXCEPT ![t].pc = "save",
                                  ![t].sess = [stored EXCEPT !.tenant = thr[t].pick]]
        PROVE  IInv'
    <3>1. [stored EXCEPT !.tenant = thr[t].pick] \in Session
          /\ [stored EXCEPT !.tenant = thr[t].pick].refresh = stored.refresh
      BY <1>0, <1>1, <2>2 DEF IInv, Data, Session, Load, Proper
    <3>2. /\ thr'[t].pc = "save" /\ thr'[t].op = thr[t].op /\ thr'[t].pick = thr[t].pick
          /\ thr'[t].sess = [stored EXCEPT !.tenant = thr[t].pick]
      BY <1>0, <2>2 DEF Thread
    <3>3. thr'[t] \in Thread
      BY <1>0, <2>2, <3>1 DEF Thread, PCs
    <3>4. OnlyMoves(t)
      BY <1>0, <2>2, <3>3 DEF OnlyMoves
    <3>5. Proper(t, thr'[t]) /\ SameLoop(t, thr'[t])
      BY <1>0, <1>1, <3>1, <3>2, <3>3 DEF Proper, CallPCs, LoopPCs, SameLoop, Load
    <3>6. Keeps(t, thr'[t])
      BY <2>2, <3>1, <3>2 DEF Keeps, Carries
    <3> QED
      BY <1>0, <1>1, <1>q, <3>4, <3>5, <3>6, Advances DEF Load
  <2>3. ASSUME stored # None, thr[t].op # "setTenant",
               thr' = [thr EXCEPT ![t].pc = IF KeyRegistry THEN "register" ELSE "bearer",
                                  ![t].sess = stored]
        PROVE  IInv'
    <3> DEFINE to == IF KeyRegistry THEN "register" ELSE "bearer"
    <3>1. stored \in Session /\ to \in {"register", "bearer"}
      BY <2>3 DEF IInv, Data
    <3>2. /\ thr'[t].pc = to /\ thr'[t].op = thr[t].op /\ thr'[t].pick = thr[t].pick
          /\ thr'[t].sess = stored
      BY <1>0, <2>3 DEF Thread
    <3>3. thr'[t] \in Thread
      BY <1>0, <2>3, <3>1 DEF Thread, PCs
    <3>4. OnlyMoves(t)
      BY <1>0, <2>3, <3>3 DEF OnlyMoves
    <3> HIDE DEF to
    <3>5. Proper(t, thr'[t]) /\ SameLoop(t, thr'[t])
      BY <1>0, <1>1, <3>1, <3>2, <3>3 DEF Proper, CallPCs, LoopPCs, SameLoop, Load
    <3>6. Keeps(t, thr'[t])
      BY <2>3, <3>1, <3>2 DEF Keeps, Carries
    <3> QED
      BY <1>0, <1>1, <1>q, <3>4, <3>5, <3>6, Advances DEF Load
  <2> QED
    BY <1>1, <2>1, <2>2, <2>3 DEF Load
<1>4. ASSUME NEW to \in {"refresh", "save"},
             thr[t].pc \in {"register", "refresh"},
             Rotate(thr[t].sess.refresh),
             thr' = [thr EXCEPT ![t].pc = to, ![t].sess.refresh = issued'],
             UNCHANGED <<stored, core_vars, up>>
      PROVE  IInv'
  <2>1. thr[t].sess \in Session
    BY <1>0, <1>4 DEF HasSession
  <2>2. issued' \in 0..MaxTokens
    BY <1>4, AppAssumption DEF Rotate, IInv, Data
  <2>3. [thr[t].sess EXCEPT !.refresh = issued'] \in Session
        /\ [thr[t].sess EXCEPT !.refresh = issued'].refresh = issued'
    BY <2>1, <2>2 DEF Session
  <2>4. /\ thr'[t].pc = to /\ thr'[t].op = thr[t].op /\ thr'[t].pick = thr[t].pick
        /\ thr'[t].sess = [thr[t].sess EXCEPT !.refresh = issued']
    BY <1>0, <1>4 DEF Thread
  <2>5. thr'[t] \in Thread
    BY <1>0, <1>4, <2>3 DEF Thread, PCs
  <2>6. OnlyMoves(t)
    BY <1>0, <1>4, <2>5 DEF OnlyMoves
  <2>7. Proper(t, thr'[t]) /\ SameLoop(t, thr'[t])
    BY <1>0, <1>4, <2>3, <2>4, <2>5 DEF Proper, CallPCs, LoopPCs, SameLoop
  <2> QED
    BY <1>0, <1>4, <2>1, <2>3, <2>4, <2>6, <2>7, Rotates
<1>2. CASE RefreshLapsed(t)
  BY <1>2, <1>4 DEF RefreshLapsed
<1>3. CASE RefreshForServer(t)
  BY <1>3, <1>4 DEF RefreshForServer
<1>5. CASE RegisterFails(t)
  <2>1. CASE UNCHANGED <<issued, unspent>>
    BY <1>5, <1>f, <1>q, <2>1 DEF RegisterFails, file_vars
  <2>2. CASE Rotate(thr[t].sess.refresh)
    <3>1. thr[t].sess \in Session
      BY <1>0, <1>5 DEF HasSession, RegisterFails
    <3>2. /\ OnlyMoves(t) /\ Proper(t, thr'[t]) /\ SameLoop(t, thr'[t])
          /\ thr'[t].sess = None /\ ~Carries(thr'[t])
      BY <1>5, FailedMoves DEF IInv, RegisterFails
    <3> QED
      BY <1>0, <1>5, <2>2, <3>1, <3>2, Rotates DEF RegisterFails
  <2> QED
    BY <1>5, <2>1, <2>2 DEF RegisterFails
<1>6. CASE Save(t)
  <2> DEFINE to == AfterSave(thr[t].op)
  <2>1. to \in {"done", "chosen", "bearer"} /\ thr[t].sess \in Session
    BY <1>0, <1>6 DEF AfterSave, Save, Goes, HasSession
  <2>2. OnlyMoves(t) /\ thr'[t] = Moved(t, to) /\ thr[t].pc = "save"
    BY <1>0, <1>6, <2>1, GoesMoves DEF Save, IInv, PCs
  <2>3. Moved(t, to) \in Thread
    BY <1>0, <2>1 DEF Moved, Thread, PCs
  <2>4. t \in Loops => to = "bearer"
    BY <1>0 DEF Proper, AfterSave
  <2> HIDE DEF to
  <2>5. Proper(t, Moved(t, to)) /\ SameLoop(t, Moved(t, to))
    BY <1>0, <2>1, <2>2, <2>3, <2>4 DEF Proper, HasSession, CallPCs, LoopPCs, Moved, SameLoop
  <2>6. Goroutines' /\ Holding'
    BY <1>0, <1>6, <2>2, <2>5, GoroutinesStay, HoldingStays DEF IInv, Save, core_vars
  <2>7. Data'
    BY <1>6, <2>1 DEF IInv, Data, Save, core_vars
  <2>8. Tokens'
    <3>1. /\ \A u \in Threads \ {t} : thr'[u] = thr[u]
          /\ thr'[t].sess = thr[t].sess /\ ~Carries(thr'[t])
          /\ stored' = thr[t].sess /\ thr[t].sess # None
          /\ UNCHANGED <<issued, unspent>>
      BY <1>6, <2>1, <2>2, NoneAssumption DEF OnlyMoves, Moved, Carries, Save
    <3>2. TokensAreIssued'
      BY <1>0, <3>1 DEF IInv, Tokens, TokensAreIssued
    <3>3. CarriedTokensAreOwn'
      BY <1>0, <3>1 DEF IInv, Tokens, CarriedTokensAreOwn, Carries
    <3> QED
      BY <3>2, <3>3 DEF Tokens
  <2> QED
    BY <2>6, <2>7, <2>8 DEF IInv
<1>7. CASE SaveFails(t)
  BY <1>7, <1>f, <1>q DEF SaveFails
<1> QED
  BY <1>1, <1>2, <1>3, <1>5, <1>6, <1>7 DEF SessionStep

-----------------------------------------------------------------------------
\* A loop l is set going by t, a call or a Status.
LEMMA LoopBegins ==
    ASSUME IInv, NEW t \in Calls \cup Polls, NEW l \in Loops, StartLoop(l),
           NEW r \in Thread, Proper(t, r), Keeps(t, r),
           thr' = [thr EXCEPT ![t] = r, ![l] = At("ask", "renew")],
           stopped' = (stopped \cup ({stopRenew} \ {NoLoop})) \ {l},
           UNCHANGED <<file_vars, offered, up>>, required' \in BOOLEAN
    PROVE  IInv'
<1>1. t \in Threads /\ l \in Threads /\ t \notin Loops /\ l \notin Polls /\ l \notin Calls
  BY Kinds DEF IInv
<1>2. At("ask", "renew") \in Thread
  BY DEF At, Thread, PCs, Ops
<1>3. /\ thr' \in [Threads -> Thread]
      /\ thr'[t] = r
      /\ thr'[l] = At("ask", "renew")
      /\ \A u \in Threads \ {t, l} : thr'[u] = thr[u]
  BY <1>1, <1>2 DEF IInv, Goroutines
<1>4. Proper(l, At("ask", "renew"))
  BY <1>1, <1>2 DEF Proper, At, LoopPCs, HasSession
<1>5. \A u \in Threads : Proper(u, thr'[u])
  BY <1>3, <1>4 DEF IInv, Goroutines
<1>6. Goroutines'
  BY <1>3, <1>5 DEF Goroutines, Proper, HasSession
<1>7. Holding'
  <2>1. \A k \in Loops \ {l} : thr'[k] = thr[k]
    BY <1>1, <1>3, Kinds DEF IInv
  <2>2. thr'[l].pc # "done" /\ stopRenew' = l /\ l \notin stopped'
    BY <1>3 DEF At, StartLoop
  <2>3. \A k \in Loops \ {l} : thr[k].pc # "done" /\ k \notin stopped => k \in stopped'
    <3>1. \A k \in Loops : k # NoLoop
      BY DEF Loops, NoLoop
    <3> QED
      BY <3>1 DEF IInv, Holding, OneLoopIsHeld
  <2>4. OneLoopIsHeld'
    BY <2>1, <2>2, <2>3 DEF OneLoopIsHeld
  <2> QED
    BY <2>2, <2>4 DEF IInv, Holding
<1>8. Data'
  BY DEF IInv, Data, file_vars
<1>9. Tokens'
  <2>1. thr'[l].sess = None /\ ~Carries(thr'[l])
    BY <1>3 DEF At, Carries
  <2>2. \A u \in Threads : Carries(thr'[u]) => Carries(thr[u]) /\ thr'[u].sess = thr[u].sess
    BY <1>3, <2>1 DEF Keeps
  <2>3. \A u \in Threads : \/ thr'[u].sess = None
                           \/ thr'[u].sess = thr[u].sess
                           \/ stored # None /\ thr'[u].sess.refresh = stored.refresh
    BY <1>3, <2>1 DEF Keeps
  <2>4. TokensAreIssued'
    BY <2>3 DEF IInv, Tokens, TokensAreIssued, file_vars
  <2>5. CarriedTokensAreOwn'
    <3> SUFFICES ASSUME NEW u \in Threads, Carries(thr'[u])
                 PROVE  /\ thr'[u].sess.refresh \in unspent
                        /\ stored # None => stored.refresh # thr'[u].sess.refresh
                        /\ \A v \in Threads \ {u} :
                             thr'[v].sess # None => thr'[v].sess.refresh # thr'[u].sess.refresh
      BY DEF CarriedTokensAreOwn, Carries, file_vars
    <3>1. Carries(thr[u]) /\ thr'[u].sess = thr[u].sess
      BY <2>2
    <3>2. /\ thr[u].sess.refresh \in unspent
          /\ stored # None => stored.refresh # thr[u].sess.refresh
          /\ \A v \in Threads \ {u} :
               thr[v].sess # None => thr[v].sess.refresh # thr[u].sess.refresh
      BY <3>1 DEF IInv, Tokens, CarriedTokensAreOwn
    <3> QED
      BY <2>3, <3>1, <3>2
  <2> QED
    BY <2>4, <2>5 DEF Tokens
<1> QED
  BY <1>6, <1>7, <1>8, <1>9 DEF IInv

\* A call goes on to a step that has all it needs.
LEMMA CallGoes ==
    ASSUME IInv, NEW a \in Calls, NEW from, NEW to, Goes(a, from, to), Quiet,
           \/ to \in {"done", "require", "connected"}
           \/ to = "offer" /\ HasSession(thr[a])
           \/ to = "save" /\ thr[a].op = "login" /\ Carries(thr[a])
           \/ to = "forget" /\ thr[a].op = "logout"
    PROVE  IInv'
<1>1. /\ a \in Threads /\ a \notin Polls /\ a \notin Loops
      /\ thr[a] \in Thread /\ Proper(a, thr[a])
  BY Kinds DEF IInv, Goroutines
<1>2. to \in PCs /\ to \in CallPCs
  BY DEF PCs, CallPCs
<1>3. Moved(a, to) \in Thread
  BY <1>1, <1>2 DEF Moved, Thread
<1>4. to \in {"save", "offer"} => thr[a].sess \in Session
  BY <1>1 DEF Proper, HasSession, Carries
<1>5. Proper(a, Moved(a, to)) /\ SameLoop(a, Moved(a, to))
  BY <1>1, <1>2, <1>3, <1>4 DEF Proper, HasSession, Moved, SameLoop
<1>6. Carries(Moved(a, to)) => Carries(thr[a])
  BY DEF Carries, Moved
<1> QED
  BY <1>1, <1>2, <1>5, <1>6, GoesOn

LEMMA CallStepNext ==
    ASSUME IInv, NEW a \in Calls, SignIn(a) \/ CallStep(a)
    PROVE  IInv'
<1> USE DEF file_vars, core_vars
<1>0. /\ a \in Threads /\ a \notin Polls /\ a \notin Loops
      /\ thr[a] \in Thread /\ thr \in [Threads -> Thread] /\ Proper(a, thr[a])
  BY Kinds DEF IInv, Goroutines
<1>q. UNCHANGED <<issued, unspent, stopRenew, stopped, stored, offered, required>>
        /\ up' \in BOOLEAN => Quiet
  BY DEF IInv, Data, Quiet
<1>p. UNCHANGED up => up' \in BOOLEAN
  BY DEF IInv, Data
<1>1. CASE SignIn(a)
  <2>1. ASSUME issued < MaxTokens, issued' = issued + 1, unspent' = unspent \cup {issued + 1},
               thr[a].pc = "signIn",
               thr' = [thr EXCEPT ![a].pc = "forget",
                                  ![a].sess = [who |-> thr[a].pick, refresh |-> issued + 1,
                                               tenant |-> None]],
               UNCHANGED <<stored, core_vars, up>>
        PROVE  IInv'
    <3> DEFINE new == [who |-> thr[a].pick, refresh |-> issued + 1, tenant |-> None]
    <3>1. issued \in Nat /\ unspent \subseteq 1..issued /\ issued + 1 \in 0..MaxTokens
      BY <2>1, AppAssumption DEF IInv, Data
    <3>2. new \in Session /\ new.refresh = issued + 1
      BY <1>0, <2>1, <3>1 DEF Session, Proper
    <3> HIDE DEF new
    <3>3. /\ thr'[a].pc = "forget" /\ thr'[a].op = thr[a].op /\ thr'[a].pick = thr[a].pick
          /\ thr'[a].sess = new
      BY <1>0, <2>1 DEF Thread, new
    <3>4. thr'[a] \in Thread
      BY <1>0, <2>1, <3>2 DEF Thread, PCs, new
    <3>5. OnlyMoves(a)
      BY <1>0, <2>1, <3>4 DEF OnlyMoves
    <3>6. Proper(a, thr'[a]) /\ SameLoop(a, thr'[a])
      BY <1>0, <3>2, <3>3, <3>4 DEF Proper, HasSession, CallPCs, SameLoop
    <3>7. Goroutines' /\ Holding'
      BY <1>0, <2>1, <3>5, <3>6, GoroutinesStay, HoldingStays DEF IInv
    <3>8. Tokens'
      <4>1. unspent' = (unspent \ {}) \cup {issued + 1}
        BY <2>1
      <4> QED
        BY <1>0, <2>1, <3>2, <3>3, <3>5, <4>1, TokenIsIssued
    <3>9. unspent' \subseteq 1..issued'
      <4>1. \A n \in unspent' : n \in 1..issued \/ n = issued + 1
        BY <2>1, <3>1
      <4>2. 1..issued \subseteq 1..(issued + 1) /\ issued + 1 \in 1..(issued + 1)
        BY <3>1
      <4> QED
        BY <2>1, <4>1, <4>2
    <3>10. Data'
      BY <2>1, <3>1, <3>9 DEF IInv, Data
    <3> QED
      BY <3>7, <3>8, <3>10 DEF IInv
  <2>2. CASE Goes(a, "signIn", "done") /\ UNCHANGED <<file_vars, core_vars, up>>
    BY <1>q, <1>p, <2>2, CallGoes
  <2> QED
    BY <1>1, <2>1, <2>2 DEF SignIn
<1>2. CASE ForgetTenants(a)
  <2>1. Quiet
    BY <1>2 DEF ForgetTenants, IInv, Data, Quiet
  <2>2. CASE thr[a].op = "login"
    <3>1. Goes(a, "forget", "save") /\ Carries(thr[a])
      BY <1>2, <2>2 DEF ForgetTenants, Goes, Carries
    <3> QED
      BY <2>1, <2>2, <3>1, CallGoes
  <2>3. CASE thr[a].op # "login"
    <3>1. Goes(a, "forget", "clear")
      BY <1>2, <2>3 DEF ForgetTenants
    <3>2. Proper(a, Moved(a, "clear")) /\ SameLoop(a, Moved(a, "clear")) /\ ~Carries(Moved(a, "clear"))
      BY <1>0 DEF Proper, Moved, SameLoop, HasSession, CallPCs, Thread, PCs, Carries
    <3> QED
      BY <1>0, <2>1, <3>1, <3>2, GoesOn DEF PCs
  <2> QED
    BY <2>2, <2>3
<1>3. CASE Down(a)
  <2>1. Quiet
    BY <1>3, <1>q DEF Down, IInv, Data
  <2>2. CASE thr[a].op = "logout"
    BY <1>3, <2>1, <2>2, CallGoes DEF Down
  <2>3. CASE thr[a].op # "logout"
    BY <1>3, <2>1, <2>3, CallGoes DEF Down
  <2> QED
    BY <2>2, <2>3
<1>4. CASE Clear(a)
  <2>1. Quiet
    BY <1>4 DEF Clear, IInv, Data, Quiet
  <2> QED
    BY <1>4, <2>1, CallGoes DEF Clear
<1>5. CASE Chosen(a)
  <2>1. Quiet
    BY <1>5 DEF Chosen, IInv, Data, Quiet
  <2> QED
    BY <1>5, <2>1, CallGoes DEF Chosen
<1>6. CASE AskTenants(a)
  <2>1. CASE Goes(a, "bearer", "offer")
    <3>1. HasSession(thr[a])
      BY <2>1 DEF Goes, HasSession
    <3> QED
      BY <1>6, <1>q, <1>p, <2>1, <3>1, CallGoes DEF AskTenants
  <2>2. CASE thr[a].pc = "bearer" /\ Failed(a)
    <3>1. /\ OnlyMoves(a) /\ Proper(a, thr'[a]) /\ SameLoop(a, thr'[a])
          /\ thr'[a].sess = None /\ ~Carries(thr'[a])
      BY <2>2, FailedMoves DEF IInv
    <3> QED
      BY <1>0, <1>6, <1>q, <1>p, <3>1, Advances DEF AskTenants, Keeps
  <2> QED
    BY <1>6, <2>1, <2>2 DEF AskTenants
<1>7. CASE Offer(a)
  <2>1. offered' \subseteq Tenants
    <3>1. thr[a].sess \in Session
      BY <1>0, <1>7 DEF Offer, Goes, Proper, HasSession
    <3>2. thr[a].sess.who \in People
      BY <3>1 DEF Session
    <3> QED
      BY <1>7, <3>2, AppAssumption DEF Offer
  <2>2. Quiet
    BY <1>7, <2>1 DEF Offer, IInv, Data, Quiet
  <2>3. CASE thr[a].op = "tenants"
    BY <1>7, <2>2, <2>3, CallGoes DEF Offer
  <2>4. CASE thr[a].op # "tenants"
    BY <1>7, <2>2, <2>4, CallGoes DEF Offer
  <2> QED
    BY <2>3, <2>4
<1>8. CASE Require(a)
  <2>1. Quiet
    BY <1>8 DEF Require, IInv, Data, Quiet
  <2> QED
    BY <1>8, <2>1, CallGoes DEF Require
<1>9. CASE HelperConnects(a)
  BY <1>9, <1>q, CallGoes DEF HelperConnects
<1>10. CASE TenantRequired(a)
  <2> DEFINE r == At("load", "connectRefused")
  <2>1. r \in Thread
    BY DEF At, Thread, PCs, Ops
  <2>2. OnlyMoves(a) /\ thr'[a] = r
    BY <1>0, <1>10, <2>1 DEF TenantRequired, OnlyMoves
  <2>3. Proper(a, r) /\ SameLoop(a, r) /\ Keeps(a, r)
    BY <1>0, <2>1 DEF Proper, SameLoop, Keeps, At, HasSession, CallPCs, Carries
  <2>4. Quiet
    BY <1>10, <1>q, <1>p DEF TenantRequired
  <2> HIDE DEF r
  <2> QED
    BY <1>0, <2>2, <2>3, <2>4, Advances
<1>11. CASE HelperFails(a)
  BY <1>11, <1>q, CallGoes DEF HelperFails
<1>12. ASSUME NEW l \in Loops, Connected(a, l)
       PROVE  IInv'
  <2>1. Moved(a, "done") \in Thread /\ [thr[a] EXCEPT !.pc = "done"] = Moved(a, "done")
    BY <1>0 DEF Thread, Moved, PCs
  <2>2. thr' = [thr EXCEPT ![a] = Moved(a, "done"), ![l] = At("ask", "renew")]
    BY <1>0, <1>12, <2>1 DEF Connected
  <2>3. Proper(a, Moved(a, "done")) /\ Keeps(a, Moved(a, "done"))
    BY <1>0, <2>1 DEF Proper, Moved, HasSession, CallPCs, Keeps, Carries
  <2>4. /\ StartLoop(l)
        /\ stopped' = (stopped \cup ({stopRenew} \ {NoLoop})) \ {l}
        /\ UNCHANGED <<file_vars, offered, up>> /\ required' \in BOOLEAN
    BY <1>12 DEF Connected
  <2> QED
    BY <2>1, <2>2, <2>3, <2>4, LoopBegins
<1>13. CASE SessionStep(a)
  BY <1>13, SessionNext
<1> QED
  BY <1>1, <1>2, <1>3, <1>4, <1>5, <1>6, <1>7, <1>8, <1>9, <1>10, <1>11, <1>12, <1>13 DEF CallStep

-----------------------------------------------------------------------------
\* Status looks at the file, asks the helper and shows what it was told.
LEMMA PollNext ==
    ASSUME IInv, NEW s \in Polls, PollStep(s)
    PROVE  IInv'
<1> USE DEF file_vars, core_vars
<1>0. /\ s \in Threads /\ s \notin Calls /\ s \notin Loops
      /\ thr[s] \in Thread /\ thr \in [Threads -> Thread] /\ Proper(s, thr[s])
  BY Kinds DEF IInv, Goroutines
<1>q. UNCHANGED <<file_vars, core_vars, up>> => Quiet
  BY DEF IInv, Data, Quiet
\* Status is told something, v, on its way to the helper and from there.
<1>1. ASSUME NEW to \in {"ask", "show"}, NEW v \in BOOLEAN,
             thr' = [thr EXCEPT ![s].pc = to, ![s].pick = v],
             UNCHANGED <<file_vars, core_vars, up>>
      PROVE  IInv'
  <2>1. /\ thr'[s].pc = to /\ thr'[s].op = thr[s].op /\ thr'[s].sess = thr[s].sess
        /\ thr'[s].pick = v
    BY <1>0, <1>1 DEF Thread
  <2>2. thr'[s] \in Thread
    BY <1>0, <1>1 DEF Thread, PCs
  <2>3. OnlyMoves(s)
    BY <1>0, <1>1, <2>2 DEF OnlyMoves
  <2>4. Proper(s, thr'[s]) /\ SameLoop(s, thr'[s]) /\ Keeps(s, thr'[s])
    BY <1>0, <1>1, <2>1, <2>2 DEF Proper, PollPCs, HasSession, SameLoop, Keeps, Carries
  <2> QED
    BY <1>0, <1>1, <1>q, <2>3, <2>4, Advances
<1>2. CASE Look(s)
  <2>1. (stored # None) \in BOOLEAN
    OBVIOUS
  <2> QED
    BY <1>1, <1>2, <2>1 DEF Look
<1>3. CASE AskHelper(s)
  <2>1. (thr[s].pick /\ up) \in BOOLEAN
    OBVIOUS
  <2>2. thr' = [thr EXCEPT ![s].pc = "show", ![s].pick = (thr[s].pick /\ up)]
    BY <1>0, <1>3 DEF AskHelper, Thread
  <2> QED
    BY <1>1, <1>3, <2>1, <2>2 DEF AskHelper
<1>4. CASE HelperAway(s)
  BY <1>1, <1>4 DEF HelperAway
<1>a. At("look", "status") \in Thread
  BY DEF At, Thread, PCs, Ops
<1>b. /\ Proper(s, At("look", "status")) /\ SameLoop(s, At("look", "status"))
      /\ Keeps(s, At("look", "status"))
  BY <1>0, <1>a DEF Proper, PollPCs, HasSession, SameLoop, Keeps, Carries, At
<1>5. CASE Show(s)
  <2>1. OnlyMoves(s) /\ thr'[s] = At("look", "status")
    BY <1>0, <1>5, <1>a DEF Show, OnlyMoves
  <2> QED
    BY <1>0, <1>5, <1>b, <1>q, <2>1, Advances DEF Show
<1>6. ASSUME NEW l \in Loops, Adopt(s, l)
      PROVE  IInv'
  <2>1. stopped' = (stopped \cup ({stopRenew} \ {NoLoop})) \ {l}
    BY <1>6 DEF Adopt, Adopts
  <2>2. required' \in BOOLEAN
    BY <1>6 DEF Adopt, IInv, Data
  <2> QED
    BY <1>6, <1>a, <1>b, <2>1, <2>2, LoopBegins DEF Adopt
<1> QED
  BY <1>2, <1>3, <1>4, <1>5, <1>6 DEF PollStep

-----------------------------------------------------------------------------
\* A loop goes on, between its start and its end.
LEMMA LoopGoes ==
    ASSUME IInv, NEW l \in Loops, NEW from, NEW to, Goes(l, from, to), Quiet,
           from # "done", to \in {"ask", "wait", "load", "end"}
    PROVE  IInv'
<1>1. /\ l \in Threads /\ l \notin Polls /\ l \notin Calls
      /\ thr[l] \in Thread /\ Proper(l, thr[l]) /\ thr[l].op = "renew"
  BY Kinds DEF IInv, Goroutines
<1>2. to \in PCs /\ to \in LoopPCs /\ thr[l].pc # "done"
  BY DEF PCs, LoopPCs, Goes
<1>3. Moved(l, to) \in Thread
  BY <1>1, <1>2 DEF Moved, Thread
<1>4. Proper(l, Moved(l, to)) /\ SameLoop(l, Moved(l, to)) /\ ~Carries(Moved(l, to))
  BY <1>1, <1>2, <1>3 DEF Proper, HasSession, Moved, SameLoop, Carries
<1> QED
  BY <1>1, <1>2, <1>4, GoesOn

LEMMA LoopNext ==
    ASSUME IInv, NEW l \in Loops, LoopStep(l)
    PROVE  IInv'
<1> USE DEF file_vars, core_vars
<1>0. /\ l \in Threads /\ l \notin Calls /\ l \notin Polls
      /\ thr[l] \in Thread /\ thr \in [Threads -> Thread] /\ Proper(l, thr[l])
  BY Kinds DEF IInv, Goroutines
<1>q. UNCHANGED <<file_vars, core_vars, up>> => Quiet
  BY DEF IInv, Data, Quiet
<1>1. CASE SeesUp(l)
  <2>1. CASE l \in stopped
    BY <1>1, <1>q, <2>1, LoopGoes DEF SeesUp
  <2>2. CASE l \notin stopped
    BY <1>1, <1>q, <2>2, LoopGoes DEF SeesUp
  <2> QED
    BY <2>1, <2>2
<1>2. CASE SeesDown(l)
  BY <1>2, <1>q, LoopGoes DEF SeesDown
<1>3. CASE Wake(l)
  BY <1>3, <1>q, LoopGoes DEF Wake
<1>4. CASE Stopped(l)
  BY <1>4, <1>q, LoopGoes DEF Stopped
<1>5. CASE Renew(l)
  <2>1. Quiet
    BY <1>5 DEF Renew, IInv, Data, Quiet
  <2>2. AfterRenewal(l) \in {"ask", "end"}
    BY DEF AfterRenewal
  <2> QED
    BY <1>5, <2>1, <2>2, LoopGoes DEF Renew
<1>6. CASE End(l)
  <2> DEFINE r == At("done", "renew")
  <2>1. r \in Thread
    BY DEF At, Thread, PCs, Ops
  <2>2. OnlyMoves(l) /\ thr'[l] = r /\ thr[l].pc = "end"
    BY <1>0, <1>6, <2>1 DEF End, OnlyMoves
  <2>3. Proper(l, r) /\ Keeps(l, r) /\ r.pc = "done"
    BY <1>0, <2>1 DEF Proper, Keeps, At, HasSession, LoopPCs, Carries
  <2> HIDE DEF r
  <2>4. Goroutines' /\ Tokens'
    BY <1>0, <1>6, <2>2, <2>3, GoroutinesStay, TokensStay DEF IInv, End
  <2>5. Data'
    BY <1>6 DEF End, IInv, Data
  <2>6. Holding'
    <3>1. \A k \in Loops : k # NoLoop /\ (k # l => thr'[k] = thr[k])
      BY <2>2, Kinds DEF IInv, OnlyMoves, Loops, NoLoop
    <3>2. thr'[l].pc = "done"
      BY <2>2, <2>3
    <3>3. CASE l \in stopped
      <4>1. stopRenew' = stopRenew /\ stopped' = stopped /\ stopRenew # l
        BY <1>6, <3>1, <3>3 DEF End, IInv, Holding, OneLoopIsHeld
      <4> QED
        BY <3>1, <3>2, <4>1 DEF IInv, Holding, OneLoopIsHeld
    <3>4. CASE l \notin stopped
      <4>1. stopRenew = l /\ stopRenew' = NoLoop /\ stopped' = stopped
        BY <1>6, <2>2, <3>4 DEF End, IInv, Holding, OneLoopIsHeld
      <4> QED
        BY <3>1, <3>2, <4>1 DEF IInv, Holding, OneLoopIsHeld
    <3> QED
      BY <3>3, <3>4
  <2> QED
    BY <2>4, <2>5, <2>6 DEF IInv
<1>7. CASE SessionStep(l)
  BY <1>7, SessionNext
<1> QED
  BY <1>1, <1>2, <1>3, <1>4, <1>5, <1>6, <1>7 DEF LoopStep

-----------------------------------------------------------------------------
LEMMA IInvInit == Init => IInv
<1> SUFFICES ASSUME Init PROVE IInv
  OBVIOUS
<1>1. /\ At("idle", "login") \in Thread
      /\ At("look", "status") \in Thread
      /\ At("done", "renew") \in Thread
  BY DEF At, Thread, PCs, Ops
<1>2. ASSUME NEW t \in Threads
      PROVE  /\ t \in Calls => thr[t] = At("idle", "login")
             /\ t \in Polls => thr[t] = At("look", "status")
             /\ t \in Loops => thr[t] = At("done", "renew")
  BY AppAssumption DEF Init
<1>3. thr \in [Threads -> Thread]
  <2>1. \A t \in Threads : thr[t] \in Thread
    BY <1>1, <1>2 DEF Threads
  <2> QED
    BY <2>1 DEF Init
<1>4. ASSUME NEW t \in Threads
      PROVE  Proper(t, thr[t]) /\ thr[t].sess = None /\ ~Carries(thr[t])
  <2>1. CASE t \in Calls
    BY <1>1, <1>2, <2>1, AppAssumption DEF At, Proper, HasSession, CallPCs, Carries
  <2>2. CASE t \in Polls
    BY <1>1, <1>2, <2>2, AppAssumption DEF At, Proper, HasSession, PollPCs, Carries
  <2>3. CASE t \in Loops
    BY <1>1, <1>2, <2>3, AppAssumption DEF At, Proper, HasSession, LoopPCs, Carries
  <2> QED
    BY <2>1, <2>2, <2>3 DEF Threads
<1>5. Goroutines
  BY <1>3, <1>4 DEF Goroutines
<1>6. Holding
  BY <1>2 DEF Init, Holding, OneLoopIsHeld, At, Threads
<1>7. Data
  <2>1. issued = 0 /\ 0 \in 0..MaxTokens
    BY AppAssumption DEF Init
  <2> QED
    BY <2>1 DEF Init, Data
<1>8. Tokens
  BY <1>4 DEF Init, Tokens, TokensAreIssued, CarriedTokensAreOwn
<1> QED
  BY <1>5, <1>6, <1>7, <1>8 DEF IInv

LEMMA IInvNext == IInv /\ [Next]_vars => IInv'
<1> SUFFICES ASSUME IInv, [Next]_vars PROVE IInv'
  OBVIOUS
<1>1. ASSUME NEW a \in Calls, Call(a) \/ SignIn(a) \/ CallStep(a)
      PROVE  IInv'
  BY <1>1, CallNext, CallStepNext
<1>2. ASSUME NEW s \in Polls, PollStep(s)
      PROVE  IInv'
  BY <1>2, PollNext
<1>3. ASSUME NEW l \in Loops, LoopStep(l)
      PROVE  IInv'
  BY <1>3, LoopNext
<1>4. ASSUME UNCHANGED <<file_vars, core_vars, thr>>, up' \in BOOLEAN
      PROVE  IInv'
  <2>1. Goroutines' /\ Holding'
    BY <1>4 DEF IInv, Goroutines, Proper, HasSession, Holding, OneLoopIsHeld, core_vars
  <2>2. Data' /\ Tokens'
    BY <1>4 DEF IInv, Data, Tokens, TokensAreIssued, CarriedTokensAreOwn, Carries,
                file_vars, core_vars
  <2> QED
    BY <2>1, <2>2 DEF IInv
<1>5. CASE TunnelGoesDown
  BY <1>4, <1>5 DEF TunnelGoesDown
<1>6. CASE UNCHANGED vars
  <2>1. UNCHANGED <<file_vars, core_vars, thr>> /\ up' \in BOOLEAN
    BY <1>6 DEF vars, file_vars, core_vars, IInv, Data
  <2> QED
    BY <1>4, <2>1
<1> QED
  BY <1>1, <1>2, <1>3, <1>5, <1>6 DEF Next

LEMMA Invariance == Spec => []IInv
  BY IInvInit, IInvNext, PTL DEF Spec

\* Every goroutine, the file and the tokens keep their types.
THEOREM TypeCorrect == Spec => []TypeOK
<1>1. IInv => TypeOK
  BY DEF IInv, Goroutines, Holding, Data, TypeOK
<1> QED
  BY <1>1, Invariance, PTL

\* However Connect, Disconnect, Logout, Status and the ends of loops overlap,
\* the one loop that goes on is the one stopRenew ends.
THEOREM OneLoopIsHeldCorrect == Spec => []OneLoopIsHeld
<1>1. IInv => OneLoopIsHeld
  BY DEF IInv, Holding
<1> QED
  BY <1>1, Invariance, PTL

\* However many calls and loops refresh at once, what each saves is a token
\* that nobody spent: only SetTenant writes back a token it did not get.
THEOREM SavedTokensAreUnspentCorrect == Spec => SavedTokensAreUnspent
<1>1. ASSUME IInv, [Next]_vars
      PROVE  [\A t \in Threads :
               Save(t) /\ thr[t].op # "setTenant" /\ KeyRegistry => stored'.refresh \in unspent]_vars
  <2>1. ASSUME NEW t \in Threads, Save(t), thr[t].op # "setTenant"
        PROVE  stored'.refresh \in unspent
    <3>1. Carries(thr[t]) /\ stored' = thr[t].sess
      BY <2>1 DEF Save, Goes, Carries
    <3> QED
      BY <1>1, <3>1 DEF IInv, Tokens, CarriedTokensAreOwn
  <2> QED
    BY <2>1
<1> QED
  BY <1>1, Invariance, PTL DEF Spec, SavedTokensAreUnspent
=============================================================================
