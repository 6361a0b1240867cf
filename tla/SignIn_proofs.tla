--------------------------- MODULE SignIn_proofs ----------------------------
(***************************************************************************)
(* Proofs about SignIn, for any number of logins and callbacks, any mix of *)
(* providers, and all intervals, lifetimes and time-outs.                  *)
(*                                                                         *)
(* What a login's goroutine and its code are to each other at each step of *)
(* a flow is Good: the client's interval is the one the server asks for,   *)
(* its deadline is not before the code's, and what remains of a code that  *)
(* was authorized in time covers the sleep and the poll still to come.     *)
(***************************************************************************)
EXTENDS SignIn, SequenceTheorems, TLAPS

\* Which flow a step is of, and what is not set before it or after.
Flow(r, k) ==
    /\ r.pc \in {"sleeping", "polling"} => r.provider = "github"
    /\ r.pc = "library" => r.provider = "go-authn"
    /\ r.pc = "waiting" => r.provider = "oidc"
    /\ r.pc # "done" => r.out = "none"
    /\ r.pc = "idle" => k = NoCode
    /\ r.pc \in {"idle", "asking"} => r.interval = 0 /\ r.left = 0 /\ ~k.inTime
    /\ r.pc = "asking" /\ r.provider = "github" =>
         /\ k.answer = "none" /\ k.left <= k.life
         /\ k.state \in {"none", "pending"}
         /\ k.state = "none" => k.left = 0
         /\ k.state = "pending" => k.named \in Intervals /\ k.demand = OrDefault(k.named)

\* The client's interval is the server's; an answer not heard yet may have
\* lengthened the server's alone.
Spaced(r, k) ==
    /\ r.pc = "sleeping" => r.interval = k.demand /\ r.sleep <= k.demand
                            /\ k.rest + r.sleep >= k.demand
    /\ r.pc = "polling" => k.demand = IF k.answer = "slow_down" THEN r.interval + SlowStep
                                                                ELSE r.interval

\* How far past its deadline a login may be.
Outlives(r, k) ==
    /\ r.pc = "sleeping" => r.left >= r.sleep - (r.interval + CallTime)
    /\ r.pc = "polling" => r.left >= r.call - CallTime
    /\ r.pc = "saving" /\ r.provider = "github" => r.left >= -CallTime
    /\ r.pc \in {"sleeping", "polling"} => k.left = 0 \/ k.left <= r.left

\* A code that was authorized in time lives until the poll that is answered
\* with the token.
InTime(r, k) ==
    /\ r.pc = "polling" /\ k.answer = "access_denied" => k.state = "denied"
    /\ r.pc = "polling" /\ k.answer = "expired_token" => k.left = 0
    /\ k.inTime => k.state \in {"authorized", "used"}
    /\ k.inTime => r.out \notin {"expired", "denied"}
    /\ k.inTime /\ r.pc = "sleeping" => k.state = "authorized" /\ k.left > r.sleep + CallTime
    /\ k.inTime /\ r.pc = "polling" =>
         /\ k.answer \notin {"access_denied", "expired_token"}
         /\ k.answer = "none" => k.state = "authorized" /\ k.left > r.call
         /\ k.answer \in {"authorization_pending", "slow_down"} =>
              k.state = "authorized" /\ k.left > r.call + k.demand + CallTime

Good(r, k) ==
    /\ r \in Goroutine /\ k \in Code
    /\ Flow(r, k)
    /\ Spaced(r, k)
    /\ Outlives(r, k)
    /\ InTime(r, k)

LoginsAreGood ==
    /\ thr \in [Logins -> Goroutine] /\ code \in [Logins -> Code]
    /\ \A l \in Logins : Good(thr[l], code[l])

\* A callback is of a login of the browser flow that got to wait for it.
CallbacksAreTyped ==
    /\ cb \in [Callbacks -> Callback]
    /\ \A c \in Callbacks : cb[c].pc # "unused" =>
         /\ cb[c].of \in Logins
         /\ thr[cb[c].of].provider = "oidc"
         /\ thr[cb[c].of].pc \notin {"idle", "asking"}

ResChIsBounded == \A l \in Logins : Len(thr[l].resCh) <= Buffer

Prompt == prompt \in Logins \cup {None} /\ PromptIsLive

IInv == LoginsAreGood /\ CallbacksAreTyped /\ ResChIsBounded /\ Prompt

\* With room for one result, the one in resCh is of a handler that returned.
ResultsAreOfHandlers ==
    \A l \in Logins :
      \/ thr[l].resCh = <<>>
      \/ \E d \in Callbacks : /\ cb[d].pc = "returned" /\ cb[d].of = l
                              /\ thr[l].resCh = <<cb[d].what>>

-----------------------------------------------------------------------------
\* Of the logins, l moves.
OnlyMoves(l) ==
    /\ thr' \in [Logins -> Goroutine] /\ code' \in [Logins -> Code]
    /\ \A m \in Logins \ {l} : thr'[m] = thr[m] /\ code'[m] = code[m]

\* A login keeps its provider, and does not begin anew.
Continues(r, next) ==
    /\ next.provider = r.provider
    /\ r.pc \notin {"idle", "asking"} => next.pc \notin {"idle", "asking"}

\* One login moves, and the prompt is taken away, stays or becomes its own.
LEMMA LoginMoves ==
    ASSUME IInv, NEW l \in Logins, OnlyMoves(l), Good(thr'[l], code'[l]),
           Continues(thr[l], thr'[l]), Len(thr'[l].resCh) <= Buffer, UNCHANGED cb,
           prompt' = None \/ (InProgress(l)' /\ prompt' \in {prompt, l})
    PROVE  IInv'
<1>1. LoginsAreGood'
  <2>1. \A m \in Logins : Good(thr'[m], code'[m])
    BY DEF OnlyMoves, IInv, LoginsAreGood
  <2> QED
    BY <2>1 DEF OnlyMoves, LoginsAreGood, Good, Flow, Spaced, Outlives, InTime
<1>2. CallbacksAreTyped'
  BY DEF OnlyMoves, IInv, CallbacksAreTyped, Continues
<1>3. ResChIsBounded'
  BY DEF OnlyMoves, IInv, ResChIsBounded
<1>4. Prompt'
  BY DEF OnlyMoves, IInv, Prompt, PromptIsLive, InProgress
<1> QED
  BY <1>1, <1>2, <1>3, <1>4 DEF IInv

\* What is known of a login before it moves.
LEMMA Before ==
    ASSUME IInv, NEW l \in Logins
    PROVE  /\ thr \in [Logins -> Goroutine] /\ code \in [Logins -> Code]
           /\ thr[l] \in Goroutine /\ code[l] \in Code
           /\ Good(thr[l], code[l])
           /\ Len(thr[l].resCh) <= Buffer
  BY DEF IInv, LoginsAreGood, ResChIsBounded

\* Core.Login returns, however.
LEMMA EndsMoves ==
    ASSUME IInv, NEW l \in Logins, NEW out \in Outcomes,
           NEW res \in Seq(Results), Len(res) <= Buffer, Returns(l, res, out), prompt' = None,
           InProgress(l), code[l].inTime => out \notin {"expired", "denied"}, UNCHANGED cb
    PROVE  IInv'
<1> DEFINE r == [pc |-> "done", provider |-> thr[l].provider, interval |-> 0, sleep |-> 0,
                 left |-> 0, call |-> 0, cancelled |-> FALSE, resCh |-> res, out |-> out]
           k == [NoCode EXCEPT !.state = code[l].state, !.inTime = code[l].inTime]
<1>0. /\ thr \in [Logins -> Goroutine] /\ code \in [Logins -> Code]
      /\ thr[l] \in Goroutine /\ code[l] \in Code
      /\ Good(thr[l], code[l])
  BY Before
<1>1. thr' = [thr EXCEPT ![l] = r] /\ code' = [code EXCEPT ![l] = k]
  BY <1>0 DEF Returns
<1>2. k \in Code /\ k.state = code[l].state /\ k.inTime = code[l].inTime
  <2>1. NoCode \in Code
    BY SignInAssumption DEF Code, NoCode, Answers
  <2> QED
    BY <1>0, <2>1 DEF Code
<1>3. r \in Goroutine
  BY <1>0, SignInAssumption DEF Goroutine, PCs
<1>4. OnlyMoves(l) /\ thr'[l] = r /\ code'[l] = k
  BY <1>0, <1>1, <1>2, <1>3 DEF OnlyMoves
<1>5. Good(r, k)
  BY <1>0, <1>2, <1>3 DEF Good, Flow, Spaced, Outlives, InTime
<1>6. Continues(thr[l], r)
  BY DEF Continues
<1> HIDE DEF r, k
<1>7. thr'[l].resCh = res
  BY <1>1, <1>4 DEF r
<1> QED
  BY <1>4, <1>5, <1>6, <1>7, LoginMoves

-----------------------------------------------------------------------------
\* Core.Login's own steps.
LEMMA LoginNext ==
    ASSUME IInv, NEW l \in Logins, Login(l)
    PROVE  IInv'
<1>0. /\ thr \in [Logins -> Goroutine] /\ code \in [Logins -> Code]
      /\ thr[l] \in Goroutine /\ code[l] \in Code
      /\ Good(thr[l], code[l]) /\ Len(thr[l].resCh) <= Buffer
  BY Before
<1>1. thr'[l] \in Goroutine
  <2>1. CallTime \in 0..CallTime
    BY SignInAssumption
  <2> QED
    BY <1>0, <2>1 DEF Login, Goroutine, PCs
<1>2. /\ thr'[l].pc = "asking"
      /\ thr'[l].provider = thr[l].provider /\ thr'[l].interval = thr[l].interval
      /\ thr'[l].left = thr[l].left /\ thr'[l].resCh = thr[l].resCh /\ thr'[l].out = thr[l].out
      /\ code'[l] = code[l] /\ thr[l].pc = "idle"
  BY <1>0 DEF Login, Goroutine
<1>3. OnlyMoves(l)
  BY <1>0, <1>1 DEF Login, OnlyMoves
<1>4. Good(thr'[l], code'[l])
  <2>1. code[l] = NoCode /\ ~code[l].inTime
    BY <1>0, <1>2 DEF Good, Flow, NoCode
  <2>2. /\ code[l].answer = "none" /\ code[l].left = 0 /\ code[l].left <= code[l].life
        /\ code[l].state = "none"
    BY <2>1 DEF NoCode
  <2>3. Flow(thr'[l], code'[l])
    BY <1>0, <1>2, <2>1, <2>2 DEF Good, Flow
  <2>4. Spaced(thr'[l], code'[l]) /\ Outlives(thr'[l], code'[l]) /\ InTime(thr'[l], code'[l])
    BY <1>2, <2>1 DEF Spaced, Outlives, InTime
  <2> QED
    BY <1>0, <1>1, <1>2, <2>3, <2>4 DEF Good
<1>5. Continues(thr[l], thr'[l]) /\ InProgress(l)'
  BY <1>2 DEF Continues, InProgress
<1> QED
  BY <1>0, <1>2, <1>3, <1>4, <1>5, LoginMoves DEF Login

LEMMA CancelNext ==
    ASSUME IInv, NEW l \in Logins, Cancel(l)
    PROVE  IInv'
<1>0. /\ thr \in [Logins -> Goroutine] /\ code \in [Logins -> Code]
      /\ thr[l] \in Goroutine /\ code[l] \in Code
      /\ Good(thr[l], code[l]) /\ Len(thr[l].resCh) <= Buffer
  BY Before
<1>1. thr'[l] \in Goroutine
  BY <1>0 DEF Cancel, Goroutine
<1>2. /\ thr'[l].pc = thr[l].pc
      /\ thr'[l].provider = thr[l].provider /\ thr'[l].interval = thr[l].interval
      /\ thr'[l].sleep = thr[l].sleep /\ thr'[l].left = thr[l].left /\ thr'[l].call = thr[l].call
      /\ thr'[l].resCh = thr[l].resCh /\ thr'[l].out = thr[l].out
      /\ code'[l] = code[l]
  BY <1>0 DEF Cancel, Goroutine
<1>3. OnlyMoves(l)
  BY <1>0, <1>1 DEF Cancel, OnlyMoves
<1>4. Good(thr'[l], code'[l])
  BY <1>0, <1>1, <1>2 DEF Good, Flow, Spaced, Outlives, InTime
<1>5. Continues(thr[l], thr'[l]) /\ InProgress(l)'
  BY <1>2 DEF Continues, InProgress, Cancel
<1> QED
  BY <1>0, <1>2, <1>3, <1>4, <1>5, LoginMoves DEF Cancel

\* The ends of a login that its context, a failure, the clock or the server
\* brings, or the file saved.
LEMMA EndsNext ==
    ASSUME IInv, NEW l \in Logins,
           \/ Cancelled(l) \/ CallFails(l) \/ Saved(l) \/ Expires(l) \/ PollRefused(l)
    PROVE  IInv'
<1>0. /\ Good(thr[l], code[l]) /\ Len(thr[l].resCh) <= Buffer
      /\ thr[l].resCh \in Seq(Results)
      /\ thr[l] \in Goroutine /\ code[l] \in Code
  BY Before DEF Goroutine
<1>e. ASSUME NEW out \in Outcomes, Ends(l, out), InProgress(l), UNCHANGED cb,
             code[l].inTime => out \notin {"expired", "denied"}
      PROVE  IInv'
  BY <1>0, <1>e, EndsMoves DEF Ends
<1>1. CASE Cancelled(l)
  BY <1>1, <1>e DEF Cancelled, Outcomes
<1>2. CASE CallFails(l)
  BY <1>2, <1>e DEF CallFails, Outcomes, InProgress
<1>3. CASE Saved(l)
  BY <1>3, <1>e DEF Saved, Outcomes, InProgress
<1>4. CASE Expires(l)
  <2>1. thr[l].pc = "sleeping" /\ thr[l].sleep = 0 /\ thr[l].left < 0
    BY <1>4 DEF Expires, Awake, Past
  <2>2. ~code[l].inTime
    <3>1. code[l].left \in Nat /\ thr[l].left \in Int /\ CallTime \in Nat
      BY <1>0, SignInAssumption DEF Goroutine, Code
    <3> QED
      BY <1>0, <2>1, <3>1 DEF Good, Outlives, InTime
  <2> QED
    BY <1>4, <1>e, <2>1, <2>2 DEF Expires, Outcomes, InProgress
<1>5. CASE PollRefused(l)
  <2>1. CASE Heard(l, "access_denied") /\ Ends(l, "denied")
    <3>1. ~code[l].inTime /\ InProgress(l)
      BY <1>0, <2>1 DEF Good, InTime, Heard, InProgress
    <3> QED
      BY <1>5, <1>e, <2>1, <3>1 DEF PollRefused, Outcomes
  <2>2. CASE Heard(l, "expired_token") /\ Ends(l, "expired")
    <3>1. ~code[l].inTime /\ InProgress(l)
      BY <1>0, <2>2 DEF Good, InTime, Heard, InProgress
    <3> QED
      BY <1>5, <1>e, <2>2, <3>1 DEF PollRefused, Outcomes
  <2>3. CASE Heard(l, "other") /\ Ends(l, "refused")
    BY <1>5, <1>e, <2>3 DEF PollRefused, Outcomes, Heard, InProgress
  <2> QED
    BY <1>5, <2>1, <2>2, <2>3 DEF PollRefused
<1> QED
  BY <1>1, <1>2, <1>3, <1>4, <1>5

-----------------------------------------------------------------------------
\* The client waits for as long as the server asks for, whether it names an
\* interval or not; and the bounds that hold are numbers.
LEMMA IntervalsMatch ==
    /\ \A i \in Intervals : ClientInterval(i) = OrDefault(i) /\ OrDefault(i) \in 0..MaxInterval
    /\ CallTime \in Nat /\ SlowStep \in Nat /\ Buffer \in Nat /\ MaxInterval \in Nat
    /\ 0 < CallTime
  BY SignInAssumption DEF ClientInterval, OrDefault

\* The numbers of a login.
LEMMA Numbers ==
    ASSUME IInv, NEW l \in Logins
    PROVE  /\ thr[l].interval \in Nat /\ thr[l].sleep \in Nat /\ thr[l].left \in Int
           /\ thr[l].call \in Nat /\ thr[l].call <= CallTime
           /\ code[l].left \in Nat /\ code[l].demand \in Nat /\ code[l].rest \in Nat
           /\ code[l].demand <= MaxInterval /\ code[l].rest <= MaxInterval
           /\ code[l].life \in Nat
<1>1. thr[l] \in Goroutine /\ code[l] \in Code
  BY Before
<1>2. MaxInterval \in Nat /\ CallTime \in Nat /\ Lifetimes \cup {0} \subseteq Nat
  BY SignInAssumption
<1>3. /\ thr[l].interval \in 0..MaxInterval /\ thr[l].sleep \in 0..MaxInterval
      /\ thr[l].left \in Int /\ thr[l].call \in 0..CallTime
  BY <1>1 DEF Goroutine
<1>4. /\ code[l].left \in Nat /\ code[l].demand \in 0..MaxInterval
      /\ code[l].rest \in 0..MaxInterval /\ code[l].life \in Lifetimes \cup {0}
  BY <1>1 DEF Code
<1> QED
  BY <1>2, <1>3, <1>4

LEMMA GivesCodeNext ==
    ASSUME IInv, NEW l \in Logins, GivesCode(l)
    PROVE  IInv'
<1>0. /\ thr \in [Logins -> Goroutine] /\ code \in [Logins -> Code]
      /\ thr[l] \in Goroutine /\ code[l] \in Code
      /\ Good(thr[l], code[l]) /\ Len(thr[l].resCh) <= Buffer
  BY Before
<1>1. PICK i \in Intervals, life \in Lifetimes :
        code' = [code EXCEPT ![l].state = "pending", ![l].named = i, ![l].life = life,
                             ![l].left = life, ![l].demand = OrDefault(i)]
  BY DEF GivesCode
<1>2. life \in Nat /\ OrDefault(i) \in 0..MaxInterval
  BY IntervalsMatch, SignInAssumption
<1>3. code'[l] \in Code
  BY <1>0, <1>1, <1>2 DEF Code
<1>4. /\ code'[l].state = "pending" /\ code'[l].named = i /\ code'[l].life = life
      /\ code'[l].left = life /\ code'[l].demand = OrDefault(i)
      /\ code'[l].answer = code[l].answer /\ code'[l].inTime = code[l].inTime
  BY <1>0, <1>1 DEF Code
<1>5. OnlyMoves(l) /\ thr'[l] = thr[l]
  BY <1>0, <1>1, <1>3 DEF GivesCode, OnlyMoves
<1>6. thr[l].pc = "asking" /\ thr[l].provider = "github" /\ life <= life
  BY <1>2 DEF GivesCode
<1>7. Flow(thr[l], code'[l])
  BY <1>0, <1>4, <1>6 DEF Good, Flow
<1>8. Spaced(thr[l], code'[l]) /\ Outlives(thr[l], code'[l]) /\ InTime(thr[l], code'[l])
  BY <1>0, <1>4, <1>6 DEF Good, Flow, Spaced, Outlives, InTime
<1>9. Good(thr'[l], code'[l])
  BY <1>0, <1>3, <1>5, <1>7, <1>8 DEF Good
<1>10. Continues(thr[l], thr'[l]) /\ InProgress(l)'
  BY <1>5, <1>6 DEF Continues, InProgress
<1> QED
  BY <1>0, <1>5, <1>9, <1>10, LoginMoves DEF GivesCode

LEMMA GotCodeNext ==
    ASSUME IInv, NEW l \in Logins, GotCode(l)
    PROVE  IInv'
<1>0. /\ thr \in [Logins -> Goroutine] /\ code \in [Logins -> Code]
      /\ thr[l] \in Goroutine /\ code[l] \in Code
      /\ Good(thr[l], code[l]) /\ Len(thr[l].resCh) <= Buffer
  BY Before
<1> DEFINE i == ClientInterval(code[l].named)
<1>1. /\ thr[l].pc = "asking" /\ thr[l].provider = "github" /\ code[l].state = "pending"
      /\ code[l].named \in Intervals /\ code[l].demand = OrDefault(code[l].named)
      /\ code[l].left <= code[l].life /\ ~code[l].inTime /\ thr[l].out = "none"
  BY <1>0 DEF GotCode, Good, Flow
<1>2. i = code[l].demand /\ i \in 0..MaxInterval
  BY <1>1, IntervalsMatch
<1> HIDE DEF i
<1>3. thr' = [thr EXCEPT ![l].pc = "sleeping", ![l].left = code[l].life,
                         ![l].interval = i, ![l].sleep = i]
  BY DEF GotCode, i
<1>4. thr'[l] \in Goroutine
  <2>1. code[l].life \in Int
    BY Numbers
  <2> QED
    BY <1>0, <1>2, <1>3, <2>1 DEF Goroutine, PCs
<1>5. /\ thr'[l].pc = "sleeping" /\ thr'[l].provider = thr[l].provider
      /\ thr'[l].left = code[l].life /\ thr'[l].interval = i /\ thr'[l].sleep = i
      /\ thr'[l].resCh = thr[l].resCh /\ thr'[l].out = thr[l].out
      /\ code'[l] = code[l]
  BY <1>0, <1>3 DEF Goroutine, GotCode
<1>6. OnlyMoves(l)
  BY <1>0, <1>3, <1>4 DEF GotCode, OnlyMoves
<1>7. Flow(thr'[l], code'[l])
  BY <1>1, <1>5 DEF Flow
<1>8. Spaced(thr'[l], code'[l])
  BY <1>2, <1>5, Numbers DEF Spaced
<1>9. Outlives(thr'[l], code'[l])
  <2>1. code[l].life >= i - (i + CallTime)
    BY <1>2, Numbers, IntervalsMatch
  <2> QED
    BY <1>1, <1>5, <2>1 DEF Outlives
<1>10. InTime(thr'[l], code'[l])
  BY <1>1, <1>5 DEF InTime
<1>11. Good(thr'[l], code'[l])
  BY <1>0, <1>4, <1>5, <1>7, <1>8, <1>9, <1>10 DEF Good
<1>12. Continues(thr[l], thr'[l]) /\ InProgress(l)'
  BY <1>5 DEF Continues, InProgress
<1> QED
  BY <1>0, <1>5, <1>6, <1>11, <1>12, LoginMoves DEF GotCode

LEMMA PollsNext ==
    ASSUME IInv, NEW l \in Logins, Polls(l)
    PROVE  IInv'
<1>0. /\ thr \in [Logins -> Goroutine] /\ code \in [Logins -> Code]
      /\ thr[l] \in Goroutine /\ code[l] \in Code
      /\ Good(thr[l], code[l]) /\ Len(thr[l].resCh) <= Buffer
  BY Before
<1>1. thr[l].pc = "sleeping" /\ thr[l].sleep = 0 /\ ~(thr[l].left < 0)
  BY DEF Polls, Awake, Past
<1>2. thr'[l] \in Goroutine
  <2>1. CallTime \in 0..CallTime
    BY IntervalsMatch
  <2> QED
    BY <1>0, <2>1 DEF Polls, Goroutine, PCs
<1>3. code'[l] \in Code
  BY <1>0 DEF Polls, Code, Answers
<1>4. /\ thr'[l].pc = "polling" /\ thr'[l].provider = thr[l].provider
      /\ thr'[l].left = thr[l].left /\ thr'[l].interval = thr[l].interval
      /\ thr'[l].call = CallTime
      /\ thr'[l].resCh = thr[l].resCh /\ thr'[l].out = thr[l].out
  BY <1>0 DEF Polls, Goroutine
<1>5. /\ code'[l].answer = "none" /\ code'[l].state = code[l].state /\ code'[l].left = code[l].left
      /\ code'[l].demand = code[l].demand /\ code'[l].inTime = code[l].inTime
  BY <1>0 DEF Polls, Code
<1>6. OnlyMoves(l)
  BY <1>0, <1>2, <1>3 DEF Polls, OnlyMoves
<1>7. Flow(thr'[l], code'[l]) /\ Spaced(thr'[l], code'[l])
  BY <1>0, <1>1, <1>4, <1>5 DEF Good, Flow, Spaced
<1>8. Outlives(thr'[l], code'[l])
  <2>1. thr[l].left >= CallTime - CallTime
    BY <1>1, Numbers, IntervalsMatch
  <2> QED
    BY <1>0, <1>1, <1>4, <1>5, <2>1 DEF Good, Outlives
<1>9. InTime(thr'[l], code'[l])
  <2>1. code[l].inTime => code[l].left > CallTime
    BY <1>0, <1>1, Numbers, IntervalsMatch DEF Good, InTime
  <2> QED
    BY <1>0, <1>1, <1>4, <1>5, <2>1 DEF Good, InTime
<1>10. Good(thr'[l], code'[l])
  BY <1>2, <1>3, <1>7, <1>8, <1>9 DEF Good
<1>11. Continues(thr[l], thr'[l]) /\ InProgress(l)'
  BY <1>4 DEF Continues, InProgress
<1> QED
  BY <1>0, <1>4, <1>6, <1>10, <1>11, LoginMoves DEF Polls

LEMMA AnsweredNext ==
    ASSUME IInv, NEW l \in Logins, Answered(l)
    PROVE  IInv'
<1>0. /\ thr \in [Logins -> Goroutine] /\ code \in [Logins -> Code]
      /\ thr[l] \in Goroutine /\ code[l] \in Code
      /\ Good(thr[l], code[l]) /\ Len(thr[l].resCh) <= Buffer
  BY Before
<1>1. PICK a \in Answers \ {"none"} :
        /\ Answer(l, a)
        /\ code' = [code EXCEPT ![l].answer = a, ![l].rest = 0,
                      ![l].demand = IF a = "slow_down" THEN @ + SlowStep ELSE @,
                      ![l].state = IF a = "token" THEN "used" ELSE @]
  BY DEF Answered
<1> DEFINE asked == IF a = "slow_down" THEN code[l].demand + SlowStep ELSE code[l].demand
           after  == IF a = "token" THEN "used" ELSE code[l].state
<1>2. asked \in 0..MaxInterval
  <2>1. a = "slow_down" => code[l].demand + SlowStep <= MaxInterval
    BY <1>1 DEF Answer
  <2>2. CASE a = "slow_down"
    <3>1. code[l].demand + SlowStep \in 0..MaxInterval
      BY <2>1, <2>2, Numbers, IntervalsMatch
    <3> QED
      BY <2>2, <3>1
  <2>3. CASE a # "slow_down"
    <3>1. code[l].demand \in 0..MaxInterval
      BY Numbers, IntervalsMatch
    <3> QED
      BY <2>3, <3>1
  <2> QED
    BY <2>2, <2>3
<1>3. after \in {"none", "pending", "authorized", "denied", "used"}
  BY <1>0 DEF Code
<1>4. code' = [code EXCEPT ![l].answer = a, ![l].rest = 0, ![l].demand = asked,
                           ![l].state = after]
  BY <1>0, <1>1 DEF Code
<1>5. asked = IF a = "slow_down" THEN code[l].demand + SlowStep ELSE code[l].demand
  OBVIOUS
<1>6. after = IF a = "token" THEN "used" ELSE code[l].state
  OBVIOUS
<1> HIDE DEF asked, after
<1>7. code'[l] \in Code
  <2>1. 0 \in 0..MaxInterval
    <3>1. MaxInterval \in Nat
      BY IntervalsMatch
    <3> QED
      BY <3>1
  <2> QED
    BY <1>0, <1>2, <1>3, <1>4, <2>1 DEF Code
<1>8. /\ code'[l].answer = a /\ code'[l].rest = 0 /\ code'[l].demand = asked
      /\ code'[l].state = after /\ code'[l].left = code[l].left
      /\ code'[l].inTime = code[l].inTime
  BY <1>0, <1>4 DEF Code
<1>9. OnlyMoves(l) /\ thr'[l] = thr[l] /\ thr[l].pc = "polling" /\ code[l].answer = "none"
  BY <1>0, <1>4, <1>7 DEF Answered, OnlyMoves
<1>10. Flow(thr[l], code'[l])
  BY <1>0, <1>9 DEF Good, Flow
<1>11. Spaced(thr[l], code'[l])
  BY <1>0, <1>5, <1>8, <1>9 DEF Good, Spaced
<1>12. Outlives(thr[l], code'[l])
  BY <1>0, <1>8, <1>9 DEF Good, Outlives
<1>13. InTime(thr[l], code'[l])
  <2>1. a = "access_denied" => code[l].state = "denied"
    BY <1>1 DEF Answer
  <2>2. a = "expired_token" => code[l].left = 0
    BY <1>1 DEF Answer
  <2>3. a \in {"authorization_pending", "slow_down"} => code[l].state = "pending"
    BY <1>1 DEF Answer
  <2>4. code[l].inTime => code[l].state = "authorized" /\ code[l].left # 0
    <3> SUFFICES ASSUME code[l].inTime
                 PROVE  code[l].state = "authorized" /\ code[l].left # 0
      OBVIOUS
    <3>1. code[l].state = "authorized" /\ code[l].left > thr[l].call
      BY <1>0, <1>9 DEF Good, InTime
    <3> QED
      BY <3>1, Numbers
  <2>5. code[l].inTime => thr[l].out \notin {"expired", "denied"}
    BY <1>0 DEF Good, InTime
  <2> QED
    BY <1>6, <1>8, <1>9, <2>1, <2>2, <2>3, <2>4, <2>5 DEF InTime
<1>14. Good(thr'[l], code'[l])
  BY <1>0, <1>7, <1>9, <1>10, <1>11, <1>12, <1>13 DEF Good
<1>15. Continues(thr[l], thr'[l]) /\ InProgress(l)'
  BY <1>9 DEF Continues, InProgress
<1> QED
  BY <1>0, <1>9, <1>14, <1>15, LoginMoves DEF Answered

LEMMA SleepsOnNext ==
    ASSUME IInv, NEW l \in Logins, SleepsOn(l)
    PROVE  IInv'
<1>0. /\ thr \in [Logins -> Goroutine] /\ code \in [Logins -> Code]
      /\ thr[l] \in Goroutine /\ code[l] \in Code
      /\ Good(thr[l], code[l]) /\ Len(thr[l].resCh) <= Buffer
  BY Before
<1>1. PICK a \in {"authorization_pending", "slow_down"} :
        /\ Heard(l, a)
        /\ LET i == IF a = "slow_down" THEN Slowed(thr[l].interval) ELSE thr[l].interval IN
           thr' = [thr EXCEPT ![l].pc = "sleeping", ![l].interval = i, ![l].sleep = i]
        /\ UNCHANGED <<code, cb, prompt>>
  BY DEF SleepsOn
<1> DEFINE i == IF a = "slow_down" THEN Slowed(thr[l].interval) ELSE thr[l].interval
<1>2. thr[l].pc = "polling" /\ code[l].answer = a /\ code' = code
  BY <1>1 DEF Heard
<1>3. i = code[l].demand
  BY <1>0, <1>2 DEF Good, Spaced, Slowed
<1>4. thr' = [thr EXCEPT ![l].pc = "sleeping", ![l].interval = i, ![l].sleep = i]
  BY <1>1
<1> HIDE DEF i
<1>5. i \in 0..MaxInterval
  BY <1>3, Numbers, IntervalsMatch
<1>6. thr'[l] \in Goroutine
  BY <1>0, <1>4, <1>5 DEF Goroutine, PCs
<1>7. /\ thr'[l].pc = "sleeping" /\ thr'[l].provider = thr[l].provider
      /\ thr'[l].left = thr[l].left /\ thr'[l].interval = i /\ thr'[l].sleep = i
      /\ thr'[l].resCh = thr[l].resCh /\ thr'[l].out = thr[l].out
  BY <1>0, <1>4 DEF Goroutine
<1>8. OnlyMoves(l)
  BY <1>0, <1>2, <1>4, <1>6 DEF OnlyMoves
<1>9. Flow(thr'[l], code'[l])
  BY <1>0, <1>2, <1>7 DEF Good, Flow
<1>10. Spaced(thr'[l], code'[l])
  BY <1>2, <1>3, <1>7, Numbers DEF Spaced
<1>11. Outlives(thr'[l], code'[l])
  <2>1. thr[l].left >= i - (i + CallTime)
    BY <1>0, <1>2, <1>5, Numbers, IntervalsMatch DEF Good, Outlives
  <2> QED
    BY <1>0, <1>2, <1>7, <2>1 DEF Good, Outlives
<1>12. InTime(thr'[l], code'[l])
  <2>1. code[l].inTime => code[l].state = "authorized" /\ code[l].left > i + CallTime
    <3>1. code[l].inTime => /\ code[l].state = "authorized"
                            /\ code[l].left > thr[l].call + code[l].demand + CallTime
      BY <1>0, <1>2 DEF Good, InTime
    <3> QED
      BY <1>3, <3>1, Numbers, IntervalsMatch
  <2> QED
    BY <1>0, <1>2, <1>7, <2>1 DEF Good, InTime
<1>13. Good(thr'[l], code'[l])
  BY <1>0, <1>2, <1>6, <1>9, <1>10, <1>11, <1>12 DEF Good
<1>14. Continues(thr[l], thr'[l]) /\ InProgress(l)'
  BY <1>7 DEF Continues, InProgress
<1> QED
  BY <1>0, <1>1, <1>7, <1>8, <1>13, <1>14, LoginMoves

\* A login that has its token, of whatever flow.
LEMMA SavingMoves ==
    ASSUME IInv, NEW l \in Logins, thr[l].pc \in {"polling", "library"},
           thr' = [thr EXCEPT ![l].pc = "saving"], UNCHANGED <<code, cb, prompt>>
    PROVE  IInv'
<1>0. /\ thr \in [Logins -> Goroutine] /\ code \in [Logins -> Code]
      /\ thr[l] \in Goroutine /\ code[l] \in Code
      /\ Good(thr[l], code[l]) /\ Len(thr[l].resCh) <= Buffer
  BY Before
<1>1. thr'[l] \in Goroutine
  BY <1>0 DEF Goroutine, PCs
<1>2. /\ thr'[l].pc = "saving" /\ thr'[l].provider = thr[l].provider
      /\ thr'[l].left = thr[l].left
      /\ thr'[l].resCh = thr[l].resCh /\ thr'[l].out = thr[l].out
  BY <1>0 DEF Goroutine
<1>3. OnlyMoves(l)
  BY <1>0, <1>1 DEF OnlyMoves
<1>4. Flow(thr'[l], code'[l]) /\ Spaced(thr'[l], code'[l]) /\ InTime(thr'[l], code'[l])
  BY <1>0, <1>2 DEF Good, Flow, Spaced, InTime
<1>5. Outlives(thr'[l], code'[l])
  <2>1. thr[l].pc = "polling" => thr[l].left >= -CallTime
    BY <1>0, Numbers, IntervalsMatch DEF Good, Outlives
  <2>2. thr[l].pc = "library" => thr[l].provider # "github"
    BY <1>0 DEF Good, Flow
  <2> QED
    BY <1>2, <2>1, <2>2 DEF Outlives
<1>6. Good(thr'[l], code'[l])
  BY <1>0, <1>1, <1>4, <1>5 DEF Good
<1>7. Continues(thr[l], thr'[l]) /\ InProgress(l)'
  BY <1>2 DEF Continues, InProgress
<1> QED
  BY <1>0, <1>2, <1>3, <1>6, <1>7, LoginMoves

\* A login gets to where the person is waited for: the library, the loopback.
LEMMA WaitsMoves ==
    ASSUME IInv, NEW l \in Logins, thr[l].pc = "asking",
           NEW to, \/ thr[l].provider = "go-authn" /\ to = "library"
                   \/ thr[l].provider = "oidc" /\ to = "waiting",
           thr' = [thr EXCEPT ![l].pc = to], code' = [code EXCEPT ![l].state = "pending"],
           prompt' = l, UNCHANGED cb
    PROVE  IInv'
<1>0. /\ thr \in [Logins -> Goroutine] /\ code \in [Logins -> Code]
      /\ thr[l] \in Goroutine /\ code[l] \in Code
      /\ Good(thr[l], code[l]) /\ Len(thr[l].resCh) <= Buffer
  BY Before
<1>1. \/ thr[l].provider = "go-authn" /\ to = "library"
      \/ thr[l].provider = "oidc" /\ to = "waiting"
  OBVIOUS
<1>2. thr'[l] \in Goroutine /\ code'[l] \in Code
  BY <1>0, <1>1 DEF Goroutine, PCs, Code
<1>3. /\ thr'[l].pc = to /\ thr'[l].provider = thr[l].provider
      /\ thr'[l].resCh = thr[l].resCh /\ thr'[l].out = thr[l].out
      /\ code'[l].inTime = code[l].inTime
  BY <1>0 DEF Goroutine, Code
<1>4. OnlyMoves(l)
  BY <1>0, <1>2 DEF OnlyMoves
<1>5. Flow(thr'[l], code'[l]) /\ Spaced(thr'[l], code'[l])
  BY <1>0, <1>1, <1>3 DEF Good, Flow, Spaced
<1>6. Outlives(thr'[l], code'[l]) /\ InTime(thr'[l], code'[l])
  BY <1>0, <1>1, <1>3 DEF Good, Flow, Outlives, InTime
<1>7. Good(thr'[l], code'[l])
  BY <1>2, <1>5, <1>6 DEF Good
<1>8. Continues(thr[l], thr'[l]) /\ InProgress(l)'
  BY <1>1, <1>3 DEF Continues, InProgress
<1> QED
  BY <1>0, <1>3, <1>4, <1>7, <1>8, LoginMoves

\* Only the state of a code changes, not by a sign-in's own step, and the
\* goroutine's flow knows nothing of it.
LEMMA PersonNext ==
    ASSUME IInv, NEW l \in Logins, Authorizes(l) \/ Denies(l)
    PROVE  IInv'
<1>0. /\ thr \in [Logins -> Goroutine] /\ code \in [Logins -> Code]
      /\ thr[l] \in Goroutine /\ code[l] \in Code
      /\ Good(thr[l], code[l]) /\ Len(thr[l].resCh) <= Buffer
  BY Before
<1>1. /\ thr[l].pc \in {"sleeping", "polling", "library", "waiting"}
      /\ code[l].state = "pending" /\ ~code[l].inTime /\ thr' = thr
      /\ thr[l].provider = "github" => code[l].left > 0
      /\ thr[l].out = "none"
  BY <1>0 DEF Authorizes, Denies, AtThePage, Good, Flow, InTime
<1>2. CASE Authorizes(l)
  <2> DEFINE now == code[l].left > code[l].demand + 2 * CallTime
  <2>1. now \in BOOLEAN
    OBVIOUS
  <2>2. code' = [code EXCEPT ![l].state = "authorized", ![l].inTime = code[l].inTime \/ now]
    BY <1>0, <1>2 DEF Authorizes, Code
  <2> HIDE DEF now
  <2>3. code'[l] \in Code
    BY <1>0, <2>2 DEF Code
  <2>4. /\ code'[l].state = "authorized" /\ code'[l].answer = code[l].answer
        /\ code'[l].left = code[l].left /\ code'[l].demand = code[l].demand
        /\ code'[l].rest = code[l].rest
    BY <1>0, <2>2 DEF Code
  <2>5. code'[l].inTime => now
    BY <1>0, <1>1, <2>2 DEF Code
  <2>6. OnlyMoves(l)
    BY <1>0, <1>1, <2>2, <2>3 DEF OnlyMoves
  <2>7. /\ Flow(thr[l], code'[l]) /\ Spaced(thr[l], code'[l]) /\ Outlives(thr[l], code'[l])
    BY <1>0, <1>1, <2>4 DEF Good, Flow, Spaced, Outlives
  <2>8. InTime(thr[l], code'[l])
    <3>1. thr[l].pc = "polling" => code[l].answer # "access_denied"
      BY <1>0, <1>1 DEF Good, InTime
    <3>2. thr[l].pc = "polling" => code[l].answer # "expired_token"
      <4>1. thr[l].pc = "polling" => code[l].left > 0
        BY <1>0, <1>1 DEF Good, Flow
      <4> QED
        BY <1>0, <4>1, Numbers DEF Good, InTime
    <3>3. ASSUME code'[l].inTime
          PROVE  /\ code[l].left > thr[l].call + code[l].demand + CallTime
                 /\ code[l].left > thr[l].call
      BY <2>5, <3>3, Numbers, IntervalsMatch DEF now
    <3>4. ASSUME code'[l].inTime, thr[l].pc = "sleeping"
          PROVE  code[l].left > thr[l].sleep + CallTime
      <4>1. thr[l].sleep <= code[l].demand
        BY <1>0, <3>4 DEF Good, Spaced
      <4> QED
        BY <2>5, <3>4, <4>1, Numbers, IntervalsMatch DEF now
    <3> QED
      BY <1>1, <2>4, <3>1, <3>2, <3>3, <3>4 DEF InTime
  <2>9. Good(thr'[l], code'[l])
    BY <1>0, <1>1, <2>3, <2>7, <2>8 DEF Good
  <2>10. Continues(thr[l], thr'[l]) /\ InProgress(l)'
    BY <1>1 DEF Continues, InProgress
  <2> QED
    BY <1>0, <1>1, <1>2, <2>6, <2>9, <2>10, LoginMoves DEF Authorizes
<1>3. CASE Denies(l)
  <2>1. code'[l] \in Code
    BY <1>0, <1>3 DEF Denies, Code
  <2>2. /\ code'[l].state = "denied" /\ code'[l].answer = code[l].answer
        /\ code'[l].left = code[l].left /\ code'[l].demand = code[l].demand
        /\ code'[l].rest = code[l].rest /\ code'[l].inTime = code[l].inTime
    BY <1>0, <1>3 DEF Denies, Code
  <2>3. OnlyMoves(l)
    BY <1>0, <1>1, <1>3, <2>1 DEF Denies, OnlyMoves
  <2>4. Flow(thr[l], code'[l]) /\ Spaced(thr[l], code'[l])
    BY <1>0, <1>1, <2>2 DEF Good, Flow, Spaced
  <2>5. Outlives(thr[l], code'[l]) /\ InTime(thr[l], code'[l])
    BY <1>0, <1>1, <2>2 DEF Good, Outlives, InTime
  <2>6. Good(thr'[l], code'[l])
    BY <1>0, <1>1, <2>1, <2>4, <2>5 DEF Good
  <2>7. Continues(thr[l], thr'[l]) /\ InProgress(l)'
    BY <1>1 DEF Continues, InProgress
  <2> QED
    BY <1>0, <1>1, <1>3, <2>3, <2>6, <2>7, LoginMoves DEF Denies
<1> QED
  BY <1>2, <1>3

\* What is received from resCh, and what is left there.
LEMMA TailIsResults ==
    ASSUME NEW s \in Seq(Results), s # <<>>
    PROVE  Tail(s) \in Seq(Results) /\ Len(Tail(s)) <= Len(s)
  BY HeadTailProperties, LenProperties

LEMMA ReceivesNext ==
    ASSUME IInv, NEW l \in Logins, Receives(l)
    PROVE  IInv'
<1>0. /\ thr \in [Logins -> Goroutine] /\ code \in [Logins -> Code]
      /\ thr[l] \in Goroutine /\ code[l] \in Code
      /\ Good(thr[l], code[l]) /\ Len(thr[l].resCh) <= Buffer
  BY Before
<1> DEFINE left == Tail(thr[l].resCh)
<1>1. left \in Seq(Results) /\ Len(left) <= Buffer /\ thr[l].pc = "waiting"
  <2>1. thr[l].resCh \in Seq(Results) /\ thr[l].resCh # <<>> /\ thr[l].pc = "waiting"
    BY <1>0 DEF Receives, Goroutine
  <2>2. /\ left \in Seq(Results) /\ Len(left) <= Len(thr[l].resCh)
    BY <2>1, TailIsResults
  <2>3. Len(left) \in Nat /\ Len(thr[l].resCh) \in Nat /\ Buffer \in Nat
    BY <2>1, <2>2, LenProperties, IntervalsMatch
  <2> QED
    BY <1>0, <2>1, <2>2, <2>3
<1> HIDE DEF left
<1>2. CASE thr' = [thr EXCEPT ![l].pc = "saving", ![l].resCh = left] /\ UNCHANGED <<code, prompt>>
  <2>1. thr'[l] \in Goroutine
    BY <1>0, <1>1, <1>2 DEF Goroutine, PCs
  <2>2. /\ thr'[l].pc = "saving" /\ thr'[l].provider = thr[l].provider
        /\ thr'[l].resCh = left /\ thr'[l].out = thr[l].out
    BY <1>0, <1>2 DEF Goroutine
  <2>3. OnlyMoves(l)
    BY <1>0, <1>2, <2>1 DEF OnlyMoves
  <2>4. Flow(thr'[l], code'[l]) /\ Spaced(thr'[l], code'[l])
    BY <1>0, <1>1, <1>2, <2>2 DEF Good, Flow, Spaced
  <2>5. Outlives(thr'[l], code'[l]) /\ InTime(thr'[l], code'[l])
    BY <1>0, <1>1, <1>2, <2>2 DEF Good, Flow, Outlives, InTime
  <2>6. Good(thr'[l], code'[l])
    BY <1>0, <1>2, <2>1, <2>4, <2>5 DEF Good
  <2>7. Continues(thr[l], thr'[l]) /\ InProgress(l)'
    BY <2>2 DEF Continues, InProgress
  <2> QED
    BY <1>0, <1>1, <1>2, <2>2, <2>3, <2>6, <2>7, LoginMoves DEF Receives
<1>3. CASE Returns(l, left, "refused") /\ prompt' = None
  <2>1. InProgress(l) /\ "refused" \in Outcomes
    BY <1>1 DEF InProgress, Outcomes
  <2> QED
    BY <1>1, <1>3, <2>1, EndsMoves DEF Receives
<1> QED
  BY <1>2, <1>3 DEF Receives, left

\* Every step of Core.Login and of the provider's flow.
LEMMA LoginStepNext ==
    ASSUME IInv, NEW l \in Logins, LoginStep(l)
    PROVE  IInv'
<1>0. thr[l].resCh \in Seq(Results) /\ Len(thr[l].resCh) <= Buffer
  BY Before DEF Goroutine
<1>1. CASE GotToken(l)
  BY <1>1, SavingMoves DEF GotToken, Heard
<1>2. CASE LibraryAsks(l)
  BY <1>2, WaitsMoves DEF LibraryAsks
<1>3. CASE LibraryReturns(l)
  <2>1. CASE Ends(l, "refused")
    <3>1. InProgress(l) /\ "refused" \in Outcomes
      BY <1>3 DEF LibraryReturns, InProgress, Outcomes
    <3> QED
      BY <1>0, <1>3, <2>1, <3>1, EndsMoves DEF LibraryReturns, Ends
  <2>2. CASE /\ thr' = [thr EXCEPT ![l].pc = "saving"]
             /\ UNCHANGED <<code, prompt>>
    BY <1>3, <2>2, SavingMoves DEF LibraryReturns
  <2> QED
    BY <1>3, <2>1, <2>2 DEF LibraryReturns
<1>4. CASE Listens(l)
  BY <1>4, WaitsMoves DEF Listens
<1> QED
  BY <1>1, <1>2, <1>3, <1>4, EndsNext, GotCodeNext, PollsNext, SleepsOnNext, ReceivesNext
     DEF LoginStep

-----------------------------------------------------------------------------
\* The handlers of the browser's callbacks.
LEMMA CallbackNext ==
    ASSUME IInv, NEW c \in Callbacks, NEW l \in Logins, CallbackRefused(c, l) \/ CallbackCode(c, l)
    PROVE  IInv'
<1> DEFINE pc == IF CallbackRefused(c, l) THEN "sending" ELSE "exchanging"
           r  == [pc |-> pc, of |-> l, what |-> "failed"]
<1>1. UNCHANGED <<thr, code, prompt>> /\ cb' = [cb EXCEPT ![c] = r] /\ thr[l].pc = "waiting"
  BY DEF CallbackRefused, CallbackCode
<1>2. r \in Callback /\ r.of = l
  BY DEF Callback, Results
<1>3. thr[l].provider = "oidc" /\ thr[l].pc \notin {"idle", "asking"}
  BY <1>1 DEF IInv, LoginsAreGood, Good, Flow
<1> HIDE DEF r
<1>4. CallbacksAreTyped'
  BY <1>1, <1>2, <1>3 DEF IInv, CallbacksAreTyped
<1>5. LoginsAreGood' /\ ResChIsBounded' /\ Prompt'
  BY <1>1 DEF IInv, LoginsAreGood, Good, Flow, Spaced, Outlives, InTime, ResChIsBounded,
              Prompt, PromptIsLive, InProgress
<1> QED
  BY <1>4, <1>5 DEF IInv

\* A handler goes on, and its login's code may be used up.
LEMMA ExchangeNext ==
    ASSUME IInv, NEW c \in Callbacks, Exchanged(c) \/ ExchangeFails(c)
    PROVE  IInv'
<1> DEFINE l == cb[c].of
<1>1. /\ cb[c].pc = "exchanging" /\ cb \in [Callbacks -> Callback] /\ cb[c] \in Callback
      /\ UNCHANGED <<thr, prompt>>
  BY DEF Exchanged, ExchangeFails, IInv, CallbacksAreTyped
<1>2. l \in Logins /\ thr[l].provider = "oidc" /\ thr[l].pc \notin {"idle", "asking"}
  BY <1>1 DEF IInv, CallbacksAreTyped
<1>3. cb'[c] \in Callback /\ cb'[c].of = l /\ \A d \in Callbacks \ {c} : cb'[d] = cb[d]
  BY <1>1 DEF Exchanged, ExchangeFails, Callback, Results
<1>4. cb' \in [Callbacks -> Callback]
  BY <1>1, <1>3 DEF Exchanged, ExchangeFails
<1>5. code' \in {code, [code EXCEPT ![l].state = "used"]}
  BY DEF Exchanged, ExchangeFails
<1> HIDE DEF l
<1>6. CallbacksAreTyped'
  <2>1. \A d \in Callbacks : cb'[d].pc # "unused" =>
          /\ cb'[d].of \in Logins
          /\ thr[cb'[d].of].provider = "oidc"
          /\ thr[cb'[d].of].pc \notin {"idle", "asking"}
    BY <1>2, <1>3 DEF IInv, CallbacksAreTyped
  <2> QED
    BY <1>1, <1>4, <2>1 DEF CallbacksAreTyped
<1>7. LoginsAreGood'
  <2>1. CASE code' = code
    BY <1>1, <2>1 DEF IInv, LoginsAreGood, Good, Flow, Spaced, Outlives, InTime
  <2>2. CASE code' = [code EXCEPT ![l].state = "used"]
    <3>1. thr[l] \in Goroutine /\ code[l] \in Code /\ code \in [Logins -> Code] /\ Good(thr[l], code[l])
      BY <1>2 DEF IInv, LoginsAreGood
    <3>2. code'[l] \in Code
      BY <1>2, <2>2, <3>1 DEF Code
    <3>3. /\ code'[l].state = "used" /\ code'[l].inTime = code[l].inTime
          /\ code'[l].left = code[l].left
      BY <1>2, <2>2, <3>1 DEF Code
    <3>4. Flow(thr[l], code'[l]) /\ Spaced(thr[l], code'[l])
      BY <1>2, <3>1, <3>3 DEF Good, Flow, Spaced
    <3>5. Outlives(thr[l], code'[l]) /\ InTime(thr[l], code'[l])
      BY <1>2, <3>1, <3>3 DEF Good, Flow, Outlives, InTime
    <3>6. Good(thr[l], code'[l])
      BY <3>1, <3>2, <3>4, <3>5 DEF Good
    <3>7. code' \in [Logins -> Code] /\ \A m \in Logins \ {l} : code'[m] = code[m]
      BY <1>2, <2>2, <3>1, <3>2
    <3>8. \A m \in Logins : Good(thr'[m], code'[m])
      BY <1>1, <3>6, <3>7 DEF IInv, LoginsAreGood
    <3> QED
      BY <1>1, <3>7, <3>8 DEF IInv, LoginsAreGood, Good, Flow, Spaced, Outlives, InTime
  <2> QED
    BY <1>5, <2>1, <2>2
<1>8. ResChIsBounded' /\ Prompt'
  BY <1>1 DEF IInv, ResChIsBounded, Prompt, PromptIsLive, InProgress
<1> QED
  BY <1>6, <1>7, <1>8 DEF IInv

\* What a handler's send adds to resCh.
LEMMA AppendIsResults ==
    ASSUME NEW s \in Seq(Results), NEW x \in Results
    PROVE  Append(s, x) \in Seq(Results) /\ Len(Append(s, x)) = Len(s) + 1
  BY AppendProperties

LEMMA SendsNext ==
    ASSUME IInv, NEW c \in Callbacks, Sends(c)
    PROVE  IInv'
<1> DEFINE l == cb[c].of
           res == Append(thr[l].resCh, cb[c].what)
<1>1. /\ cb[c].pc = "sending" /\ cb \in [Callbacks -> Callback] /\ cb[c] \in Callback
      /\ UNCHANGED <<code, prompt>> /\ Len(thr[l].resCh) < Buffer
  BY DEF Sends, Room, IInv, CallbacksAreTyped
<1>2. l \in Logins /\ thr[l].provider = "oidc" /\ thr[l].pc \notin {"idle", "asking"}
  BY <1>1 DEF IInv, CallbacksAreTyped
<1>3. /\ thr \in [Logins -> Goroutine] /\ code \in [Logins -> Code]
      /\ thr[l] \in Goroutine /\ code[l] \in Code /\ Good(thr[l], code[l])
  BY <1>2, Before
<1>4. res \in Seq(Results) /\ Len(res) <= Buffer
  <2>1. thr[l].resCh \in Seq(Results) /\ cb[c].what \in Results
    BY <1>1, <1>3 DEF Goroutine, Callback
  <2>2. res \in Seq(Results) /\ Len(res) = Len(thr[l].resCh) + 1
    BY <2>1, AppendIsResults
  <2>3. Len(thr[l].resCh) \in Nat /\ Buffer \in Nat
    BY <2>1, LenProperties, IntervalsMatch
  <2> QED
    BY <1>1, <2>2, <2>3
<1>5. thr' = [thr EXCEPT ![l].resCh = res]
  BY <1>2, <1>3 DEF Sends, Goroutine
<1>6. cb' = [cb EXCEPT ![c].pc = "returned"]
  BY DEF Sends
<1> HIDE DEF l, res
<1>7. thr'[l] \in Goroutine
  BY <1>2, <1>3, <1>4, <1>5 DEF Goroutine
<1>8. /\ thr'[l].pc = thr[l].pc
      /\ thr'[l].provider = thr[l].provider /\ thr'[l].interval = thr[l].interval
      /\ thr'[l].sleep = thr[l].sleep /\ thr'[l].left = thr[l].left /\ thr'[l].call = thr[l].call
      /\ thr'[l].resCh = res /\ thr'[l].out = thr[l].out
  BY <1>2, <1>3, <1>5 DEF Goroutine
<1>9. thr' \in [Logins -> Goroutine] /\ \A m \in Logins \ {l} : thr'[m] = thr[m]
  BY <1>2, <1>3, <1>5, <1>7
<1>10. Good(thr'[l], code[l])
  BY <1>3, <1>7, <1>8 DEF Good, Flow, Spaced, Outlives, InTime
<1>11. LoginsAreGood'
  <2>1. \A m \in Logins : Good(thr'[m], code'[m])
    BY <1>1, <1>9, <1>10 DEF IInv, LoginsAreGood
  <2> QED
    BY <1>1, <1>3, <1>9, <2>1 DEF LoginsAreGood, Good, Flow, Spaced, Outlives, InTime
<1>12. \A m \in Logins : thr'[m].pc = thr[m].pc /\ thr'[m].provider = thr[m].provider
  BY <1>8, <1>9
<1>13. CallbacksAreTyped'
  <2>1. cb'[c] \in Callback /\ cb'[c].of = l /\ cb'[c].pc = "returned"
    BY <1>1, <1>6 DEF Callback, l
  <2>2. cb' \in [Callbacks -> Callback] /\ \A d \in Callbacks \ {c} : cb'[d] = cb[d]
    BY <1>1, <1>6, <2>1
  <2> QED
    BY <1>2, <1>12, <2>1, <2>2 DEF IInv, CallbacksAreTyped
<1>14. ResChIsBounded'
  BY <1>4, <1>8, <1>9 DEF IInv, ResChIsBounded
<1>15. Prompt'
  BY <1>1, <1>12 DEF IInv, Prompt, PromptIsLive, InProgress
<1> QED
  BY <1>11, <1>13, <1>14, <1>15 DEF IInv

-----------------------------------------------------------------------------
\* Time passes for one device login, which is not due.
LEMMA TimePasses ==
    ASSUME IInv, NEW l \in Logins, Timed(l), ~Due(l),
           NEW r, r = [thr[l] EXCEPT !.sleep = Less(@), !.call = Less(@),
                         !.left = IF thr[l].pc = "asking" THEN @ ELSE @ - 1],
           NEW k, k = [code[l] EXCEPT !.left = Less(@),
                         !.rest = IF @ < MaxInterval THEN @ + 1 ELSE @]
    PROVE  /\ Good(r, k) /\ r.pc = thr[l].pc /\ r.provider = thr[l].provider
           /\ r.resCh = thr[l].resCh
<1>0. /\ thr[l] \in Goroutine /\ code[l] \in Code /\ Good(thr[l], code[l])
  BY Before
<1>1. /\ thr[l].provider = "github" /\ thr[l].pc \in {"asking", "sleeping", "polling"}
      /\ thr[l].pc = "sleeping" => thr[l].sleep # 0
      /\ thr[l].pc \in {"asking", "polling"} => thr[l].call # 0
  BY <1>0 DEF Timed, Due, Calling, InProgress, Good, Flow, Goroutine, PCs
<1>2. /\ r.sleep = Less(thr[l].sleep) /\ r.call = Less(thr[l].call)
      /\ r.left = IF thr[l].pc = "asking" THEN thr[l].left ELSE thr[l].left - 1
      /\ r.pc = thr[l].pc /\ r.provider = thr[l].provider /\ r.resCh = thr[l].resCh
      /\ r.interval = thr[l].interval /\ r.out = thr[l].out
  BY <1>0 DEF Goroutine
<1>3. /\ k.left = Less(code[l].left)
      /\ k.rest = IF code[l].rest < MaxInterval THEN code[l].rest + 1 ELSE code[l].rest
      /\ k.state = code[l].state /\ k.named = code[l].named /\ k.life = code[l].life
      /\ k.demand = code[l].demand /\ k.answer = code[l].answer /\ k.inTime = code[l].inTime
  BY <1>0 DEF Code
<1>4. /\ Less(thr[l].sleep) \in 0..MaxInterval /\ Less(thr[l].call) \in 0..CallTime
      /\ Less(code[l].left) \in Nat
      /\ thr[l].pc = "sleeping" => Less(thr[l].sleep) = thr[l].sleep - 1
      /\ thr[l].pc = "polling" => Less(thr[l].call) = thr[l].call - 1
      /\ Less(code[l].left) = 0 \/ Less(code[l].left) = code[l].left - 1
      /\ Less(code[l].left) <= code[l].left /\ Less(code[l].left) >= code[l].left - 1
  <2>1. thr[l].sleep \in 0..MaxInterval /\ thr[l].call \in 0..CallTime
    BY <1>0 DEF Goroutine
  <2> QED
    BY <1>1, <2>1, Numbers, IntervalsMatch DEF Less
<1>5. k.rest \in 0..MaxInterval
      /\ (k.rest = code[l].rest + 1 \/ (k.rest = code[l].rest /\ k.rest = MaxInterval))
  BY <1>3, Numbers, IntervalsMatch
<1>6. r \in Goroutine
  <2>1. r.left \in Int
    BY <1>2, Numbers
  <2> QED
    BY <1>0, <1>2, <1>4, <2>1 DEF Goroutine
<1>7. k \in Code
  BY <1>0, <1>3, <1>4, <1>5 DEF Code
<1>8. Flow(r, k)
  <2>1. code[l].left <= code[l].life => k.left <= k.life
    BY <1>3, <1>4, Numbers
  <2>2. code[l].left = 0 => k.left = 0
    BY <1>3 DEF Less
  <2> QED
    BY <1>0, <1>1, <1>2, <1>3, <2>1, <2>2 DEF Good, Flow
<1>9. Spaced(r, k)
  <2>1. ASSUME thr[l].pc = "sleeping"
        PROVE  r.sleep <= k.demand /\ k.rest + r.sleep >= k.demand
    <3>1. thr[l].sleep <= code[l].demand /\ code[l].rest + thr[l].sleep >= code[l].demand
      BY <1>0, <2>1 DEF Good, Spaced
    <3>2. r.sleep = thr[l].sleep - 1 /\ k.demand = code[l].demand /\ thr[l].sleep # 0
      BY <1>1, <1>2, <1>3, <1>4, <2>1
    <3> QED
      BY <1>5, <3>1, <3>2, Numbers, IntervalsMatch
  <2> QED
    BY <1>0, <1>2, <1>3, <2>1 DEF Good, Spaced
<1>10. Outlives(r, k)
  <2>1. ASSUME thr[l].pc = "sleeping"
        PROVE  r.left >= r.sleep - (r.interval + CallTime)
    <3>1. thr[l].left >= thr[l].sleep - (thr[l].interval + CallTime)
      BY <1>0, <2>1 DEF Good, Outlives
    <3>2. r.left = thr[l].left - 1 /\ r.sleep = thr[l].sleep - 1 /\ r.interval = thr[l].interval
      BY <1>2, <1>4, <2>1
    <3> QED
      BY <3>1, <3>2, Numbers, IntervalsMatch
  <2>2. ASSUME thr[l].pc = "polling"
        PROVE  r.left >= r.call - CallTime
    <3>1. thr[l].left >= thr[l].call - CallTime
      BY <1>0, <2>2 DEF Good, Outlives
    <3>2. r.left = thr[l].left - 1 /\ r.call = thr[l].call - 1
      BY <1>2, <1>4, <2>2
    <3> QED
      BY <3>1, <3>2, Numbers, IntervalsMatch
  <2>3. ASSUME thr[l].pc \in {"sleeping", "polling"}
        PROVE  k.left = 0 \/ k.left <= r.left
    <3>1. code[l].left = 0 \/ code[l].left <= thr[l].left
      BY <1>0, <2>3 DEF Good, Outlives
    <3>2. r.left = thr[l].left - 1
      BY <1>2, <2>3
    <3>3. CASE code[l].left = 0
      BY <1>3, <3>3 DEF Less
    <3>4. CASE code[l].left # 0 /\ code[l].left <= thr[l].left
      <4>1. k.left = code[l].left - 1
        BY <1>3, <3>4 DEF Less
      <4> QED
        BY <3>2, <3>4, <4>1, Numbers
    <3> QED
      BY <3>1, <3>3, <3>4
  <2> QED
    BY <1>1, <1>2, <2>1, <2>2, <2>3 DEF Outlives
<1>11. InTime(r, k)
  <2>1. ASSUME code[l].inTime, thr[l].pc = "sleeping"
        PROVE  k.state = "authorized" /\ k.left > r.sleep + CallTime
    <3>1. code[l].state = "authorized" /\ code[l].left > thr[l].sleep + CallTime
      BY <1>0, <2>1 DEF Good, InTime
    <3>2. r.sleep = thr[l].sleep - 1 /\ k.left >= code[l].left - 1 /\ k.left \in Nat
      BY <1>2, <1>3, <1>4, <2>1
    <3> QED
      BY <1>3, <3>1, <3>2, Numbers, IntervalsMatch
  <2>2. ASSUME code[l].inTime, thr[l].pc = "polling"
        PROVE  /\ k.answer \notin {"access_denied", "expired_token"}
               /\ k.answer = "none" => k.state = "authorized" /\ k.left > r.call
               /\ k.answer \in {"authorization_pending", "slow_down"} =>
                    k.state = "authorized" /\ k.left > r.call + k.demand + CallTime
    <3>1. /\ code[l].answer \notin {"access_denied", "expired_token"}
          /\ code[l].answer = "none" => code[l].state = "authorized" /\ code[l].left > thr[l].call
          /\ code[l].answer \in {"authorization_pending", "slow_down"} =>
               /\ code[l].state = "authorized"
               /\ code[l].left > thr[l].call + code[l].demand + CallTime
      BY <1>0, <2>2 DEF Good, InTime
    <3>2. r.call = thr[l].call - 1 /\ k.left >= code[l].left - 1 /\ k.left \in Nat
          /\ r.call \in Nat /\ thr[l].call \in Nat
      BY <1>2, <1>3, <1>4, <2>2, Numbers, IntervalsMatch
    <3>3. code[l].left > thr[l].call => k.left > r.call
      BY <3>2, Numbers
    <3>4. code[l].left > thr[l].call + code[l].demand + CallTime
            => k.left > r.call + code[l].demand + CallTime
      BY <3>2, Numbers, IntervalsMatch
    <3> QED
      BY <1>3, <3>1, <3>3, <3>4
  <2>3. code[l].left = 0 => k.left = 0
    BY <1>3 DEF Less
  <2>4. /\ thr[l].pc = "polling" /\ code[l].answer = "access_denied" => code[l].state = "denied"
        /\ thr[l].pc = "polling" /\ code[l].answer = "expired_token" => code[l].left = 0
        /\ code[l].inTime => code[l].state \in {"authorized", "used"}
        /\ code[l].inTime => thr[l].out \notin {"expired", "denied"}
    BY <1>0 DEF Good, InTime
  <2> QED
    BY <1>2, <1>3, <2>1, <2>2, <2>3, <2>4 DEF InTime
<1> QED
  BY <1>2, <1>6, <1>7, <1>8, <1>9, <1>10, <1>11 DEF Good

\* Time passes for every device login, and for no other.
LEMMA TickNext ==
    ASSUME IInv, Tick
    PROVE  IInv'
<1>1. UNCHANGED <<cb, prompt>> /\ \A l \in Logins : ~Due(l)
  BY DEF Tick
<1>2. ASSUME NEW l \in Logins
      PROVE  /\ Good(thr'[l], code'[l])
             /\ thr'[l].pc = thr[l].pc /\ thr'[l].provider = thr[l].provider
             /\ thr'[l].resCh = thr[l].resCh
  <2>1. CASE Timed(l)
    <3>1. /\ thr'[l] = [thr[l] EXCEPT !.sleep = Less(@), !.call = Less(@),
                          !.left = IF thr[l].pc = "asking" THEN @ ELSE @ - 1]
          /\ code'[l] = [code[l] EXCEPT !.left = Less(@),
                          !.rest = IF @ < MaxInterval THEN @ + 1 ELSE @]
      BY <2>1 DEF Tick
    <3> QED
      BY <1>1, <2>1, <3>1, TimePasses
  <2>2. CASE ~Timed(l)
    <3>1. thr'[l] = thr[l] /\ code'[l] = code[l]
      BY <2>2 DEF Tick
    <3> QED
      BY <3>1, Before
  <2> QED
    BY <2>1, <2>2
<1>3. thr' \in [Logins -> Goroutine] /\ code' \in [Logins -> Code]
  <2>1. \A l \in Logins : thr'[l] \in Goroutine /\ code'[l] \in Code
    BY <1>2 DEF Good
  <2>2. /\ thr' = [l \in Logins |-> thr'[l]] /\ code' = [l \in Logins |-> code'[l]]
    BY DEF Tick
  <2> QED
    BY <2>1, <2>2
<1>4. LoginsAreGood'
  <2>1. \A l \in Logins : Good(thr'[l], code'[l])
    BY <1>2
  <2> QED
    BY <1>3, <2>1 DEF LoginsAreGood, Good, Flow, Spaced, Outlives, InTime
<1>5. CallbacksAreTyped'
  BY <1>1, <1>2 DEF IInv, CallbacksAreTyped
<1>6. ResChIsBounded' /\ Prompt'
  BY <1>1, <1>2 DEF IInv, ResChIsBounded, Prompt, PromptIsLive, InProgress
<1> QED
  BY <1>4, <1>5, <1>6 DEF IInv

LEMMA IInvInit == Init => IInv
<1> SUFFICES ASSUME Init
             PROVE  IInv
  OBVIOUS
<1>1. NoCode \in Code /\ NoCode.left = 0 /\ ~NoCode.inTime /\ NoCode.answer = "none"
  BY SignInAssumption DEF Code, NoCode, Answers
<1>2. PICK flow \in Flows :
        thr = [l \in Logins |->
                 [pc |-> "idle", provider |-> flow[l], interval |-> 0, sleep |-> 0,
                  left |-> 0, call |-> 0, cancelled |-> FALSE, resCh |-> <<>>, out |-> "none"]]
  BY DEF Init
<1>3. ASSUME NEW l \in Logins
      PROVE  /\ thr[l] \in Goroutine /\ Good(thr[l], code[l])
             /\ Len(thr[l].resCh) <= Buffer
  <2>1. /\ flow[l] \in {"github", "oidc", "go-authn"}
        /\ 0 \in 0..MaxInterval /\ 0 \in 0..CallTime /\ 0 <= Buffer
    BY SignInAssumption
  <2>2. <<>> \in Seq(Results) /\ Len(<<>>) = 0
    BY EmptySeq
  <2>3. thr[l] \in Goroutine
    BY <1>2, <2>1, <2>2 DEF Goroutine, PCs, Outcomes
  <2>4. /\ thr[l].pc = "idle" /\ thr[l].out = "none" /\ thr[l].interval = 0
        /\ thr[l].left = 0 /\ thr[l].resCh = <<>>
    BY <1>2
  <2>5. code[l] = NoCode
    BY DEF Init
  <2>6. Flow(thr[l], code[l]) /\ Spaced(thr[l], code[l])
    BY <1>1, <2>4, <2>5 DEF Flow, Spaced
  <2>7. Outlives(thr[l], code[l]) /\ InTime(thr[l], code[l])
    BY <1>1, <2>4, <2>5 DEF Outlives, InTime
  <2> QED
    BY <1>1, <2>1, <2>2, <2>3, <2>4, <2>5, <2>6, <2>7 DEF Good
<1>4. LoginsAreGood
  <2>1. thr \in [Logins -> Goroutine]
    BY <1>2, <1>3
  <2>2. code \in [Logins -> Code]
    BY <1>1 DEF Init
  <2> QED
    BY <1>3, <2>1, <2>2 DEF LoginsAreGood
<1>5. CallbacksAreTyped
  <2>1. [pc |-> "unused", of |-> None, what |-> "failed"] \in Callback
    BY DEF Callback, Results
  <2> QED
    BY <2>1 DEF Init, CallbacksAreTyped
<1>6. ResChIsBounded /\ Prompt
  BY <1>3, SignInAssumption DEF Init, ResChIsBounded, Prompt, PromptIsLive
<1> QED
  BY <1>4, <1>5, <1>6 DEF IInv

LEMMA IInvNext == IInv /\ [Next]_vars => IInv'
<1> SUFFICES ASSUME IInv, [Next]_vars
             PROVE  IInv'
  OBVIOUS
<1>1. CASE UNCHANGED vars
  BY <1>1 DEF vars, IInv, LoginsAreGood, Good, Flow, Spaced, Outlives, InTime,
              CallbacksAreTyped, ResChIsBounded, Prompt, PromptIsLive, InProgress
<1>2. ASSUME NEW l \in Logins,
             \/ Login(l) \/ Cancel(l) \/ LoginStep(l)
             \/ GivesCode(l) \/ Answered(l)
             \/ Authorizes(l) \/ Denies(l)
      PROVE  IInv'
  BY <1>2, LoginNext, CancelNext, LoginStepNext, GivesCodeNext, AnsweredNext, PersonNext
<1>3. ASSUME NEW c \in Callbacks, HandlerStep(c)
      PROVE  IInv'
  BY <1>3, ExchangeNext, SendsNext DEF HandlerStep
<1>4. ASSUME NEW c \in Callbacks, NEW l \in Logins, CallbackRefused(c, l) \/ CallbackCode(c, l)
      PROVE  IInv'
  BY <1>4, CallbackNext
<1>5. CASE Tick
  BY <1>5, TickNext
<1> QED
  BY <1>1, <1>2, <1>3, <1>4, <1>5 DEF Next

LEMMA Invariance == Spec => []IInv
  BY IInvInit, IInvNext, PTL DEF Spec

-----------------------------------------------------------------------------
\* The logins, their codes, the callbacks and the prompt have their types, and
\* resCh never holds more than its buffer does.
THEOREM TypeCorrect == Spec => []TypeOK
<1>1. IInv => TypeOK
  BY DEF IInv, LoginsAreGood, CallbacksAreTyped, ResChIsBounded, Prompt, TypeOK
<1> QED
  BY <1>1, Invariance, PTL

\* What Status shows the person to do belongs to a sign-in that is under way
\* (appcore.go:213-222).
THEOREM PromptIsLiveCorrect == Spec => []PromptIsLive
<1>1. IInv => PromptIsLive
  BY DEF IInv, Prompt
<1> QED
  BY <1>1, Invariance, PTL

\* A device login outlives its code by one poll and one interval at most
\* (github.go:67-76).
THEOREM EndsWithItsCodeCorrect == Spec => []EndsWithItsCode
<1>1. ASSUME IInv, NEW l \in Logins, Timed(l)
      PROVE  thr[l].left >= -(thr[l].interval + CallTime)
  <2>1. /\ thr[l].provider = "github"
        /\ thr[l].pc \in {"asking", "sleeping", "polling", "saving"}
        /\ thr[l] \in Goroutine /\ Good(thr[l], code[l])
    BY <1>1, Before DEF Timed, InProgress, Good, Flow, Goroutine, PCs
  <2>2. CASE thr[l].pc = "asking"
    BY <1>1, <2>1, <2>2, Numbers, IntervalsMatch DEF Good, Flow
  <2>3. CASE thr[l].pc = "sleeping"
    BY <1>1, <2>1, <2>3, Numbers, IntervalsMatch DEF Good, Outlives
  <2>4. CASE thr[l].pc = "polling"
    BY <1>1, <2>1, <2>4, Numbers, IntervalsMatch DEF Good, Outlives
  <2>5. CASE thr[l].pc = "saving"
    BY <1>1, <2>1, <2>5, Numbers, IntervalsMatch DEF Good, Outlives
  <2> QED
    BY <2>1, <2>2, <2>3, <2>4, <2>5
<1>2. IInv => EndsWithItsCode
  BY <1>1 DEF EndsWithItsCode
<1> QED
  BY <1>2, Invariance, PTL

\* A person who authorizes the code while it is good for more than one interval
\* and two calls is not told that it expired (github.go:67-76, 105).
THEOREM AuthorizedInTimeSignsInCorrect == Spec => []AuthorizedInTimeSignsIn
<1>1. IInv => AuthorizedInTimeSignsIn
  BY DEF IInv, LoginsAreGood, Good, InTime, AuthorizedInTimeSignsIn
<1> QED
  BY <1>1, Invariance, PTL

-----------------------------------------------------------------------------
\* Nothing but the end of its sleep has a login poll.
LEMMA WakesToPoll ==
    ASSUME IInv, [Next]_vars, NEW l \in Logins,
           thr[l].pc = "sleeping", thr'[l].pc = "polling"
    PROVE  thr[l].sleep = 0
<1>0. thr \in [Logins -> Goroutine]
  BY DEF IInv, LoginsAreGood
<1>1. CASE thr' = thr
  BY <1>1
<1>2. ASSUME NEW m \in Logins, NEW res, NEW out, Returns(m, res, out)
      PROVE  FALSE
  BY <1>0, <1>2 DEF Returns
<1>3. ASSUME NEW m \in Logins,
             \/ Login(m) \/ Cancel(m) \/ GotCode(m) \/ SleepsOn(m) \/ GotToken(m)
             \/ LibraryAsks(m) \/ Listens(m)
      PROVE  FALSE
  <2>1. CASE Login(m) \/ Cancel(m)
    <3>1. thr[m] \in Goroutine
      BY <1>0
    <3>2. CASE Login(m)
      BY <1>0, <3>1, <3>2 DEF Login, Goroutine
    <3>3. CASE Cancel(m)
      BY <1>0, <3>1, <3>3 DEF Cancel, Goroutine
    <3> QED
      BY <2>1, <3>2, <3>3
  <2>2. CASE GotCode(m) \/ SleepsOn(m)
    BY <1>0, <2>2 DEF GotCode, SleepsOn, Goroutine
  <2>3. CASE GotToken(m) \/ LibraryAsks(m) \/ Listens(m)
    BY <1>0, <2>3 DEF GotToken, LibraryAsks, Listens, Goroutine
  <2> QED
    BY <1>3, <2>1, <2>2, <2>3
<1>4. ASSUME NEW m \in Logins, Polls(m)
      PROVE  thr[l].sleep = 0
  BY <1>0, <1>4 DEF Polls, Awake, Goroutine
<1>5. ASSUME NEW m \in Logins,
             \/ Cancelled(m) \/ CallFails(m) \/ Saved(m) \/ Expires(m) \/ PollRefused(m)
      PROVE  FALSE
  BY <1>2, <1>5 DEF Cancelled, CallFails, Saved, Expires, PollRefused, Ends
<1>6. ASSUME NEW m \in Logins, LibraryReturns(m)
      PROVE  FALSE
  BY <1>0, <1>2, <1>6 DEF LibraryReturns, Ends, Goroutine
<1>7. ASSUME NEW m \in Logins, Receives(m)
      PROVE  FALSE
  <2>1. CASE Returns(m, Tail(thr[m].resCh), "refused")
    BY <1>2, <2>1
  <2>2. CASE thr' = [thr EXCEPT ![m].pc = "saving", ![m].resCh = Tail(thr[m].resCh)]
    BY <1>0, <2>2 DEF Goroutine
  <2> QED
    BY <1>7, <2>1, <2>2 DEF Receives
<1>8. ASSUME NEW c \in Callbacks, Sends(c)
      PROVE  FALSE
  BY <1>0, <1>8 DEF Sends, Goroutine
<1>9. CASE Tick
  <2>1. thr[l] \in Goroutine
    BY <1>0
  <2>2. thr'[l].pc = thr[l].pc
    BY <1>9, <2>1 DEF Tick, Goroutine
  <2> QED
    BY <2>2
<1>10. ASSUME NEW m \in Logins,
              \/ GivesCode(m) \/ Answered(m) \/ Authorizes(m) \/ Denies(m)
       PROVE  FALSE
  BY <1>1, <1>10 DEF GivesCode, Answered, Authorizes, Denies
<1>11. ASSUME NEW c \in Callbacks,
              \/ Exchanged(c) \/ ExchangeFails(c)
              \/ \E m \in Logins : CallbackRefused(c, m) \/ CallbackCode(c, m)
       PROVE  FALSE
  BY <1>1, <1>11 DEF Exchanged, ExchangeFails, CallbackRefused, CallbackCode
<1> QED
  BY <1>1, <1>3, <1>4, <1>5, <1>6, <1>7, <1>8, <1>9, <1>10, <1>11
     DEF Next, LoginStep, HandlerStep, vars

\* A server that has asked for patience is not asked again before the interval
\* it asked for, its slow_downs counted, has gone by (github.go:63-71, 101).
THEOREM PollsAreSpacedCorrect == Spec => PollsAreSpaced
<1>1. ASSUME IInv, [Next]_vars, NEW l \in Logins,
             thr[l].pc = "sleeping", thr'[l].pc = "polling"
      PROVE  code[l].rest >= code[l].demand
  <2>1. code[l].rest + thr[l].sleep >= code[l].demand
    BY <1>1, Before DEF Good, Spaced
  <2> QED
    BY <1>1, <2>1, WakesToPoll, Numbers
<1>2. IInv /\ [Next]_vars =>
        \A l \in Logins : (thr[l].pc = "sleeping" /\ thr'[l].pc = "polling")
                            => code[l].rest >= code[l].demand
  BY <1>1
<1> QED
  BY <1>2, Invariance, PTL DEF Spec, PollsAreSpaced

-----------------------------------------------------------------------------
\* No step but a handler's send and Login's receive changes a resCh, and what a
\* handler that returned has sent, it has sent.
LEMMA ResultsStay ==
    ASSUME ResultsAreOfHandlers,
           \A l \in Logins : thr'[l].resCh \in {thr[l].resCh, <<>>},
           \A d \in Callbacks : cb[d].pc = "returned" => cb'[d] = cb[d]
    PROVE  ResultsAreOfHandlers'
<1>1. ASSUME NEW l \in Logins
      PROVE  \/ thr'[l].resCh = <<>>
             \/ \E d \in Callbacks : /\ cb'[d].pc = "returned" /\ cb'[d].of = l
                                     /\ thr'[l].resCh = <<cb'[d].what>>
  BY DEF ResultsAreOfHandlers
<1> QED
  BY <1>1 DEF ResultsAreOfHandlers

\* A resCh of one result is empty once it was taken, and holds what was sent.
LEMMA OneResult ==
    /\ \A x \in Results : Tail(<<x>>) = <<>>
    /\ \A s \in Seq(Results), x \in Results : s = <<>> => Append(s, x) = <<x>>
<1>1. ASSUME NEW x \in Results
      PROVE  Tail(<<x>>) = <<>>
  <2>1. <<x>> \in Seq(Results) /\ <<x>> # <<>> /\ Len(<<x>>) = 1
    OBVIOUS
  <2>2. Tail(<<x>>) \in Seq(Results) /\ Len(Tail(<<x>>)) = 0
    BY <2>1, HeadTailProperties
  <2> QED
    BY <2>2, EmptySeq
<1>2. \A s \in Seq(Results), x \in Results : s = <<>> => Append(s, x) = <<x>>
  OBVIOUS
<1> QED
  BY <1>1, <1>2

LEMMA ResultsNext ==
    ASSUME Buffer = 1, IInv, ResultsAreOfHandlers, [Next]_vars
    PROVE  ResultsAreOfHandlers'
<1>0. /\ thr \in [Logins -> Goroutine] /\ cb \in [Callbacks -> Callback]
      /\ \A l \in Logins : thr[l] \in Goroutine
      /\ \A l \in Logins : thr[l].resCh \in Seq(Results)
  BY DEF IInv, LoginsAreGood, CallbacksAreTyped, Goroutine
<1>1. CASE thr' = thr /\ cb' = cb
  BY <1>1, ResultsStay
<1>2. ASSUME NEW m \in Logins, cb' = cb,
             thr'[m].resCh \in {thr[m].resCh, <<>>}, \A l \in Logins \ {m} : thr'[l] = thr[l]
      PROVE  ResultsAreOfHandlers'
  <2>1. \A l \in Logins : thr'[l].resCh \in {thr[l].resCh, <<>>}
    BY <1>2
  <2> QED
    BY <1>2, <2>1, ResultsStay
<1>3. ASSUME NEW m \in Logins, NEW out, Ends(m, out), cb' = cb
      PROVE  ResultsAreOfHandlers'
  BY <1>0, <1>2, <1>3 DEF Ends, Returns
<1>4. ASSUME NEW m \in Logins,
             \/ Cancelled(m) \/ CallFails(m) \/ Saved(m) \/ Expires(m) \/ PollRefused(m)
             \/ LibraryReturns(m)
      PROVE  ResultsAreOfHandlers'
  <2>1. CASE \E out \in Outcomes : Ends(m, out) /\ cb' = cb
    BY <1>3, <2>1
  <2>2. CASE thr' = [thr EXCEPT ![m].pc = "saving"] /\ cb' = cb
    BY <1>0, <1>2, <2>2 DEF Goroutine
  <2> QED
    BY <1>4, <2>1, <2>2
       DEF Cancelled, CallFails, Saved, Expires, PollRefused, LibraryReturns, Outcomes
<1>5. ASSUME NEW m \in Logins, Login(m) \/ Cancel(m) \/ Polls(m)
      PROVE  ResultsAreOfHandlers'
  <2>1. thr'[m].resCh = thr[m].resCh
    BY <1>0, <1>5 DEF Login, Cancel, Polls, Goroutine
  <2> QED
    BY <1>0, <1>2, <1>5, <2>1 DEF Login, Cancel, Polls
<1>6. ASSUME NEW m \in Logins, GotCode(m) \/ SleepsOn(m)
      PROVE  ResultsAreOfHandlers'
  <2>1. thr'[m].resCh = thr[m].resCh
    BY <1>0, <1>6 DEF GotCode, SleepsOn, Goroutine
  <2> QED
    BY <1>0, <1>2, <1>6, <2>1 DEF GotCode, SleepsOn
<1>7. ASSUME NEW m \in Logins, GotToken(m) \/ LibraryAsks(m) \/ Listens(m)
      PROVE  ResultsAreOfHandlers'
  <2>1. thr'[m].resCh = thr[m].resCh
    BY <1>0, <1>7 DEF GotToken, LibraryAsks, Listens, Goroutine
  <2> QED
    BY <1>0, <1>2, <1>7, <2>1 DEF GotToken, LibraryAsks, Listens
<1>8. ASSUME NEW m \in Logins, Receives(m)
      PROVE  ResultsAreOfHandlers'
  <2>1. \E d \in Callbacks : thr[m].resCh = <<cb[d].what>> /\ cb[d].what \in Results
    BY <1>0, <1>8 DEF Receives, ResultsAreOfHandlers, Callback
  <2>2. Tail(thr[m].resCh) = <<>>
    BY <2>1, OneResult
  <2>3. CASE thr' = [thr EXCEPT ![m].pc = "saving", ![m].resCh = Tail(thr[m].resCh)]
    <3>1. thr'[m].resCh = <<>>
      BY <1>0, <2>2, <2>3 DEF Goroutine
    <3> QED
      BY <1>0, <1>2, <1>8, <2>3, <3>1 DEF Receives
  <2>4. CASE Returns(m, Tail(thr[m].resCh), "refused")
    <3>1. thr'[m].resCh = <<>>
      BY <1>0, <2>2, <2>4 DEF Returns
    <3> QED
      BY <1>0, <1>2, <1>8, <2>4, <3>1 DEF Receives, Returns
  <2> QED
    BY <1>8, <2>3, <2>4 DEF Receives
<1>9. ASSUME NEW c \in Callbacks, Sends(c)
      PROVE  ResultsAreOfHandlers'
  <2> DEFINE l == cb[c].of
  <2>1. cb[c].pc = "sending" /\ cb[c] \in Callback /\ l \in Logins /\ Len(thr[l].resCh) < 1
    BY <1>0, <1>9 DEF Sends, Room, IInv, CallbacksAreTyped
  <2>2. thr[l].resCh = <<>> /\ thr[l].resCh \in Seq(Results)
    BY <1>0, <2>1, EmptySeq, LenProperties
  <2>3. Append(thr[l].resCh, cb[c].what) = <<cb[c].what>>
    BY <2>1, <2>2, OneResult DEF Callback
  <2>4. thr'[l].resCh = <<cb[c].what>> /\ \A m \in Logins \ {l} : thr'[m] = thr[m]
    BY <1>0, <1>9, <2>1, <2>3 DEF Sends, Goroutine
  <2>5. /\ cb'[c].pc = "returned" /\ cb'[c].of = l /\ cb'[c].what = cb[c].what
        /\ \A d \in Callbacks \ {c} : cb'[d] = cb[d]
    BY <1>0, <1>9, <2>1 DEF Sends, Callback
  <2> HIDE DEF l
  <2>6. ASSUME NEW m \in Logins \ {l}
        PROVE  \/ thr'[m].resCh = <<>>
               \/ \E d \in Callbacks : /\ cb'[d].pc = "returned" /\ cb'[d].of = m
                                       /\ thr'[m].resCh = <<cb'[d].what>>
    BY <2>1, <2>4, <2>5 DEF ResultsAreOfHandlers
  <2> QED
    BY <2>4, <2>5, <2>6 DEF ResultsAreOfHandlers
<1>10. CASE Tick
  <2>1. ASSUME NEW l \in Logins
        PROVE  thr'[l].resCh = thr[l].resCh
    <3>1. thr[l] \in Goroutine
      BY <1>0
    <3> QED
      BY <1>10, <3>1 DEF Tick, Goroutine
  <2> QED
    BY <1>10, <2>1, ResultsStay DEF Tick
<1>11. ASSUME NEW m \in Logins,
              \/ GivesCode(m) \/ Answered(m) \/ Authorizes(m) \/ Denies(m)
       PROVE  ResultsAreOfHandlers'
  BY <1>1, <1>11 DEF GivesCode, Answered, Authorizes, Denies
<1>12. ASSUME NEW c \in Callbacks,
              \/ Exchanged(c) \/ ExchangeFails(c)
              \/ \E m \in Logins : CallbackRefused(c, m) \/ CallbackCode(c, m)
       PROVE  ResultsAreOfHandlers'
  <2>1. thr' = thr /\ cb[c].pc # "returned" /\ \A d \in Callbacks \ {c} : cb'[d] = cb[d]
    BY <1>0, <1>12 DEF Exchanged, ExchangeFails, CallbackRefused, CallbackCode
  <2> QED
    BY <2>1, ResultsStay
<1> QED
  BY <1>1, <1>4, <1>5, <1>6, <1>7, <1>8, <1>9, <1>10, <1>11, <1>12
     DEF Next, LoginStep, HandlerStep, vars

\* resCh is made with room for one result (oidc.go:84), and so the handler of a
\* callback finds room in it once the login is over, unless another handler has
\* left its result there (oidc.go:84-108).
THEOREM HandlersFindRoomCorrect == (Buffer = 1) => (Spec => []HandlersFindRoom)
<1> SUFFICES ASSUME Buffer = 1
             PROVE  Spec => []HandlersFindRoom
  OBVIOUS
<1>1. Init => ResultsAreOfHandlers
  <2>1. Init => \A l \in Logins : thr[l].resCh = <<>>
    <3>1. ASSUME Init, NEW l \in Logins
          PROVE  thr[l].resCh = <<>>
      <4>1. PICK flow \in Flows :
              thr = [m \in Logins |->
                       [pc |-> "idle", provider |-> flow[m], interval |-> 0, sleep |-> 0,
                        left |-> 0, call |-> 0, cancelled |-> FALSE, resCh |-> <<>>,
                        out |-> "none"]]
        BY <3>1 DEF Init
      <4> QED
        BY <4>1
    <3> QED
      BY <3>1
  <2> QED
    BY <2>1 DEF ResultsAreOfHandlers
<1>2. IInv /\ ResultsAreOfHandlers /\ [Next]_vars => ResultsAreOfHandlers'
  BY ResultsNext
<1>3. IInv /\ ResultsAreOfHandlers => HandlersFindRoom
  <2> SUFFICES ASSUME IInv, ResultsAreOfHandlers, NEW c \in Callbacks,
                      cb[c].pc = "sending", ~Room(cb[c].of)
               PROVE  \E d \in Callbacks \ {c} :
                        /\ cb[d].pc = "returned" /\ cb[d].of = cb[c].of
                        /\ thr[cb[c].of].resCh = <<cb[d].what>>
    BY DEF HandlersFindRoom
  <2>1. cb[c].of \in Logins
    BY DEF IInv, CallbacksAreTyped
  <2>2. thr[cb[c].of].resCh # <<>>
    BY EmptySeq DEF Room
  <2> QED
    BY <2>1, <2>2 DEF ResultsAreOfHandlers
<1> QED
  BY <1>1, <1>2, <1>3, Invariance, PTL DEF Spec
=============================================================================
