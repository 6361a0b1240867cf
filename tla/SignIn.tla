------------------------------- MODULE SignIn -------------------------------
(***************************************************************************)
(* Signing in: Core.Login (pkg/appcore/appcore.go) with the flows of the   *)
(* providers of pkg/auth -- GitHub's device flow (github.go), the browser  *)
(* flow of pkg/oidc, and go-authn's, whose polling is a library's.         *)
(*                                                                         *)
(* A login is one call of Core.Login; two may overlap.  The device flow    *)
(* has a clock: every date is kept as the time left until it, and Tick     *)
(* lets one unit pass (five seconds, in the run), but not while a          *)
(* goroutine is due.  The browser flow waits for as long as the caller     *)
(* lets it.  The session that Login saves is AppCore's.                    *)
(***************************************************************************)
EXTENDS Integers, Sequences

CONSTANTS
    Logins,           \* the calls of Core.Login
    Flows,            \* with which providers they may be configured
    Callbacks,        \* the browser's requests to a loopback listener
    None,             \* no login
    Intervals,        \* the polling intervals GitHub may name; 0: it names none
    Lifetimes,        \* how long its device codes live
    DefaultInterval,  \* the client's interval when GitHub names none
    SlowStep,         \* by how much "slow_down" lengthens it
    CallTime,         \* the time-out of githubProvider's HTTP client
    Buffer,           \* the capacity of resCh
    MaxInterval       \* bound: the longest interval GitHub asks for

ASSUME SignInAssumption ==
    /\ None \notin Logins
    /\ Flows \subseteq [Logins -> {"github", "oidc", "go-authn"}]
    /\ Intervals \subseteq Nat /\ Lifetimes \subseteq Nat
    /\ {DefaultInterval, SlowStep, CallTime, Buffer, MaxInterval} \subseteq Nat \ {0}
    /\ \A i \in Intervals \cup {DefaultInterval} : i <= MaxInterval

VARIABLES
    thr,     \* the logins' goroutines
    code,    \* external: what the provider holds of each login
    cb,      \* the handlers of the browser's callbacks
    prompt   \* whose prompt c.devURI and c.devCode hold

vars == <<thr, code, cb, prompt>>

-----------------------------------------------------------------------------
PCs == {"idle", "asking", "sleeping", "polling", "library", "waiting", "saving", "done"}

Outcomes == {"none", "token", "cancelled", "callFailed", "expired", "denied", "refused"}

Results == {"token", "failed"}  \* what a callback sends on resCh

Answers == {"none", "authorization_pending", "slow_down", "access_denied",
            "expired_token", "token", "other"}

Goroutine == [pc : PCs, provider : {"github", "oidc", "go-authn"},
              interval : 0..MaxInterval,
              sleep : 0..MaxInterval,  \* until time.After fires
              left : Int,              \* until the deadline; below 0, it is past
              call : 0..CallTime,      \* until the HTTP call times out
              cancelled : BOOLEAN,     \* ctx is done
              resCh : Seq(Results),
              out : Outcomes]

\* rest is the time since the server last answered about the code, counted up
\* to MaxInterval.  inTime is history: when the person authorized the code, it
\* was good for more than one interval and two calls.
Code == [state : {"none", "pending", "authorized", "denied", "used"},
         named : Intervals \cup {0},  \* the interval it came with
         life : Lifetimes \cup {0},   \* expires_in
         left : Nat,                  \* until it expires
         demand : 0..MaxInterval,     \* the interval the server now asks for
         answer : Answers,            \* to the poll under way
         rest : 0..MaxInterval, inTime : BOOLEAN]

NoCode == [state |-> "none", named |-> 0, life |-> 0, left |-> 0, demand |-> 0,
           answer |-> "none", rest |-> 0, inTime |-> FALSE]

Callback == [pc : {"unused", "exchanging", "sending", "returned"},
             of : Logins \cup {None}, what : Results]

TypeOK ==
    /\ thr \in [Logins -> Goroutine]
    /\ code \in [Logins -> Code]
    /\ cb \in [Callbacks -> Callback]
    /\ prompt \in Logins \cup {None}
    /\ \A l \in Logins : Len(thr[l].resCh) <= Buffer

Init ==
    /\ \E flow \in Flows :
         thr = [l \in Logins |->
                  [pc |-> "idle", provider |-> flow[l], interval |-> 0, sleep |-> 0,
                   left |-> 0, call |-> 0, cancelled |-> FALSE, resCh |-> <<>>, out |-> "none"]]
    /\ code = [l \in Logins |-> NoCode]
    /\ cb = [c \in Callbacks |-> [pc |-> "unused", of |-> None, what |-> "failed"]]
    /\ prompt = None

InProgress(l) == thr[l].pc \notin {"idle", "done"}

\* githubProvider.form is out.
Calling(l) == thr[l].provider = "github" /\ thr[l].pc \in {"asking", "polling"}

-----------------------------------------------------------------------------
(* Core.Login.  Its deferred function takes the prompt away, whichever     *)
(* login's it is.                                                          *)

\* The locals of a login end with it, and what the server holds of its code is
\* of no matter any more.  What is in resCh stays.
Returns(l, res, out) ==
    /\ thr' = [thr EXCEPT ![l] =
                 [pc |-> "done", provider |-> @.provider, interval |-> 0, sleep |-> 0, left |-> 0,
                  call |-> 0, cancelled |-> FALSE, resCh |-> res, out |-> out]]
    /\ code' = [code EXCEPT ![l] = [NoCode EXCEPT !.state = code[l].state,
                                                  !.inTime = code[l].inTime]]

\* Mutant: only a sign-in that succeeds takes the prompt away.
Ends_OnSuccess(l, out) ==
    /\ Returns(l, thr[l].resCh, out)
    /\ prompt' = IF out = "token" THEN None ELSE prompt

Ends(l, out) ==
    /\ Returns(l, thr[l].resCh, out)
    /\ prompt' = None

Login(l) ==
    /\ thr[l].pc = "idle"
    /\ thr' = [thr EXCEPT ![l].pc = "asking", ![l].call = CallTime]
    /\ UNCHANGED <<code, cb, prompt>>

\* The caller of Core.Login gives it up.
Cancel(l) ==
    /\ InProgress(l) /\ ~thr[l].cancelled
    /\ thr' = [thr EXCEPT ![l].cancelled = TRUE]
    /\ UNCHANGED <<code, cb, prompt>>

\* A select or a call that ends with its context.
Cancelled(l) ==
    /\ InProgress(l) /\ thr[l].pc # "saving" /\ thr[l].cancelled
    /\ Ends(l, "cancelled")
    /\ UNCHANGED cb

\* The call for a device code or a poll fails; or OIDC's discovery does, or
\* its listener.
CallFails(l) ==
    /\ thr[l].pc \in {"asking", "polling"}
    /\ Ends(l, "callFailed")
    /\ UNCHANGED cb

Saved(l) ==
    /\ thr[l].pc = "saving"
    /\ Ends(l, "token")
    /\ UNCHANGED cb

-----------------------------------------------------------------------------
(* GitHub's device flow.                                                   *)

\* The interval of a code that came with i.  RFC 8628 has the client take
\* five seconds when the server names none.
OrDefault(i) == IF i = 0 THEN DefaultInterval ELSE i

ClientInterval(i) == IF i <= 0 THEN DefaultInterval ELSE i

GivesCode(l) ==
    /\ thr[l].provider = "github" /\ thr[l].pc = "asking" /\ code[l].state = "none"
    /\ \E i \in Intervals, life \in Lifetimes :
         code' = [code EXCEPT ![l].state = "pending", ![l].named = i, ![l].life = life,
                              ![l].left = life, ![l].demand = OrDefault(i)]
    /\ UNCHANGED <<thr, cb, prompt>>

\* The code is shown, and the deadline is set by the client's own clock.
GotCode(l) ==
    /\ thr[l].provider = "github" /\ thr[l].pc = "asking" /\ code[l].state # "none"
    /\ thr' = [thr EXCEPT ![l].pc = "sleeping", ![l].left = code[l].life,
                 ![l].interval = ClientInterval(code[l].named),
                 ![l].sleep = ClientInterval(code[l].named)]
    /\ prompt' = l
    /\ UNCHANGED <<code, cb>>

Awake(l) == thr[l].pc = "sleeping" /\ thr[l].sleep = 0

\* Mutant: the deadline is not looked at.
Past_Never(l) == FALSE

Past(l) == thr[l].left < 0

Expires(l) ==
    /\ Awake(l) /\ Past(l)
    /\ Ends(l, "expired")
    /\ UNCHANGED cb

Polls(l) ==
    /\ Awake(l) /\ ~Past(l)
    /\ thr' = [thr EXCEPT ![l].pc = "polling", ![l].call = CallTime]
    /\ code' = [code EXCEPT ![l].answer = "none"]
    /\ UNCHANGED <<cb, prompt>>

\* The server answers a poll.  It knows the code for as long as it lives, asks
\* for patience only while the person has not answered, and may fail.
Answer(l, a) ==
    CASE a = "authorization_pending" -> code[l].state = "pending" /\ code[l].left > 0
      [] a = "slow_down" -> /\ code[l].state = "pending" /\ code[l].left > 0
                            /\ code[l].demand + SlowStep <= MaxInterval
      [] a = "token" -> code[l].state = "authorized" /\ code[l].left > 0
      [] a = "access_denied" -> code[l].state = "denied"
      [] a = "expired_token" -> code[l].left = 0
      [] a = "other" -> TRUE

Answered(l) ==
    /\ thr[l].pc = "polling" /\ code[l].answer = "none"
    /\ \E a \in Answers \ {"none"} :
         /\ Answer(l, a)
         /\ code' = [code EXCEPT ![l].answer = a, ![l].rest = 0,
                       ![l].demand = IF a = "slow_down" THEN @ + SlowStep ELSE @,
                       ![l].state = IF a = "token" THEN "used" ELSE @]
    /\ UNCHANGED <<thr, cb, prompt>>

Heard(l, a) == thr[l].pc = "polling" /\ code[l].answer = a

\* Mutant: slow_down doubles the interval.
Slowed_Doubled(i) == 2 * i

\* Mutant: slow_down is taken for authorization_pending.
Slowed_NotAtAll(i) == i

Slowed(i) == i + SlowStep

SleepsOn(l) ==
    \E a \in {"authorization_pending", "slow_down"} :
      /\ Heard(l, a)
      /\ LET i == IF a = "slow_down" THEN Slowed(thr[l].interval) ELSE thr[l].interval IN
         thr' = [thr EXCEPT ![l].pc = "sleeping", ![l].interval = i, ![l].sleep = i]
      /\ UNCHANGED <<code, cb, prompt>>

GotToken(l) ==
    /\ Heard(l, "token")
    /\ thr' = [thr EXCEPT ![l].pc = "saving"]
    /\ UNCHANGED <<code, cb, prompt>>

\* Denied, expired, an error of another name, or no token in the answer.
PollRefused(l) ==
    /\ \/ Heard(l, "access_denied") /\ Ends(l, "denied")
       \/ Heard(l, "expired_token") /\ Ends(l, "expired")
       \/ Heard(l, "other") /\ Ends(l, "refused")
    /\ UNCHANGED cb

-----------------------------------------------------------------------------
(* The person, before the page that the prompt leads to.                   *)

AtThePage(l) ==
    /\ thr[l].pc \in {"sleeping", "polling", "library", "waiting"}
    /\ code[l].state = "pending"
    /\ thr[l].provider = "github" => code[l].left > 0

Authorizes(l) ==
    /\ AtThePage(l)
    /\ code' = [code EXCEPT ![l].state = "authorized",
                  ![l].inTime = @ \/ code[l].left > code[l].demand + 2 * CallTime]
    /\ UNCHANGED <<thr, cb, prompt>>

Denies(l) ==
    /\ AtThePage(l)
    /\ code' = [code EXCEPT ![l].state = "denied"]
    /\ UNCHANGED <<thr, cb, prompt>>

-----------------------------------------------------------------------------
(* go-authn: oauth2's DeviceAuth and DeviceAccessToken.                    *)

LibraryAsks(l) ==
    /\ thr[l].provider = "go-authn" /\ thr[l].pc = "asking"
    /\ thr' = [thr EXCEPT ![l].pc = "library"]
    /\ code' = [code EXCEPT ![l].state = "pending"]
    /\ prompt' = l
    /\ UNCHANGED cb

LibraryReturns(l) ==
    /\ thr[l].pc = "library"
    /\ \/ /\ code[l].state = "authorized"
          /\ thr' = [thr EXCEPT ![l].pc = "saving"]
          /\ UNCHANGED <<code, prompt>>
       \/ Ends(l, "refused")
    /\ UNCHANGED cb

-----------------------------------------------------------------------------
(* oidc.Login: a loopback server whose handlers send what they found on    *)
(* resCh, and a select that takes the first.                               *)

\* The server runs, the prompt is shown and the browser opened.
Listens(l) ==
    /\ thr[l].provider = "oidc" /\ thr[l].pc = "asking"
    /\ thr' = [thr EXCEPT ![l].pc = "waiting"]
    /\ code' = [code EXCEPT ![l].state = "pending"]
    /\ prompt' = l
    /\ UNCHANGED cb

\* A callback with an error, or with the state of another sign-in.
CallbackRefused(c, l) ==
    /\ cb[c].pc = "unused" /\ thr[l].pc = "waiting"
    /\ cb' = [cb EXCEPT ![c] = [pc |-> "sending", of |-> l, what |-> "failed"]]
    /\ UNCHANGED <<thr, code, prompt>>

\* A callback with the code, which a reload of the page brings again.
CallbackCode(c, l) ==
    /\ cb[c].pc = "unused" /\ thr[l].pc = "waiting"
    /\ code[l].state \in {"authorized", "used"}
    /\ cb' = [cb EXCEPT ![c] = [pc |-> "exchanging", of |-> l, what |-> "failed"]]
    /\ UNCHANGED <<thr, code, prompt>>

\* The provider exchanges a code once.
Exchanged(c) ==
    /\ cb[c].pc = "exchanging" /\ code[cb[c].of].state = "authorized"
    /\ cb' = [cb EXCEPT ![c].pc = "sending", ![c].what = "token"]
    /\ code' = [code EXCEPT ![cb[c].of].state = "used"]
    /\ UNCHANGED <<thr, prompt>>

\* It refuses, the call fails, or srv.Close ends the request; the code may be
\* used up.
ExchangeFails(c) ==
    /\ cb[c].pc = "exchanging"
    /\ cb' = [cb EXCEPT ![c].pc = "sending"]
    /\ code' \in {code, [code EXCEPT ![cb[c].of].state = "used"]}
    /\ UNCHANGED <<thr, prompt>>

\* Mutant: resCh takes one result more.
Room_OneMore(l) == Len(thr[l].resCh) <= Buffer

\* Mutant: resCh is unbuffered, and takes a result while Login waits only.
Room_Unbuffered(l) == thr[l].pc = "waiting" /\ thr[l].resCh = <<>>

Room(l) == Len(thr[l].resCh) < Buffer

Sends(c) ==
    /\ cb[c].pc = "sending" /\ Room(cb[c].of)
    /\ cb' = [cb EXCEPT ![c].pc = "returned"]
    /\ thr' = [thr EXCEPT ![cb[c].of].resCh = Append(@, cb[c].what)]
    /\ UNCHANGED <<code, prompt>>

Receives(l) ==
    /\ thr[l].pc = "waiting" /\ thr[l].resCh # <<>>
    /\ LET rest == Tail(thr[l].resCh) IN
       \/ /\ Head(thr[l].resCh) = "token"
          /\ thr' = [thr EXCEPT ![l].pc = "saving", ![l].resCh = rest]
          /\ UNCHANGED <<code, prompt>>
       \/ /\ Head(thr[l].resCh) = "failed"
          /\ Returns(l, rest, "refused")
          /\ prompt' = None
    /\ UNCHANGED cb

-----------------------------------------------------------------------------
(* Time.  It matters while a device flow is under way.                     *)

Timed(l) == thr[l].provider = "github" /\ InProgress(l)

Due(l) ==
    \/ thr[l].pc = "sleeping" /\ thr[l].sleep = 0
    \/ Calling(l) /\ thr[l].call = 0
    \/ thr[l].pc = "saving"
    \/ InProgress(l) /\ thr[l].cancelled

Less(n) == IF n = 0 THEN 0 ELSE n - 1

Tick ==
    /\ \E l \in Logins : Timed(l)
    /\ \A l \in Logins : ~Due(l)
    /\ thr' = [l \in Logins |->
                 IF ~Timed(l) THEN thr[l]
                 ELSE [thr[l] EXCEPT !.sleep = Less(@), !.call = Less(@),
                         !.left = IF thr[l].pc = "asking" THEN @ ELSE @ - 1]]
    /\ code' = [l \in Logins |->
                 IF ~Timed(l) THEN code[l]
                 ELSE [code[l] EXCEPT !.left = Less(@),
                         !.rest = IF @ < MaxInterval THEN @ + 1 ELSE @]]
    /\ UNCHANGED <<cb, prompt>>

-----------------------------------------------------------------------------
LoginStep(l) ==
    \/ Cancelled(l) \/ CallFails(l) \/ Saved(l)
    \/ GotCode(l) \/ Expires(l) \/ Polls(l) \/ SleepsOn(l) \/ GotToken(l) \/ PollRefused(l)
    \/ LibraryAsks(l) \/ LibraryReturns(l)
    \/ Listens(l) \/ Receives(l)

HandlerStep(c) == Exchanged(c) \/ ExchangeFails(c) \/ Sends(c)

Next ==
    \/ \E l \in Logins :
         \/ Login(l) \/ Cancel(l) \/ LoginStep(l)
         \/ GivesCode(l) \/ Answered(l)
         \/ Authorizes(l) \/ Denies(l)
    \/ \E c \in Callbacks :
         \/ HandlerStep(c)
         \/ \E l \in Logins : CallbackRefused(c, l) \/ CallbackCode(c, l)
    \/ Tick

Spec == Init /\ [][Next]_vars

-----------------------------------------------------------------------------
(* A server that has asked for patience is not asked again before the      *)
(* interval it asked for, its slow_downs counted, has gone by: it has no   *)
(* ground to refuse the client (github.go:63-71, 101).                     *)
PollsAreSpaced ==
    [][\A l \in Logins : (thr[l].pc = "sleeping" /\ thr'[l].pc = "polling")
                           => code[l].rest >= code[l].demand]_vars

(* A person who authorizes the code while it is good for more than one     *)
(* interval and two calls is not told that it expired (github.go:67-76, 105):  *)
(* neither the sleep before the deadline's check nor the interval that     *)
(* slow_downs have lengthened eats up more of its life.                    *)
AuthorizedInTimeSignsIn ==
    \A l \in Logins : code[l].inTime => thr[l].out \notin {"expired", "denied"}

(* However long the interval has become and the calls take, a device login *)
(* outlives its code by one poll, whose answer is late, and one interval   *)
(* at most: it does not poll for a code that is over (github.go:67-76).    *)
EndsWithItsCode ==
    \A l \in Logins : Timed(l) => thr[l].left >= -(thr[l].interval + CallTime)

(* What Status shows the person to do belongs to a sign-in that is under   *)
(* way, however logins overlap, fail or are given up (appcore.go:213-222). *)
PromptIsLive == prompt # None => InProgress(prompt)

(* The handler of a callback returns, though nobody may wait for it any    *)
(* more: once the login is over, it finds room in resCh unless another has *)
(* left its result there (oidc.go:84-108).  The code blocks that one.      *)
HandlersFindRoom ==
    \A c \in Callbacks :
      LET l == cb[c].of IN
      (cb[c].pc = "sending" /\ thr[l].pc = "done" /\ ~Room(l)) =>
        \E d \in Callbacks \ {c} :
          /\ cb[d].pc = "returned" /\ cb[d].of = l
          /\ thr[l].resCh = <<cb[d].what>>
=============================================================================
