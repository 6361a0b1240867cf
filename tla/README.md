# Claimward VPN client: a TLA+ model, with proofs

TLA+ modules, model-checking configurations and machine-checked proofs for the
Go library of the Claimward VPN clients (`src/`). Line numbers are those of the
modelled commit. `PROJECT.json` maps every definition to the lines it
stands for, lists the hazards the properties are for, and names for each
property a mutated definition that breaks it.

Contents: [the system](#the-system) ·
[modules](#the-modules-and-the-code) · [runs](#the-runs) ·
[bounds](#bounds-and-symmetry) · [fairness](#fairness) ·
[proofs](#what-is-proved) · [only model-checked](#what-is-only-model-checked) ·
[disagreements](#where-the-code-and-its-documentation-disagree) ·
[not modelled](#what-is-not-modelled) · [plan](#plan)

## The system

Two processes run on a device. The **app** (a tray or window program built on
`pkg/appcore`) signs the person in and holds the credentials. The **helper**
(`pkg/helper`, root or SYSTEM) enrolls with the Claimward server, owns the
WireGuard tunnel and keeps the server's lease on it. The app talks to the helper
over a local socket, one request per connection; the helper talks HTTP to the
server and is pushed route updates over gRPC; the app talks to an identity
provider.

```
 window, tray --Status--> appcore.Core --connect/renew/down/status--> helper.Server --HTTP--> server
                           |      |                                    |     ^
                     tokenstore  auth (GitHub, OIDC, go-authn)       wgtun   | route updates (routeclient)
```

| Component | State | Operations | What makes it correct |
|---|---|---|---|
| `helper` (helper.go) | under `s.mu`: `sess` (server, spec, tunnel, lease, `renewBy`, `wake`, `cancel`), the counter `gen`, `lastErr` | `connect`, `renew`, `down`, `status`, `tenants`, `Shutdown`; per session a `renewLoop` and a `watchRoutes`; re-enrollment on 404; detached deregistrations | one tunnel; renewed as long as it is up; brought up by a connect only; what a late renewal finds is never done to a newer session; no lease forgotten; the lease is renewed in time |
| helper access and sockets (acl.go, listen_*.go) | the descriptors of helper.json, of the socket and of its directory | `LoadConfig`'s checks, `Listen` | nobody but an administrator wrote the configuration, where nobody else may put files; only members of the group connect, from the socket's first moment |
| `appcore` (appcore.go) | under `c.mu`: the tenants offered, `stopRenew`, `assigned`; the prompt, the configuration; the session in the session file | `Login`, `Logout`, `SetTenant`, `Tenants`, `Connect`, `Disconnect`, `Status`, `UpdateConfig`; `keepRenewing` loops | one loop per tunnel, and it ends; a person signed out stays so; no refresh token is lost; a prompt is that of a sign-in under way |
| app configuration (config.go) | `config.json`, `config.json.tmp`, the environment | `LoadConfig`, `Validate`, `SaveConfig` | the app goes by its file; a configuration that is called good signs in; the tunnel leads where it and helper.json both say |
| `tokenstore` | `session.json`, `session.json.tmp` | `Load`, `Save`, `Clear` | the file is replaced whole, or not at all; `Save`s that overlap do no lasting harm |
| `wgtun` | interface, device peers, routes, `t.cfg` | `Up`, `UpdateRoutes`, `Close` | the routes are those of the last update; the device and the routes agree |
| `routeclient` | a gRPC stream | `Watch` | updates in order |
| `auth`, `oidc` | the provider's tokens; a polling interval and a deadline; `resCh` and the callback's handlers | `New`, `Login`, `RegisterKey` | a rotated refresh token is kept; the server is not polled too often, nor too late; no handler is left behind |
| `client`, `protocol` | none | `Enroll`, `Heartbeat`, `Deregister`, `Tenants` | statuses become errors |
| `helperclient`, `hproto` | none | one request per connection, with a time-out | a lost answer is an error |
| `wgkey`, `browser`, `buildinfo`, `routespb` | none | conversions, generated code | |

What is hard here:

* **Interleaving.** `enroll` and `renew` do their HTTP calls without the lock,
  and every call takes up to 30 s. Connects, downs, the loop's renewals and the
  app's renewals of one session overlap, and end in any order. `s.gen` decides
  which of them are superseded.
* **Check, unlock, act.** `enroll` looks at `s.sess`, unlocks and then
  deregisters. `session` loads the file, calls the provider and saves its copy.
  `Status` asks the helper and then takes its lock.
* **Lost and late answers.** A call that timed out may have reached the server.
  The app gives `renew` 45 s; the helper may need twice 30.
* **Crashes.** A restarted helper has none of its sessions; the server still
  has their leases. A restarted app finds a tunnel it did not bring up.
* **Time.** Two loops renew one lease at different fractions of it, between
  floors and ceilings. Retries move one loop's date without waking it, and a
  suspended device stops the timers but not the lease.
* **Partial failures.** A tunnel that does not come up after the old one was
  taken down; a route that cannot be added after others were deleted; a key
  registration refused after the refresh token was rotated; a configuration
  saved half-way; a socket that was created and not yet given its mode.
* **What others decide.** A DACL mixes entries that grant, deny, are inherited
  or cannot be read; a browser loads a callback twice; a server asks for
  patience while the code runs out.

## The modules and the code

| Module | Lines of code it stands for | |
|---|---|---|
| `Connection` | – | what the helper promises an app: abstract specification |
| `Helper` | `pkg/helper/helper.go`, `pkg/client/client.go` | sessions, enrollment, renewal, deregistration, crashes |
| `Helper_proofs` | – | theorems about `Helper` |
| `RenewalClock` | `helper.go`, `appcore.go`, `helperclient.go` | the dates, timers and time-outs of both renewal loops |
| `RenewalClock_proofs` | – | theorems about `RenewalClock` |
| `AppCore` | `pkg/appcore/appcore.go`, `pkg/auth/goauthn.go` | the app's calls, `Status`, its loops, the session and its refresh tokens |
| `AppCore_proofs` | – | theorems about `AppCore` |
| `SessionFile` | – | what the token store promises: abstract specification |
| `TokenStore` | `pkg/tokenstore/tokenstore.go` | the session file as the file system sees it |
| `TokenStore_proofs` | – | `TokenStore` implements `SessionFile` |
| `SignIn` | `pkg/auth/github.go`, `oidc_provider.go`, `goauthn.go`, `pkg/oidc/oidc.go`, `Login` of `appcore.go` | the providers' flows, and the prompt |
| `SignIn_proofs` | – | theorems about `SignIn` |
| `Settings` | `pkg/appcore/config.go`, `UpdateConfig` of `appcore.go`, `auth.New`, `LoadConfig` and `allowed` of `helper.go` | the app's configuration against the helper's |
| `Settings_proofs` | – | theorems about `Settings` |
| `HelperAccess` | `pkg/helper/acl.go`, `listen_unix.go`, `listen_windows.go`, `LoadConfig` of `helper.go` | who may write the helper's configuration and use its socket |
| `HelperAccess_proofs` | – | theorems about `HelperAccess` |
| `Tunnel` | `pkg/wgtun/wgtun.go`, `netplan.go`, `wgtun_*.go`, `watchRoutes` of `helper.go` | routes and their updates |
| `Tunnel_proofs` | – | theorems about `Tunnel` |
| `MC…` | – | constants, symmetry and bounds for TLC |

### Helper

A goroutine is an element of `thr`: one per connection of the app (`Conns`, one
request each, as `handle` serves) and one per renewal loop, named by the stamp
of its session (`Gens`). A detached `go s.deregister(old)` is a member of
`givebacks`. `thr[t].of` is the session a renewal is about, which is the `gen`
that `enroll` is called with; `thr[t].spec` the copy of the `ConnectSpec` it
works with.

What the code does under `s.mu` is one step. An HTTP call is sent by one step
and ends in another, in which the server acts as well; everything else may
happen between the two. A failed call either had its effect on the server or
had none. The cases of `renew`'s switch (`"renewed"`, `"forgotten"`,
`"refused"`, `"unanswered"`) are program points of their own, since the code
takes the lock only after it.

| Code | Actions |
|---|---|
| `handle`, `enroll` (239-311) | `Connect`, `EnrollAnswered`, `EnrollFails`; under the lock `GiveWay` (superseded), `UpFails`, `Install` |
| `deregister` | `GiveBack`, `GiveReplacedBack` |
| `renewLoop` | `TimerFires`, `LoopEnds`, and `GoesOn` after each renewal |
| `renew` | `HeartbeatTaken`, `HeartbeatRefused`, `HeartbeatUnanswered`; then `Renewed`, `Reenroll`, `ReenrollFailed`, `Refused`, `RetryLater` |
| `renewNow`, `down`, `Shutdown`, `stopLocked`, `drop` | `RenewNow`, `Down`, `Shutdown`, `StopLocked`, `Drop` |
| the end of the process | `Restart` |
| the server (external) | `peers`; `ServerForgets` |

`stranded` is a history variable: the leases that a failure left on a server (a
lost answer, a deregistration that did not get through, a crash, a `drop` after
the server took the peer up again). With it `NothingLeftBehind` can say that
*nothing else* leaves one.

`Connection` is what all this amounts to for an app: the tunnel leads where a
request in flight asked it to lead, or goes down; it never comes up or moves by
itself. `Helper` implements it under the mapping `Link`: re-enrollments,
supersessions and deregistrations are stutters or a `GoDown`.

### RenewalClock

One live tunnel, the helper's `renewLoop`, the app's `keepRenewing`, and the
time between them. Every date is kept as the time left until it; `Tick` lets one
unit (ten seconds in the run) pass, and cannot while something is due (`Quiet`):
goroutines that can run do so within a unit, and a call ends at its time-out at
the latest. `SetLease` is `setLeaseLocked`, `Retry` the default case of `renew`;
`LoopWoken` and `LoopFires` are the two cases of `renewLoop`'s `select`;
`ServerGrants`, `Renewed`, `Unanswered`, `Forgotten`, `Refused`, `Enrolled` and
`EnrollFails` are a renewal of the loop or of the app; `AppSleeps`,
`AppReturns`, `AppHasNoBearer`, `AppRenews` and `AppGivesUp` are
`keepRenewing`. `Suspend` stops the timers and runs the lease down: Go's timers
and `time.Until` of a date that came from `time.Now()` follow the monotonic
clock, which stops on a suspended device, while the lease is a date parsed from
the server's answer.

`ahead`, `misses`, `napped` and `cutFor` are history variables, for the
properties.

### AppCore

A goroutine of `thr` is a call of the person's (`Calls`, one operation each),
something that asks `Status` again and again (`Polls`), or a `keepRenewing` loop
(`Loops`, reused once it ended). It carries its own copy of the session: that
the copy may be old by the time it is saved is what the module is about. A step
is what the code does under `c.mu`, or one access to the session file, or one
call to the helper or the provider.

| Code | Actions |
|---|---|
| `Login` | `Login`, `SignIn`, `ForgetTenants`, `Save` |
| `SetTenant` | `SetTenant`, `Load`, `Save`, `Chosen` |
| `session`, with `goauthn.RegisterKey` | `Load`, `RefreshLapsed`, `RefreshForServer`, `RegisterFails`, `Save`, `SaveFails` |
| `Tenants`, `tenantRequired` | `ListTenants`, `AskTenants`, `Offer`, `Require` |
| `Connect` | `Connect`, `HelperConnects`, `TenantRequired`, `HelperFails`, `Connected` |
| `Disconnect`, `Logout` | `Stop`, `Down`, `ForgetTenants`, `Clear` |
| `Status`, `adopt` | `Look`, `AskHelper`, `HelperAway`, `Adopt`, `Show` |
| `keepRenewing` | `SeesUp`, `SeesDown`, `Wake`, `Stopped`, `Renew`, `End` |

The helper is its tunnel, `up` or not (its own steps are `Helper`'s). The
provider is the set of refresh tokens it still takes (`unspent`): a go-authn
provider takes each once and gives another.

### TokenStore and SessionFile

Files are inodes, names point to them. `Save` is `Open` (which empties
`session.json.tmp`), `Write` and `Rename`; the process may end between any two,
and a `Load` or another `Save` may run there. `SessionFile` is the promise: one
session, replaced or removed whole, and what a `Load` finds meanwhile is the
session that was there at some moment of it. Nothing in the code serialises
`Save`s (`Login`, `SetTenant` and `session` in a loop make theirs at any time),
and the promise says so: while some overlap (`overlapped`, a history variable in
both modules) the file may become anything, and the next `Save` that is alone
replaces it whole again, whatever temporary file the others left. `TokenStore`
implements that for any number of `Save`s at once.

### SignIn

A login is a call of `Core.Login`, with the provider it was configured with; two
may overlap, and share `c.devURI` and `c.devCode` (`prompt`). What the provider
holds of its code is `code`; the person authorizes or denies it at any moment.

| Code | Actions |
|---|---|
| `Core.Login` | `Login`, `Saved`, and `Ends`, the deferred function, in every action that ends a login |
| `githubProvider.Login` | `GotCode`, `Polls`, `SleepsOn`, `Expires`, `GotToken`, `PollRefused`; `CallFails` |
| GitHub (external) | `GivesCode`, `Answered` |
| `oidc.Login` | `Listens`, `Receives`; the handler of `/callback`: `CallbackRefused`, `CallbackCode`, `Exchanged`, `ExchangeFails`, `Sends` |
| `goauthnProvider.Login` | `LibraryAsks`, `LibraryReturns`: its polling is oauth2's |
| the context | `Cancel`, `Cancelled` |

The device flow has a clock, like `RenewalClock`'s: `Tick` lets one unit (five
seconds in the run) pass, and waits for what is due. The client's deadline and
the server's expiry are two clocks, and the client's starts later. `inTime`
is a history variable: the person authorized the code while it was good for more
than one interval and two calls.

### Settings

Two files and two processes: `config.json`, which the app loads, overrides with
its environment and replaces through `config.json.tmp` (`UpdateConfig`, `Opens`,
`Writes`, `Renames`, `SaveFails`, `Applies`); and `helper.json`, which the
helper loads when it starts (`HelperStarted`). A call takes `deps`' snapshot
(`Begins`) and ends at the helper (`Connected`, `TenantsListed`, `Disconnected`,
`Refused`), with updates, edits and restarts in between. The path of the socket
is part of both configurations: that the app reaches the helper at all is theirs
to agree on. A tunnel records the configuration it was asked for with.

### HelperAccess

A file's descriptor is an owner and a list of entries; a Unix mode is the
descriptor its bits grant. `MayUse` is what the operating system makes of a
descriptor (the first entry about the person and the right decides), `checkACL`,
`checkOwner` and `checkDir` what the helper checks: the two are written down
apart, and the properties relate them. `LoadConfig` and `Listen` are one action
per call they make (`ConfNotALink` to `SocketSecured`), `Fails` and `Killed` may
come between any two, and the helper then starts again, on what is left.

helper.json is looked at by its path, two or three times: `ConfNotALink` (on
Windows), `ConfAccepted`, `ConfRead`. It lies beside the socket, as on Windows, or
in a directory of its own (`etc`; `Home` is whichever it is). Between any two
steps whoever may write that directory puts another file there, or takes it away
(`Replaced`, which asks no more than `HomeIsOpen`); a file's owner changes who may
write it, and what a link leads to becomes another file (`Altered`). On Unix
`os.Stat` and `os.ReadFile` follow links: the descriptor is that of the file the
link leads to, and `reparse` says that there was one.

### Tunnel

`Up`, `Close` and `UpdateRoutes` (`SetDevice`, `DeleteRoute`, `AddRoute`,
`AddFails`, `Updated`), the latter run by `watchRoutes` (`Push`) outside the
helper's lock: it may go on when its tunnel is closed and another is up under
the same interface name. `RouteOf` is what `net.ParseCIDR` makes of an entry;
several entries may name one route, which nothing in the client refuses. `os` is
the system: adding a route that is there already is an error on Unix and none on
Windows, where `planNetwork` also drops the duplicates of `Up`. `spoilt` is a
history variable: the tunnels whose update failed midway, or deleted the route
of an entry it keeps (`Shared`), or whose routes an update of a closed tunnel has
changed. The two invariants say that nothing else makes routes, device and
record drift apart, and what the routes are at each point of an update.

## The runs

| Run | Result | Shows |
|---|---|---|
| `helper` | passes | three requests, up to five sessions and their loops, a server that forgets, a helper that restarts at any point: `OneTunnel`, `LiveSessionIsRenewed`, `NothingLeftBehind`, `ComesUpForAConnect`, `RenewalsActOnTheirOwn`, `DownIsExplained`, and `ImplementsConnection` |
| `helper_live` | passes | `RequestsEnd`, `DeadLoopsEnd`, `LostPeerIsNoticed` under `FairSpec` |
| `clock` | passes | `LeaseIsNotOverestimated`, `CutOffIsBounded`, `OneRenewOfTheApp`, `LeaseOutlastsOneFailure`, `AppRenewsFirst` with slow, lost and failed calls, one suspension or one loss by the server |
| `appcore` | passes | `OneLoopIsHeld`, `SavedTokensAreUnspent` for three calls, a `Status` poll, two loops and a go-authn provider |
| `appcore_live` | passes | `CallsReturn` (a `Login` may wait for its person), `StoppedLoopsEnd`, `UpIsRenewed`, `LoopsEndWithTheTunnel` under `FairSpec` |
| `appcore_logout` | violation | `LoggedOutStaysSignedOut`: a call that loaded the session before `Logout` cleared it saves it again |
| `appcore_token` | violation | `RotatedTokensAreKept`: a registration refused after the first refresh forgets the token it gave |
| `tokenstore` | passes | three goroutines whose `Save`s overlap at will: `SaveIsAtomic`, the refinement of `SessionFile`, with what every `Load` finds |
| `tunnel` | passes | `RoutesFollowTheUpdate`, `DeviceAndRoutesAgree` for all updates over three entries, two of one route, and two tunnels, on both systems |
| `signin` | passes | `AuthorizedInTimeSignsIn`, `EndsWithItsCode`, `PollsAreSpaced` for GitHub's flow; `HandlersFindRoom` for the browser's; `PromptIsLive` for two logins at once |
| `settings` | passes | `FileIsTheConfiguration`, `ReadyMeansItSignsIn`, `TunnelIsOfBothConfigurations` with both files changed, updates that overlap or fail, and both processes restarted |
| `access` | passes | `ConfigurationIsTheAdministrators`, `SocketIsTheGroups` for every list of two entries on helper.json, every directory found, people who replace the file where they may, and a helper that fails or is killed between any two calls |

The runs of `helper`, `clock`, `appcore`, `tokenstore`, `tunnel` and `signin`
also check their module's type invariant; those of `Settings` and
`HelperAccess` are proved. A violation run states what a comment or a document
of the repository says; the counterexample is what the code does instead.

## Bounds and symmetry

* `helper`: three connections, since the deepest races need a connect whose
  renewal is under way, a second connect or down, and a third request to profit
  from the confusion; two keys, so that a session is replaced by itself or by
  another; one server and one bearer (sessions are told apart by server *and*
  key, and nothing compares bearers). `MaxGen = 5` lets a
  re-enrollment of a session come back after a newer connect took over, and
  find room to do harm; `MaxLosses = 1` is the server's own forgetting, besides
  the peers that refusals and deregistrations remove.
* `helper_live`: two connections, no symmetry. `MaxGen = 7` leaves room for
  every session that two connects and the losses can make, so that `Install` is
  not held up by the bound.
* `clock`: units of ten seconds. `HelperFloor`, `AppFloor`, `RetryAfter` and
  `CallTime` are the code's 30 s, 20 s, 60 s and 30 s; the app's 45 s is rounded
  up to five units; the two ceilings are lowered, in the order the code has them
  (12 and 9), so that leases of a few minutes reach them. The leases are 50 s
  (below the floors' reach), 4 min and 5 min. A suspension takes a little, most or
  all of a lease. At most two failed tries in a row, one suspension or loss.
* `appcore`: three calls (a sign-in, and two that race), one poll, two loops at
  a time, three refresh tokens; four in the two violation runs. `appcore_live`:
  two calls, three loops, a provider without key registry; with a registry the
  bound on tokens would end what fairness promises.
* `tokenstore`: three goroutines, two sessions: two `Save`s that overlap and a
  third that starts before they are over, or a `Load`; a session and another to
  be torn with it. Four inodes, the assumption's least: there is always a free one
  for a new temporary file.
* `signin`: units of five seconds. A login at each provider beside one at
  go-authn, whose flow has the fewest states: logins share nothing but the
  prompt, so two timed flows would add their product and no case. A code lives
  for twelve units and names an interval of two, or none; `slow_down`, of one
  unit as in the code, comes at most twice (`MaxInterval`), which is enough for
  a poll of the long interval to be the first after the deadline. `CallTime` is
  the 15 s of the HTTP client. Three callbacks: one whose result is taken, one
  that finds room, and one that does not.
* `settings`: two configurations that differ in server, provider and socket,
  one of them completed by the environment only, a file that is missing,
  unreadable or garbled; two updates at a time; three files of the helper's, one
  of which it refuses. `config.json` is edited by hand only while the app does
  not run, and one call of the app's is under way at a time.
* `access`: all DACLs of at most two entries over the types, rights and trustees
  that the check and the operating system tell apart; the theorem is for any
  length. Directories: bare, open to all with and without inheritance, sticky,
  somebody else's, junctions, without a DACL; helper.json's own: bare, open to all,
  sticky. People put a file of their own in its place, one of root's that nobody
  else or everybody may write, and links to these.
* `tunnel`: three entries, of which two name one route: enough for an update that
  keeps, removes and adds one, and for one that keeps one of the two. Two
  tunnels, so that one update outlives its tunnel.

Symmetry is used in safety runs only: connections, keys and bearers; calls;
goroutines, sessions and inodes; the two entries of one route; callbacks;
updates. No action or property names one of them. Deadlock is checked in the
runs of `RenewalClock`, `AppCore`, `TokenStore`, `Settings` and `HelperAccess`;
a helper with all its requests answered, a tunnel with all its updates spent and
logins that are over do stop.

## Fairness

* `Helper!GoroutinesRun`: weak fairness of every goroutine's next step, of a
  loop's timer and of a cancelled loop's return. Go runs what can run, and every
  HTTP call has a time-out (`enrollTimeout`), so none lasts for ever. Nothing
  obliges the app to ask, the server to forget, or the process to end.
* `Helper!ServerAnswers`: strong fairness of `HeartbeatTaken`: a server that is
  asked again and again is reached in the end. It is needed for
  `LostPeerIsNoticed` only: a helper whose server is never reachable again
  cannot learn that it was forgotten.
* `AppCore!GoroutinesRun`: weak fairness of every call, poll and loop; polls go
  on for ever, as the window's and the tray's do. `SignIn` is not among them:
  `oidc.Login` waits in its `select` for a result or for its caller's context
  (oidc.go:121) with no time-out, so a `Login` whose person never comes back may
  wait for ever. `CallsReturn` is of every other call, and of a `Login` from the end
  of the sign-in on.
* `AppCore!HelperAnswers`: strong fairness of the `Status` that reaches the
  helper, for `UpIsRenewed`.
* `RenewalClock` states its time bounds as safety properties: `Tick` is what
  waits for the goroutines. That assumes prompt scheduling, a second or so
  against units of ten. So does `SignIn`, against units of five. `Settings`,
  `HelperAccess`, `TokenStore` and `Tunnel` promise nothing in the end: nothing
  there waits for anything but the system's calls.

## What is proved

All for every value of the constants that meets the module's named assumption,
and with no bound on the length of a behaviour.

**`Helper_proofs`**, from `ConstantsAssumption` (the bounds are numbers,
connections are not stamps, `None` is no server, key or bearer):

* `TypeCorrect`, `StampsCorrect`, `OneTunnelCorrect`,
  `LiveSessionIsRenewedCorrect`: `Spec => []…` for the four invariants
  (`StampsAreCurrent`, which says that stamps are fresh, is no run's property:
  it is what the others rest on).
* `ComesUpForAConnectCorrect`, `RenewalsActOnTheirOwnCorrect`: the two action
  properties, from the invariant and the steps that can disturb them.
* `DownIsExplainedCorrect`: the third: the helper takes a tunnel down by itself
  for one of three reasons and says which, and what may change that reason while
  the tunnel is down is listed. A step of `thr[t]` is looked at for what it does to
  the live session and to `lastErr` alone (`StepExplains`).
* `NothingLeftBehindCorrect`: `Spec => []NothingLeftBehind`.
* `ConnectionImplemented`: `Spec => ImplementsConnection`, the refinement.

The inductive invariant `IInv` is the type invariant, split in what is outside
the lock (`OutsideOK`: server, `lastErr`, `givebacks`) and what is inside it
(`InsideOK`), with `StampsAreCurrent`, `OneTunnel` and `LiveSessionIsRenewed`
and three strengthenings these need:

* `Unbegun`: no goroutine carries a stamp beyond `s.gen`, so that the stamp
  `Install` takes is a fresh one and its context not cancelled;
* `Made`: a renewal is about a session that was begun, and a goroutine that is
  installing has a specification to install;
* `LoopsOwn`: a loop's goroutine is about its own session, which is what makes
  "the live session's loop has not ended" survive the steps in which some
  *other* renewal of that session ends.

One lemma per kind of step (`OneMoves`: one goroutine moves and the session
stays; `OneStops`: it also takes the session down; `OneInstalls`) does the work,
and each action is an instance of one of them. The refinement needs one more
invariant, `SamePeer`: a re-enrollment under way is of the peer of its session,
so that when it takes over, the tunnel leads where it led.

`NothingLeftBehind` is inductive beside `IInv` and one fact more, that a
session somebody is to give back was begun (`ReplacedWereBegun`): its stamp is
not taken for another. The argument is who answers for a peer: the live session,
a detached deregistration, or a goroutine that has enrolled it and is yet to
install it or to give it back (`Owners`). `OneAnswers` says of a step in which
one goroutine moves that it is enough to look at the peers that this goroutine,
the live session or a deregistration no longer answers for: each of them is
answered for by another of the three, is not on the server any more, or was
stranded by a failure.

**`RenewalClock_proofs`**, from `ClockAssumption` (delays and time-outs are
positive, the app's floor and ceiling are below the helper's, the retry is
within the ceiling, the helper's floor is more than two units) and, for
`OneRenewOfTheAppCorrect`, `PatienceAssumption` (twice 30 s are over within the
app's 45 s and its floor of 20 s):

* `TypeCorrect`: every date keeps its bounds.
* `LeaseIsNotOverestimatedCorrect`: by `LeaseInv`, which adds that no *answer on
  its way* grants more than the server still gives. That is the invariant the
  order of answers cannot break: a lease only runs down, except when the server
  renews it.
* `AppRenewsFirstCorrect`: by `FirstInv`: while the app sleeps on the lease last
  set, its timer is due before the date the loop waits for or is about to be
  woken for. It rests on two lemmas on the delays, `AppDelayIsShorter` (two
  fifths, floored and capped, against a half, floored and capped higher: here the
  order of the floors and ceilings is used) and `AppDelayIsMonotonic`.
* `OneRenewOfTheAppCorrect`: by `RenewInv`, which bounds what the app's renewal
  may still take the helper (the call, and a heartbeat's enrollment) by what the
  app is still to wait: its patience and then its floor, its floor, its sleep.
* `CutOffIsBoundedCorrect`: by `CutInv`. For each place where the loop can be it
  bounds the time cut off so far and what the loop may still need to notice
  (`LoopNotices`): the heartbeat, the enrollment, its timer or, when a token
  waits in `wake`, the date it will read. Its other half, `GrantsAreFresh`, is
  what the reset of the bound at a new lease needs: a lease on its way was
  granted no longer ago than its call has taken. A failed try raises the bound
  as much as it delays the loop (`BoundGrows`).
* `LeaseOutlastsOneFailureCorrect`: by `OutlastInv`. `Room(t)`: if the loop's try
  is over after `t`, the lease then has two and a half call times left, at the
  first try, and a quarter of one, at the second. That it is inductive depends on
  halving: half of what is left after the first (`RoomOfRetry`) is enough for the
  wait and the call of the second. When a token waits, `Room` must hold of both
  dates that the loop may read: `renewBy` as it is, and as the app's failed
  renewal may move it. A lease of eight call times and of three floors is what
  the first step needs (`RoomOfLease`); 4 min, with the code's values. The proof
  showed that a suspension counts also when it falls between the server's answer
  and `setLeaseLocked`: the lease is then set with less than a call's time
  explains, and `napped` says so.

**`AppCore_proofs`**, from `AppAssumption` and `NoneAssumption` (the bounds are
numbers, calls, polls and loops are told apart, and `None` is no person, no tenant
and no session): `TypeCorrect`,
`OneLoopIsHeldCorrect`, `SavedTokensAreUnspentCorrect`, for any number of calls,
polls, loops, people and tokens. The invariant says of each goroutine what it may
be at and carry there (`Goroutines`), and two things of the system:

* `Holding`: `stopRenew` is a loop or nil, and `OneLoopIsHeld`. Both its halves
  are needed: that the loop which goes on is the one held makes a loop that ends
  find whether it still is; that the one held goes on makes a new loop the
  only one.
* `Tokens`: a refresh token that was issued to a goroutine and is not saved yet
  (`Carries`: between a refresh, or a sign-in, and its `Save`) is unspent and is in
  no other goroutine's copy nor in the file (`CarriedTokensAreOwn`). So another
  goroutine may spend the file's token, or its own, but never that one. A new
  token is new to everybody because no token is anywhere before it is issued
  (`TokensAreIssued`).

**`SignIn_proofs`**, from `SignInAssumption`, for any logins at any providers,
intervals, lives of codes and times of calls: `TypeCorrect`,
`PromptIsLiveCorrect`, `EndsWithItsCodeCorrect`, `AuthorizedInTimeSignsInCorrect`,
`PollsAreSpacedCorrect`; and `HandlersFindRoomCorrect` for `Buffer = 1`, as
`make(chan result, 1)` has it. The invariant follows the two clocks through a
login, `Good(thr[l], code[l])`:

* `Spaced`: the client's interval is the one the server asks for, except while a
  `slow_down` is on its way; what it has slept and is to sleep make that interval.
* `Outlives`: how far past its deadline a login may be at each point, and that
  the deadline is not before the code's end.
* `InTime`: a code that was authorized in time has more life left than the sleep,
  the call and, with an answer on its way that asks for patience, one more round
  take.

`HandlersFindRoom` needs that what is in `resCh` was put there by a handler that
returned (`ResultsAreOfHandlers`). With room for two it does not hold as it stands.

**`TokenStore_proofs`**, from `StoreAssumption` (finitely many goroutines, and
an inode more than they can have open): `TypeCorrect`, and
`SaveIsAtomicCorrect`: `Spec => SaveIsAtomic`, the refinement, however `Save`s
overlap. The invariant says that a `Save` which has overlapped no other is the
only one under way (`Alone`), and that the temporary file is its own, empty until
it wrote it and then what it was given (`Holds`); of the others only that they
save sessions (`Savers`). Nothing is said of what `Save`s left before: that
`Open` empties the file it finds is enough (`StepLone`). Then a lone `Rename` is a
`SessionFile!Saved` that replaces the file by what was given, a `Save` that fails
one that leaves it, and the writes of overlapping `Save`s are `Overlap`s
(`WriteImplements`, `EndImplements`): the inode that one writes may be
session.json by then.

**`Tunnel_proofs`**, from `TunnelAssumption` (each entry names a route):
`TypeCorrect`, `RoutesFollowTheUpdateCorrect`, `DeviceAndRoutesAgreeCorrect`, for
any entries, whichever of them name one route, either system and any number of
tunnels. `Consistent` says of a tunnel that is open and not spoilt that the
routes are what its update has `Reached`, and that the device has what it wants.
It needs `Diff` (what is still to be changed is of the difference, and no route is
added before the last is deleted) and `Unbegun` (a tunnel that was not brought up
has no update). That an update which is over has exactly the routes it wants
(`RoutesOfTheUpdate`) takes the half of `Reached` that says no kept route is
missing: it is what a deleted `Shared` route would break.

**`HelperAccess_proofs`**, from `FoundAssumption` (the files found, and put in
their place, are descriptors): `AcceptedACLIsUnwritable`, that no person may write
what `checkACL` accepts, for DACLs of any length; `TypeCorrect`;
`ConfigurationIsTheAdministratorsCorrect`; `SocketIsTheGroupsCorrect`. The
invariant says, per program point, what the helper has established of helper.json
(`ConfInv`: it was accepted and is still no link and no person's, or `HomeIsOpen`,
or it is a link on Unix; `StepConfInv` shows that nothing else can replace it
between the check and the read), of the directory (`DirInv`) and what the socket
carries (`SockInv`): between `bind` and its own descriptor, only what the umask or
the directory leaves it.

**`Settings_proofs`**, from `SettingsAssumption`: `ValidIffTakenWithAServer`, that
`Validate` and `auth.New` agree on every configuration whose provider is not
blank; `TypeCorrect`; `FileIsTheConfigurationCorrect`,
`ReadyMeansItSignsInCorrect`, `TunnelIsOfBothConfigurationsCorrect`, for any
configurations, environments and number of updates at once. The invariant adds
that no configuration the app holds has a blank provider (`Named`), that the
client is the configuration's (`OfOne`), and what both files hold at each point
of an update that is alone (`Alone`, `FileInv`). `Strings` is a constant, of
which the assumption says what it holds of the code's literals.

## What is only model-checked

* Liveness (`RequestsEnd`, `DeadLoopsEnd`, `LostPeerIsNoticed`, `CallsReturn`,
  `StoppedLoopsEnd`, `UpIsRenewed`, `LoopsEndWithTheTunnel`): the prover handles
  neither fairness nor `ENABLED`.

Every invariant and every action property of a passing run is proved, and both
refinements. The two violation runs state what does not hold.

## Where the code and its documentation disagree

With a run that shows it:

1. *Logout undone* (`appcore_logout`). `SetTenant` (appcore.go:326), and
   `session` with a key registration in between (275), save the copy they loaded
   before `Logout` cleared the file: the person is signed in again.
2. *A rotated token is lost* (`appcore_token`). `RegisterKey` returns no tokens
   when the registration or the second refresh fails (goauthn.go:105): the one
   that the first refresh gave is forgotten, the file keeps the spent one, and
   the person must sign in again.

Excepted by name in a property of a passing run, which fails without the
exception (each was taken out and tried):

3. *A late failure replaces the reason* (`DownIsExplained`). "A renewal that finds
   a newer one acts on nothing" (helper.go:105, on `gen`): the default case of
   `renew` writes `s.lastErr` whoever is live (425). So a healthy tunnel may be
   reported with the error of the one before; and when the app's and the loop's
   renewals of one session overlap, and one is refused, the other's "renewal
   failed" replaces the reason that the tunnel went down for. No success wipes it
   out: some error stays.
4. *Two Saves at once* (`SaveIsAtomic`). Both write `session.json.tmp`
   (tokenstore.go:79), and one renames what the other has just emptied or half
   overwritten; the comment at 66 says "atomically". `SessionFile!Overlap` is that
   exception; a `Save` that is alone is atomic whatever came before.
5. *Entries that share a route* (`RoutesFollowTheUpdate`). `UpdateRoutes` compares
   entries as strings and installs masked prefixes (wgtun.go:122): of two entries
   for one route, removing one deletes the other's route, though wgtun.go:100-102
   says it removes "the corresponding OS routes".
6. *helper.json is checked and then read* (`ConfigurationIsTheAdministrators`).
   Both go by the path (helper.go:57, 60). Where people may write its directory (on
   Windows `Listen` secures it only after `LoadConfig`), or where a link leads on
   Unix (`os.Stat` follows it, listen_unix.go:80, and nothing looks at its
   directory), the file that was accepted need not be the one that is read, though
   helper.go:54 says that `LoadConfig` "refuses one an unprivileged user could have
   written". A file that a person may write when it is checked is always refused.

Read while modelling, without a run of their own:

* *Giving way may cut the live tunnel.* `enroll` reads `s.sess` under the lock
  and deregisters after it (helper.go:281-284); the comment at 276-279 says the
  live session is spared. A connect with the same key that is installed in
  between loses its peer until its next renewal, which enrolls again
  (`LostPeerIsNoticed`).
* *Two updates at once.* `SaveConfig` shares a temporary file as `Save` does
  (config.go:94, 107): two updates that overlap may leave a `config.json` that
  does not parse, so that the app does not start again, or differ in what the
  file and the app have, or have one return an error though it is its
  configuration that was renamed. `FileIsTheConfiguration` excepts them.
* *Routes missing after a failed update.* `UpdateRoutes` deletes, fails to add,
  and leaves `t.cfg.AllowedIPs` as it was (wgtun.go:130): the next update takes
  the deleted routes for installed. wgtun.go:100-102 says the routes are "diffed
  against the current set".
* *Sign-ins that overlap.* The deferred function of the login that ends takes the
  other's prompt away (appcore.go:218): `Status` then shows none while it waits.
* *The callback.* One loaded twice exchanges its code twice, and the refusal may
  be heard first (oidc.go:102). A third callback, or a second after the context
  ended, blocks its handler for ever (`HandlersFindRoom` says when). A sign-in
  without an ID token succeeds with an empty bearer (oidc.go:128).
* *After the code is over*, a login may wait for one more interval before it says
  so (github.go:72-74; `EndsWithItsCode` has the bound).
* *Configuration changes.* `session` registers keys with the configured provider,
  not with the one that signed in (appcore.go:253-280). Tenants asked for before
  a sign-in or an update are offered after it (297-300). With another server
  configured, `Status` shows that one beside the old tunnel. What the environment
  overrides comes back at each start, and is saved with the rest when a window
  saves what `Config` returned.
* *A directory that others may write* is accepted if it is sticky
  (listen_unix.go:71), though the comment at 62 and README.md speak of one that
  only root may write. `NobodyReplacesIt` states what is left: nobody may replace
  the socket in it.
* A re-enrollment copies the specification before it calls (helper.go:408); a
  bearer that the app brings meanwhile goes to the old session and is lost with
  it, though the repository's README.md:212 says the helper renews with the last
  one it was given.
* "wake tells the loop it moved" (helper.go:105 on `renewBy`): the default case
  of `renew` moves `renewBy` and does not wake the loop. After a failed renewal
  *of the app's* the loop still sleeps until the older date, so "retries within
  a minute" (README.md:210) is true of the loop's own tries only. The lease
  outlasts it (`LeaseOutlastsOneFailure`).
* "The ceiling is how long a device stays cut off" (helper.go:132) leaves out
  the calls: the heartbeat and the enrollment take their time, an answer that
  was on its way when the server restarted delays the next try, and so does
  each failed try. `CutOffIsBounded` states what holds.
* A new sign-in forgets the tenant (README.md:232); a `SetTenant` that loaded
  the session before it saves it again after (appcore.go:326).
* An update that outlives its tunnel changes the routes of the next one of that
  name (helper.go:321, `spoilt`).

## What is not modelled

* The operating system's side of access control is an assumption of
  `HelperAccess` (`MayUse`, `Inherited`); privileges that bypass a DACL, hard
  links and a disk that is mounted elsewhere are left out, as are the directories
  above helper.json's and the socket's, and changes of the socket's own directory
  by the people who may write or own it while `Listen` runs. Whoever may change
  where a link leads counts as anyone. The helper's `Group` is one that exists or
  does not.
* In `SignIn`: the library's polling for go-authn, what the browser shows, and
  the contents of requests. In `Settings`: URLs but for their last slash, and
  `config.json` edited by hand while the app runs.
* Encoding and transport of the two protocols, generated gRPC code, keys, the
  browser, build information, the log ring.
* In `Helper`: `tenants` and `status`, which change nothing; a request that
  `allowed` refuses. In `AppCore`: `c.connected` and `c.iface`, which nothing
  reads, and `c.assigned`. In `RenewalClock`: a server that gives no lease, a
  provider that is slow, and clocks of server and device that drift apart. In
  `Tunnel`: address, DNS and MTU, and the failures inside `Up`, after which the
  device is closed. In `TokenStore`: a machine that loses power.

## Plan

Order: what carries the tunnel first (`Helper`, `RenewalClock`), then what the
app adds (`AppCore`, `TokenStore`), then the routes (`Tunnel`), the sign-in flows
(`SignIn`), the configurations (`Settings`) and access (`HelperAccess`). That
part exists. Next:

1. **Proofs.** What does hold of `Logout` and of rotated tokens: a session comes
   back only through a call that had loaded it, and a token is lost only by a
   registration that was refused.
2. **Composition.** `AppCore` over `Connection` instead of a bare `up`: whose
   bearer renews whose tunnel when a renewal of one person's races the sign-in of
   another (appcore.go:428).
3. **Routes.** Failures inside `Up`, and the stream of `routeclient`.
