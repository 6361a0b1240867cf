------------------------------ MODULE Settings ------------------------------
(***************************************************************************)
(* The app's configuration and the helper's (pkg/appcore/config.go,        *)
(* Core.UpdateConfig and deps of appcore.go, auth.New, and LoadConfig and  *)
(* allowed of pkg/helper/helper.go): which server a tunnel leads to when   *)
(* the person and the administrator each change their file, and the app    *)
(* and the helper start again.                                             *)
(*                                                                         *)
(* UpdateConfig saves to config.json.tmp and renames it, with no lock, and *)
(* then applies it under c.mu.  What a call does between its start and the *)
(* helper's answer is AppCore's and Helper's; who may open the helper's    *)
(* socket is HelperAccess's.                                               *)
(***************************************************************************)
EXTENDS Naturals, Sequences

CONSTANTS
    Strings,        \* what a field may be
    Inputs,         \* what the person may set
    Found,          \* what config.json may hold while the app is not running
    Envs,           \* the app's environments: what is blank overrides nothing
    HelperConfigs,  \* what helper.json may hold
    Updaters,       \* goroutines that call UpdateConfig, one call after the other
    DefaultPath,    \* hproto.DefaultSocketPath
    None,           \* no file, no process
    Unreadable,     \* a file that is there and cannot be opened
    Empty,          \* a file that was opened to be written
    Garbled         \* a file that does not parse

VARIABLES
    disk,        \* config.json
    tmp,         \* config.json.tmp
    env,         \* the app's environment
    cfg,         \* c.cfg, None while the app is not running
    client,      \* the path c.helper dials
    updates,     \* the calls of UpdateConfig
    overlapped,  \* two of them were under way at once since the app started
    call,        \* a Connect, a Tenants or a Disconnect, None if none is
    offered,     \* the configuration whose tenants are in c.tenants, or None
    helperFile,  \* helper.json
    loaded,      \* what the running helper made of it, or None
    tunnel       \* the tunnel, None if it is down

file == <<disk, tmp>>
app  == <<env, cfg, client>>
helper == <<helperFile, loaded>>
vars == <<file, app, updates, overlapped, call, offered, helper, tunnel>>

-----------------------------------------------------------------------------
(* Configurations.                                                         *)

NoServer == [host |-> "", slash |-> FALSE]

Blank == [server |-> NoServer, provider |-> "", github |-> "", issuer |-> "", client |-> "",
          socket |-> ""]

URL == [host : Strings, slash : BOOLEAN]

Config == [server : URL, provider : Strings, github : Strings, issuer : Strings, client : Strings,
           socket : Strings]

ASSUME SettingsAssumption ==
    /\ {"", "github"} \subseteq Strings
    /\ Inputs \cup Envs \subseteq Config
    /\ Found \subseteq Config \cup {None, Unreadable, Garbled}
    /\ HelperConfigs \subseteq [servers : Seq(URL), socket : Strings]
    /\ DefaultPath \in Strings \ {""}
    /\ {None, Unreadable, Empty, Garbled} \cap Config = {}
    /\ None \notin HelperConfigs /\ None \notin {Unreadable, Empty, Garbled}

override(field, value, blank) == IF value = blank THEN field ELSE value

Overridden(c, e) ==
    [server   |-> override(c.server, e.server, NoServer),
     provider |-> override(c.provider, e.provider, ""),
     github   |-> override(c.github, e.github, ""),
     issuer   |-> override(c.issuer, e.issuer, ""),
     client   |-> override(c.client, e.client, ""),
     socket   |-> override(c.socket, e.socket, "")]

Defaulted(c) == IF c.provider = "" THEN [c EXCEPT !.provider = "github"] ELSE c

\* A file that does not parse is an error; one that cannot be opened is as good as none.
Loads(d) == d \notin {Garbled, Empty}

LoadConfig(d, e) == Defaulted(Overridden(IF d \in {None, Unreadable} THEN Blank ELSE d, e))

Validate(c) ==
    /\ c.server # NoServer
    /\ c.provider \in {"github", "oidc", "go-authn"}
    /\ IF c.provider = "github" THEN c.github # "" ELSE c.issuer # "" /\ c.client # ""

\* auth.New returns a provider.
New(c) ==
    \/ c.provider \in {"", "github"} /\ c.github # ""
    \/ c.provider \in {"oidc", "go-authn"} /\ c.issuer # "" /\ c.client # ""

Path(socket) == IF socket = "" THEN DefaultPath ELSE socket

TrimRight(url) == url.host

\* The first of the helper's servers that is the one asked for.
Names(i, want) == TrimRight(loaded.servers[i]) = TrimRight(want)

allowed(want) ==
    {i \in DOMAIN loaded.servers : Names(i, want) /\ \A j \in 1..(i - 1) : ~Names(j, want)}

-----------------------------------------------------------------------------
Calls == {"connect", "tenants", "down"}

Idle == [pc |-> "idle", in |-> Blank, at |-> "tmp"]

\* at: what became of the temporary file that was opened: it still is that, it
\* was renamed to config.json, or replaced there.
Update == [pc : {"idle", "open", "write", "rename", "apply"}, in : Config,
           at : {"tmp", "disk", "gone"}]

Content == Config \cup {None, Empty, Garbled}

TypeOK ==
    /\ disk \in Content \cup {Unreadable}
    /\ tmp \in Content
    /\ env \in Config
    /\ cfg \in Config \cup {None}
    /\ client \in Strings
    /\ updates \in [Updaters -> Update]
    /\ overlapped \in BOOLEAN
    /\ call = None \/ call \in [kind : Calls, cfg : Config, path : Strings]
    /\ offered \in Config \cup {None}
    /\ helperFile \in [servers : Seq(URL), socket : Strings]
    /\ loaded = None \/ loaded \in [servers : Seq(URL), socket : Strings]
    /\ tunnel = None \/ tunnel \in [server : URL, asked : Config]

Init ==
    /\ disk \in Found /\ tmp = None
    /\ env \in Envs /\ cfg = None /\ client = DefaultPath
    /\ updates = [u \in Updaters |-> Idle] /\ overlapped = FALSE
    /\ call = None /\ offered = None
    /\ helperFile \in HelperConfigs /\ loaded = None
    /\ tunnel = None

-----------------------------------------------------------------------------
(* The app's process.  Its LoadConfig's error ends it.                     *)

Started ==
    /\ cfg = None /\ Loads(disk)
    /\ env' \in Envs
    /\ cfg' = LoadConfig(disk, env')
    /\ client' = Path(cfg'.socket)
    /\ overlapped' = FALSE
    /\ UNCHANGED <<file, updates, call, offered, helper, tunnel>>

\* The end of the app, wherever it is.  The helper goes on with a connect.
Ended ==
    /\ cfg # None
    /\ cfg' = None
    /\ updates' = [u \in Updaters |-> Idle]
    /\ offered' = None
    /\ \/ call' = None
       \/ call # None /\ call.kind = "connect" /\ call' = call
    /\ UNCHANGED <<file, env, client, overlapped, helper, tunnel>>

\* The person edits config.json while the app is not running.
Edited ==
    /\ cfg = None
    /\ disk' \in Found
    /\ UNCHANGED <<tmp, app, updates, overlapped, call, offered, helper, tunnel>>

-----------------------------------------------------------------------------
(* UpdateConfig.                                                           *)

\* Mutant: the provider is left blank.
UpdateConfig_Blank(u, in) ==
    /\ cfg # None /\ updates[u].pc = "idle"
    /\ updates' = [updates EXCEPT ![u] = [pc |-> "open", in |-> in, at |-> "tmp"]]
    /\ overlapped' = (overlapped \/ \E v \in Updaters : updates[v].pc # "idle")
    /\ UNCHANGED <<file, app, call, offered, helper, tunnel>>

UpdateConfig(u, in) ==
    /\ cfg # None /\ updates[u].pc = "idle"
    /\ updates' = [updates EXCEPT ![u] = [pc |-> "open", in |-> Defaulted(in), at |-> "tmp"]]
    /\ overlapped' = (overlapped \/ \E v \in Updaters : updates[v].pc # "idle")
    /\ UNCHANGED <<file, app, call, offered, helper, tunnel>>

\* SaveConfig: os.WriteFile opens the temporary file, and empties it ...
Opens(u) ==
    /\ updates[u].pc = "open"
    /\ tmp' = Empty
    /\ updates' = [updates EXCEPT ![u].pc = "write"]
    /\ UNCHANGED <<disk, app, overlapped, call, offered, helper, tunnel>>

\* ... and writes it.  Over something longer, the rest of that stays.
Written(in, was) == {in} \cup (IF was \in {Empty, in} THEN {} ELSE {Garbled})

Writes(u) ==
    /\ updates[u].pc = "write"
    /\ tmp' \in IF updates[u].at = "tmp" THEN Written(updates[u].in, tmp) ELSE {tmp}
    /\ disk' \in IF updates[u].at = "disk" THEN Written(updates[u].in, disk) ELSE {disk}
    /\ updates' = [updates EXCEPT ![u].pc = "rename"]
    /\ UNCHANGED <<app, overlapped, call, offered, helper, tunnel>>

\* Who has the temporary file open has config.json open once it is renamed.
Renamed(at) == IF at = "tmp" THEN "disk" ELSE "gone"

Opened(u) == updates[u].pc \in {"write", "rename"}

Renames(u) ==
    /\ updates[u].pc = "rename" /\ tmp # None
    /\ disk' = tmp /\ tmp' = None
    /\ updates' = [v \in Updaters |->
         IF v = u THEN [updates[u] EXCEPT !.pc = "apply"]
         ELSE IF Opened(v) THEN [updates[v] EXCEPT !.at = Renamed(@)]
         ELSE updates[v]]
    /\ UNCHANGED <<app, overlapped, call, offered, helper, tunnel>>

\* Mutant: an error of SaveConfig is ignored.
SaveFails_Applies(u) ==
    /\ \/ updates[u].pc \in {"open", "write"}
       \/ updates[u].pc = "rename" /\ tmp = None
    /\ updates' = [updates EXCEPT ![u].pc = "apply"]
    /\ UNCHANGED <<file, app, overlapped, call, offered, helper, tunnel>>

\* The directory, the disk, or a temporary file that another update renamed.
SaveFails(u) ==
    /\ \/ updates[u].pc \in {"open", "write"}
       \/ updates[u].pc = "rename" /\ tmp = None
    /\ updates' = [updates EXCEPT ![u] = Idle]
    /\ UNCHANGED <<file, app, overlapped, call, offered, helper, tunnel>>

\* Mutant: c.helper is not made anew.
Applies_SameClient(u) ==
    /\ updates[u].pc = "apply"
    /\ cfg' = updates[u].in
    /\ offered' = None
    /\ updates' = [updates EXCEPT ![u] = Idle]
    /\ UNCHANGED <<file, env, client, overlapped, call, helper, tunnel>>

\* Under c.mu.
Applies(u) ==
    /\ updates[u].pc = "apply"
    /\ cfg' = updates[u].in
    /\ client' = Path(cfg'.socket)
    /\ offered' = None
    /\ updates' = [updates EXCEPT ![u] = Idle]
    /\ UNCHANGED <<file, env, overlapped, call, helper, tunnel>>

-----------------------------------------------------------------------------
(* The app's calls, from deps' snapshot to the helper's answer.            *)

deps == [cfg |-> cfg, path |-> client]

Begins(kind) ==
    /\ cfg # None /\ call = None
    /\ kind # "down" => Validate(cfg)
    /\ call' = [kind |-> kind, cfg |-> deps.cfg, path |-> deps.path]
    /\ UNCHANGED <<file, app, updates, overlapped, offered, helper, tunnel>>

Reaches == loaded # None /\ call.path = Path(loaded.socket)

\* Nobody listens on that path, the helper refuses the server, or another error.
Refused ==
    /\ call # None
    /\ call' = None
    /\ UNCHANGED <<file, app, updates, overlapped, offered, helper, tunnel>>

Connected ==
    /\ call # None /\ call.kind = "connect" /\ Reaches
    /\ \E i \in allowed(call.cfg.server) :
         tunnel' = [server |-> loaded.servers[i], asked |-> call.cfg]
    /\ call' = None
    /\ UNCHANGED <<file, app, updates, overlapped, offered, helper>>

TenantsListed ==
    /\ call # None /\ call.kind = "tenants" /\ Reaches
    /\ allowed(call.cfg.server) # {}
    /\ offered' = call.cfg
    /\ call' = None
    /\ UNCHANGED <<file, app, updates, overlapped, helper, tunnel>>

Disconnected ==
    /\ call # None /\ call.kind = "down" /\ Reaches
    /\ tunnel' = None
    /\ call' = None
    /\ UNCHANGED <<file, app, updates, overlapped, offered, helper>>

-----------------------------------------------------------------------------
(* The helper's process.                                                   *)

HelperEdited ==
    /\ helperFile' \in HelperConfigs
    /\ UNCHANGED <<file, app, updates, overlapped, call, offered, loaded, tunnel>>

\* helper.LoadConfig: it trusts some server, or does not start.
HelperStarted ==
    /\ loaded = None
    /\ helperFile.servers # <<>>
    /\ loaded' = helperFile
    /\ UNCHANGED <<file, app, updates, overlapped, call, offered, helperFile, tunnel>>

\* Its tunnel goes with its process.
HelperEnded ==
    /\ loaded # None
    /\ loaded' = None /\ tunnel' = None
    /\ UNCHANGED <<file, app, updates, overlapped, call, offered, helperFile>>

Next ==
    \/ Started \/ Ended \/ Edited
    \/ \E u \in Updaters :
         \/ \E in \in Inputs : UpdateConfig(u, in)
         \/ Opens(u) \/ Writes(u) \/ Renames(u) \/ SaveFails(u) \/ Applies(u)
    \/ \E kind \in Calls : Begins(kind)
    \/ Refused \/ Connected \/ TenantsListed \/ Disconnected
    \/ HelperEdited \/ HelperStarted \/ HelperEnded

Spec == Init /\ [][Next]_vars

-----------------------------------------------------------------------------
(* Between its updates, and wherever an earlier one failed or the app      *)
(* ended, what the app goes by is what it would load again, or exactly     *)
(* what config.json holds -- unless two updates overlapped (appcore.go:100,*)
(* config.go:94).                                                          *)
FileIsTheConfiguration ==
    cfg # None /\ ~overlapped /\ (\A u \in Updaters : updates[u].pc = "idle") =>
        Loads(disk) /\ cfg \in {disk, LoadConfig(disk, env)}

(* The configuration that Status calls good is one that auth.New takes, and*)
(* with a server any that it takes is called good: neither the file, nor   *)
(* the environment, nor an update brings a blank provider, which the two   *)
(* read differently (config.go:47 and 59, appcore.go:101, auth.go:77).     *)
ReadyMeansItSignsIn ==
    cfg # None => (Validate(cfg) <=> cfg.server # NoServer /\ New(cfg))

(* The tunnel leads to a server that the running helper's file names, and  *)
(* for an app whose configuration named that server and that helper's      *)
(* socket together, however they were changed meanwhile (appcore.go:86,    *)
(* helper.go:212).                                                         *)
TunnelIsOfBothConfigurations ==
    tunnel # None =>
      /\ loaded # None
      /\ \E i \in DOMAIN loaded.servers : loaded.servers[i] = tunnel.server
      /\ TrimRight(tunnel.server) = TrimRight(tunnel.asked.server)
      /\ Path(tunnel.asked.socket) = Path(loaded.socket)
=============================================================================
