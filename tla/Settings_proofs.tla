--------------------------- MODULE Settings_proofs ---------------------------
(***************************************************************************)
(* Theorems of Settings, for any configurations, environments and helpers' *)
(* files, and any number of updates at once.                               *)
(***************************************************************************)
EXTENDS Settings, TLAPS

HelperConfig == [servers : Seq(URL), socket : Strings]

LEMMA Constants ==
    /\ Blank \in Config
    /\ None \notin Config /\ Unreadable \notin Config /\ Empty \notin Config /\ Garbled \notin Config
    /\ None \notin {Unreadable, Empty, Garbled}
    /\ DefaultPath \in Strings
    /\ NoServer \in URL
<1>1. NoServer \in URL
  BY SettingsAssumption DEF NoServer, URL
<1>2. Blank \in Config
  BY <1>1, SettingsAssumption DEF Blank, Config
<1>3. \A x \in {None, Unreadable, Empty, Garbled} : x \notin Config
  BY SettingsAssumption, Zenon
<1>4. None \notin {Unreadable, Empty, Garbled} /\ DefaultPath \in Strings
  BY SettingsAssumption
<1> QED BY <1>1, <1>2, <1>3, <1>4, Zenon

(* LoadConfig and UpdateConfig (config.go:47, appcore.go:101) leave no     *)
(* provider blank.                                                         *)
LEMMA DefaultedIsNamed ==
    ASSUME NEW c \in Config
    PROVE  Defaulted(c) \in Config /\ Defaulted(c).provider # ""
<1>1. CASE c.provider = ""
  <2>1. [c EXCEPT !.provider = "github"] \in Config
    BY SettingsAssumption DEF Config
  <2>2. [c EXCEPT !.provider = "github"].provider = "github"
    BY DEF Config
  <2> QED BY <1>1, <2>1, <2>2 DEF Defaulted
<1>2. CASE c.provider # ""
  BY <1>2 DEF Defaulted
<1> QED BY <1>1, <1>2

LEMMA OverriddenIsAConfig ==
    ASSUME NEW c \in Config, NEW e \in Config
    PROVE  Overridden(c, e) \in Config
BY DEF Overridden, override, Config

LEMMA LoadedIsNamed ==
    ASSUME NEW d \in Content \cup {Unreadable}, Loads(d), NEW e \in Config
    PROVE  LoadConfig(d, e) \in Config /\ LoadConfig(d, e).provider # ""
<1> DEFINE c == IF d \in {None, Unreadable} THEN Blank ELSE d
<1>1. c \in Config
  BY Constants DEF Content, Loads
<1>2. Overridden(c, e) \in Config
  BY <1>1, OverriddenIsAConfig
<1> QED BY <1>2, DefaultedIsNamed DEF LoadConfig

(* Validate and auth.New (config.go:54-78, auth.go:75-109) agree on every  *)
(* configuration whose provider is not blank.                              *)
THEOREM ValidIffTakenWithAServer ==
    ASSUME NEW c \in Config, c.provider # ""
    PROVE  Validate(c) <=> c.server # NoServer /\ New(c)
BY DEF Validate, New, Config

LEMMA ElementIsOfTheSet ==
    ASSUME NEW S, NEW seq \in Seq(S), NEW i \in DOMAIN seq
    PROVE  seq[i] \in S
OBVIOUS

LEMMA PathIsAString ==
    ASSUME NEW s \in Strings
    PROVE  Path(s) \in Strings
BY Constants DEF Path

-----------------------------------------------------------------------------
(* The invariant.                                                          *)

Active(u) == updates[u].pc # "idle"

\* No configuration the app goes by, or is to go by, has a blank provider.
Named ==
    /\ cfg # None => cfg.provider # ""
    /\ \A u \in Updaters : Active(u) => updates[u].in.provider # ""

\* c.helper dials the socket of c.cfg, and a call goes where its snapshot says.
OfOne ==
    /\ cfg # None => client = Path(cfg.socket)
    /\ call # None => call.path = Path(call.cfg.socket)

\* Updates are the running app's, and one at a time unless overlapped says so.
Alone ==
    /\ cfg = None => \A u \in Updaters : ~Active(u)
    /\ ~overlapped => \A u, v \in Updaters : Active(u) /\ Active(v) => u = v

InFile == Loads(disk) /\ cfg \in {disk, LoadConfig(disk, env)}

\* How far a lone update has come.
Progress(u) ==
    /\ updates[u].pc # "apply" => InFile
    /\ updates[u].pc \in {"open", "write", "rename"} => updates[u].at = "tmp"
    /\ updates[u].pc = "write" => tmp = Empty
    /\ updates[u].pc = "rename" => tmp = updates[u].in
    /\ updates[u].pc = "apply" => disk = updates[u].in

FileInv ==
    cfg # None /\ ~overlapped =>
      /\ (\A u \in Updaters : ~Active(u)) => InFile
      /\ \A u \in Updaters : Active(u) => Progress(u)

IInv == TypeOK /\ Named /\ OfOne /\ Alone /\ FileInv /\ TunnelIsOfBothConfigurations

(* It holds at first.                                                      *)
LEMMA InitIInv == Init => IInv
<1> SUFFICES ASSUME Init PROVE IInv
  OBVIOUS
<1> USE Constants, SettingsAssumption DEF Init
<1>1. Idle \in Update
  BY DEF Idle, Update
<1>2. TypeOK
  BY <1>1 DEF TypeOK, Content
<1>3. \A u \in Updaters : ~Active(u)
  BY DEF Active, Idle
<1>4. Named /\ OfOne /\ Alone /\ FileInv /\ TunnelIsOfBothConfigurations
  BY <1>3 DEF Named, OfOne, Alone, FileInv, TunnelIsOfBothConfigurations
<1> QED BY <1>2, <1>4 DEF IInv

(* UpdateConfig's caller and its goroutine keep the types of the updates.  *)
LEMMA StepUpdates ==
    ASSUME TypeOK, [Next]_vars
    PROVE  updates' \in [Updaters -> Update]
<1> USE DEF TypeOK
<1>1. Idle \in Update
  BY Constants DEF Idle, Update
<1>2. \A u \in Updaters : updates[u] \in Update
  OBVIOUS
<1>3. ASSUME NEW u \in Updaters, NEW in \in Inputs, UpdateConfig(u, in)
      PROVE  updates' \in [Updaters -> Update]
  <2>1. [pc |-> "open", in |-> Defaulted(in), at |-> "tmp"] \in Update
    BY DefaultedIsNamed, SettingsAssumption DEF Update
  <2> QED BY <1>3, <2>1 DEF UpdateConfig
<1>4. ASSUME NEW u \in Updaters, Opens(u) \/ Writes(u)
      PROVE  updates' \in [Updaters -> Update]
  BY <1>2, <1>4 DEF Opens, Writes, Update
<1>5. ASSUME NEW u \in Updaters, Renames(u)
      PROVE  updates' \in [Updaters -> Update]
  <2>1. \A v \in Updaters : [updates[v] EXCEPT !.pc = "apply"] \in Update
    BY <1>2 DEF Update
  <2>2. \A v \in Updaters : [updates[v] EXCEPT !.at = Renamed(@)] \in Update
    BY <1>2 DEF Update, Renamed
  <2> QED BY <1>2, <1>5, <2>1, <2>2 DEF Renames
<1>6. ASSUME NEW u \in Updaters, SaveFails(u) \/ Applies(u)
      PROVE  updates' \in [Updaters -> Update]
  BY <1>1, <1>6 DEF SaveFails, Applies
<1>7. ASSUME Ended PROVE updates' \in [Updaters -> Update]
  BY <1>1, <1>7 DEF Ended
<1> QED
  BY <1>3, <1>4, <1>5, <1>6, <1>7
  DEF Next, vars, Started, Edited, Begins, Refused, Connected, TenantsListed, Disconnected,
      HelperEdited, HelperStarted, HelperEnded

(* Types.                                                                  *)
LEMMA StepTypeOK ==
    ASSUME TypeOK, [Next]_vars
    PROVE  TypeOK'
<1> USE Constants, SettingsAssumption DEF TypeOK, file, app, helper
<1>1. updates' \in [Updaters -> Update]
  BY StepUpdates
<1>2. \A u \in Updaters : updates[u] \in Update /\ updates[u].in \in Config
  BY DEF Update
<1>3. ASSUME NEW c \in Config PROVE Path(c.socket) \in Strings
  BY PathIsAString DEF Config
<1>4. ASSUME Started PROVE TypeOK'
  <2>1. cfg' \in Config
    BY <1>4, LoadedIsNamed DEF Started
  <2>2. client' \in Strings
    BY <1>4, <1>3, <2>1 DEF Started
  <2> QED BY <1>4, <2>1, <2>2 DEF Started
<1>5. ASSUME Ended PROVE TypeOK'
  BY <1>1, <1>5 DEF Ended
<1>6. ASSUME Edited PROVE TypeOK'
  BY <1>6 DEF Edited, Content
<1>7. ASSUME NEW u \in Updaters, NEW in \in Inputs, UpdateConfig(u, in) PROVE TypeOK'
  BY <1>1, <1>7 DEF UpdateConfig
<1>8. ASSUME NEW u \in Updaters, Opens(u) \/ SaveFails(u) PROVE TypeOK'
  BY <1>1, <1>8 DEF Opens, SaveFails, Content
<1>9. ASSUME NEW u \in Updaters, Writes(u) PROVE TypeOK'
  <2>1. updates[u].in \in Content /\ Garbled \in Content
    BY <1>2 DEF Content
  <2>2. tmp' \in {tmp, updates[u].in, Garbled} /\ disk' \in {disk, updates[u].in, Garbled}
    BY <1>9 DEF Writes, Written
  <2>3. tmp' \in Content /\ disk' \in Content \cup {Unreadable}
    BY <2>1, <2>2
  <2> QED BY <1>1, <1>9, <2>3 DEF Writes
<1>10. ASSUME NEW u \in Updaters, Renames(u) PROVE TypeOK'
  BY <1>1, <1>10 DEF Renames, Content
<1>11. ASSUME NEW u \in Updaters, Applies(u) PROVE TypeOK'
  <2>1. client' \in Strings /\ cfg' \in Config
    BY <1>2, <1>3, <1>11 DEF Applies
  <2> QED BY <1>1, <1>11, <2>1 DEF Applies
<1>12. ASSUME NEW kind \in Calls, Begins(kind) PROVE TypeOK'
  BY <1>12 DEF Begins, deps
<1>13. ASSUME Refused \/ TenantsListed \/ Disconnected PROVE TypeOK'
  BY <1>13 DEF Refused, TenantsListed, Disconnected
<1>14. ASSUME Connected PROVE TypeOK'
  <2>1. PICK i \in allowed(call.cfg.server) :
          tunnel' = [server |-> loaded.servers[i], asked |-> call.cfg]
    BY <1>14 DEF Connected
  <2>2. loaded.servers \in Seq(URL) /\ i \in DOMAIN loaded.servers
    BY <1>14, <2>1 DEF Connected, Reaches, allowed
  <2>3. loaded.servers[i] \in URL
    BY <2>2, ElementIsOfTheSet
  <2>4. call.cfg \in Config
    BY <1>14 DEF Connected
  <2> QED BY <1>14, <2>1, <2>3, <2>4 DEF Connected
<1>15. ASSUME HelperEdited \/ HelperStarted \/ HelperEnded PROVE TypeOK'
  BY <1>15 DEF HelperEdited, HelperStarted, HelperEnded
<1>16. ASSUME UNCHANGED vars PROVE TypeOK'
  BY <1>16 DEF vars
<1> QED
  BY <1>4, <1>5, <1>6, <1>7, <1>8, <1>9, <1>10, <1>11, <1>12, <1>13, <1>14, <1>15, <1>16 DEF Next

-----------------------------------------------------------------------------
LEMMA StepNamed == IInv /\ [Next]_vars => Named'
<1> SUFFICES ASSUME IInv, [Next]_vars PROVE Named'
  OBVIOUS
<1> USE DEF IInv, Named, Active
<1>1. ASSUME Started PROVE Named'
  BY <1>1, LoadedIsNamed, SettingsAssumption DEF Started, TypeOK
<1>2. ASSUME Ended PROVE Named'
  BY <1>2, Constants DEF Ended, Idle
<1>3. ASSUME NEW u \in Updaters, NEW in \in Inputs, UpdateConfig(u, in) PROVE Named'
  <2>1. Defaulted(in).provider # ""
    BY DefaultedIsNamed, SettingsAssumption
  <2> QED BY <1>3, <2>1 DEF UpdateConfig, TypeOK, app
<1>4. ASSUME NEW u \in Updaters, Opens(u) \/ Writes(u) \/ Renames(u) \/ SaveFails(u) PROVE Named'
  <2>1. \A v \in Updaters : updates[v] \in Update
    BY DEF TypeOK
  <2>2. \A v \in Updaters : Active(v)' => Active(v) /\ updates'[v].in = updates[v].in
    <3>1. CASE Opens(u) \/ Writes(u)
      <4>1. /\ Active(u) /\ \A v \in Updaters : v # u => updates'[v] = updates[v]
            /\ \E pc \in {"write", "rename"} : updates'[u] = [updates[u] EXCEPT !.pc = pc]
        BY <3>1 DEF Opens, Writes, TypeOK
      <4>2. updates'[u].in = updates[u].in
        BY <2>1, <4>1 DEF Update
      <4> QED BY <4>1, <4>2
    <3>2. CASE Renames(u)
      BY <2>1, <3>2 DEF Renames, Update, TypeOK
    <3>3. CASE SaveFails(u)
      BY <2>1, <3>3 DEF SaveFails, Idle, TypeOK
    <3> QED BY <1>4, <3>1, <3>2, <3>3
  <2> QED BY <1>4, <2>2 DEF Opens, Writes, Renames, SaveFails, app
<1>5. ASSUME NEW u \in Updaters, Applies(u) PROVE Named'
  BY <1>5 DEF Applies, Idle, TypeOK
<1>6. ASSUME UNCHANGED <<cfg, updates>> PROVE Named'
  BY <1>6
<1> QED
  BY <1>1, <1>2, <1>3, <1>4, <1>5, <1>6
  DEF Next, vars, app, Edited, Begins, Refused, Connected, TenantsListed, Disconnected,
      HelperEdited, HelperStarted, HelperEnded

LEMMA StepOfOne == IInv /\ [Next]_vars => OfOne'
<1> SUFFICES ASSUME IInv, [Next]_vars PROVE OfOne'
  OBVIOUS
<1> USE DEF IInv, OfOne, app
<1>1. ASSUME Started PROVE OfOne'
  BY <1>1 DEF Started
<1>2. ASSUME Ended PROVE OfOne'
  BY <1>2 DEF Ended
<1>3. ASSUME NEW u \in Updaters, Applies(u) PROVE OfOne'
  BY <1>3 DEF Applies
<1>4. ASSUME NEW kind \in Calls, Begins(kind) PROVE OfOne'
  BY <1>4 DEF Begins, deps
<1>5. ASSUME UNCHANGED app, call' \in {None, call} PROVE OfOne'
  BY <1>5
<1> QED
  BY <1>1, <1>2, <1>3, <1>4, <1>5
  DEF Next, vars, Edited, UpdateConfig, Opens, Writes, Renames, SaveFails, Refused, Connected,
      TenantsListed, Disconnected, HelperEdited, HelperStarted, HelperEnded

LEMMA StepAlone == IInv /\ [Next]_vars => Alone'
<1> SUFFICES ASSUME IInv, [Next]_vars PROVE Alone'
  OBVIOUS
<1> USE DEF IInv, Alone, Active
<1>1. ASSUME Started PROVE Alone'
  BY <1>1 DEF Started
<1>2. ASSUME Ended PROVE Alone'
  BY <1>2 DEF Ended, Idle
<1>3. ASSUME NEW u \in Updaters, NEW in \in Inputs, UpdateConfig(u, in) PROVE Alone'
  BY <1>3 DEF UpdateConfig, TypeOK, app
<1>4. ASSUME NEW u \in Updaters, Opens(u) \/ Writes(u) \/ Renames(u) \/ SaveFails(u) \/ Applies(u)
      PROVE Alone'
  <2>1. cfg # None /\ (cfg' = None => cfg = None) /\ overlapped' = overlapped
    <3>1. Active(u)
      BY <1>4 DEF Opens, Writes, Renames, SaveFails, Applies
    <3>2. cfg' \in {cfg, updates[u].in}
      BY <1>4 DEF Opens, Writes, Renames, SaveFails, Applies, app
    <3> QED BY <1>4, <3>1, <3>2, Constants
            DEF Opens, Writes, Renames, SaveFails, Applies, TypeOK, Update
  <2>2. \A v \in Updaters : Active(v)' => Active(v)
    BY <1>4 DEF Opens, Writes, Renames, SaveFails, Applies, Update, Idle, TypeOK
  <2> QED BY <2>1, <2>2
<1>5. ASSUME UNCHANGED <<cfg, updates, overlapped>> PROVE Alone'
  BY <1>5
<1> QED
  BY <1>1, <1>2, <1>3, <1>4, <1>5
  DEF Next, vars, app, Edited, Begins, Refused, Connected, TenantsListed, Disconnected,
      HelperEdited, HelperStarted, HelperEnded

(* A lone update has the temporary file for itself, and renames what it    *)
(* wrote; until then config.json is as it was.                             *)
LEMMA StepFileInv == IInv /\ [Next]_vars => FileInv'
<1> SUFFICES ASSUME IInv, [Next]_vars, cfg' # None, ~overlapped' PROVE FileInv'
  BY DEF FileInv
<1> USE DEF IInv, FileInv, Active, Progress, InFile, file, app
<1>1. \A v \in Updaters : updates[v] \in Update /\ updates[v].in \in Config
  BY DEF TypeOK, Update
<1>2. ASSUME Started PROVE FileInv'
  BY <1>2 DEF Started, Alone
<1>3. ASSUME Ended PROVE FALSE
  BY <1>3 DEF Ended
<1>4. ASSUME Edited PROVE FALSE
  BY <1>4 DEF Edited
<1>5. ASSUME NEW u \in Updaters, NEW in \in Inputs, UpdateConfig(u, in) PROVE FileInv'
  <2>1. InFile' /\ \A v \in Updaters : ~Active(v)
    BY <1>5 DEF UpdateConfig
  <2>2. /\ updates'[u].pc = "open" /\ updates'[u].at = "tmp"
        /\ \A v \in Updaters : v # u => updates'[v] = updates[v]
    BY <1>5 DEF UpdateConfig, TypeOK
  <2> QED BY <2>1, <2>2
<1>6. ASSUME NEW u \in Updaters, Active(u), cfg # None, ~overlapped
      PROVE  Progress(u) /\ \A v \in Updaters : v # u => ~Active(v)
  BY <1>6 DEF Alone
\* What is left to show of an update's step: where it has come.
<1>7. ASSUME NEW u \in Updaters, Opens(u) \/ Writes(u) \/ Renames(u) \/ SaveFails(u) \/ Applies(u)
      PROVE  /\ Active(u) /\ ~overlapped /\ cfg # None
             /\ Progress(u) /\ \A v \in Updaters : v # u => ~Active(v) /\ updates'[v] = updates[v]
  <2>1. Active(u) /\ ~overlapped /\ cfg # None
    BY <1>7 DEF Opens, Writes, Renames, SaveFails, Applies, Alone
  <2>2. Progress(u) /\ \A v \in Updaters : v # u => ~Active(v)
    BY <2>1, <1>6
  <2>3. \A v \in Updaters : v # u => updates'[v] = updates[v]
    BY <1>7, <2>2 DEF Opens, Writes, Renames, SaveFails, Applies, TypeOK, Opened
  <2> QED BY <2>1, <2>2, <2>3
<1>8. ASSUME NEW u \in Updaters, Active(u)' => Progress(u)', ~Active(u)' => InFile',
             \A v \in Updaters : v # u => ~Active(v) /\ updates'[v] = updates[v]
      PROVE  FileInv'
  BY <1>8
<1>9. ASSUME NEW u \in Updaters, Opens(u) PROVE FileInv'
  <2>1. /\ updates'[u] = [updates[u] EXCEPT !.pc = "write"]
        /\ tmp' = Empty /\ disk' = disk /\ cfg' = cfg /\ env' = env
    BY <1>9 DEF Opens, TypeOK
  <2>2. updates[u].at = "tmp"
    BY <1>7, <1>9 DEF Opens
  <2>3. Active(u)' /\ Progress(u)'
    BY <1>1, <1>7, <1>9, <2>1, <2>2 DEF Opens, Update
  <2> QED BY <1>7, <1>8, <1>9, <2>3
<1>10. ASSUME NEW u \in Updaters, Writes(u) PROVE FileInv'
  <2>1. /\ updates'[u] = [updates[u] EXCEPT !.pc = "rename"]
        /\ cfg' = cfg /\ env' = env
    BY <1>10 DEF Writes, TypeOK
  <2>2. updates[u].at = "tmp" /\ tmp = Empty
    BY <1>7, <1>10 DEF Writes
  <2>3. tmp' = updates[u].in /\ disk' = disk
    BY <1>10, <2>2 DEF Writes, Written
  <2>4. Active(u)' /\ Progress(u)'
    BY <1>1, <1>7, <1>10, <2>1, <2>2, <2>3 DEF Writes, Update
  <2> QED BY <1>7, <1>8, <1>10, <2>4
<1>11. ASSUME NEW u \in Updaters, Renames(u) PROVE FileInv'
  <2>1. updates'[u] = [updates[u] EXCEPT !.pc = "apply"] /\ disk' = tmp
    BY <1>11 DEF Renames
  <2>2. tmp = updates[u].in
    BY <1>7, <1>11 DEF Renames
  <2>3. Active(u)' /\ Progress(u)'
    BY <1>1, <2>1, <2>2 DEF Update
  <2> QED BY <1>7, <1>8, <1>11, <2>3
<1>12. ASSUME NEW u \in Updaters, SaveFails(u) PROVE FileInv'
  <2>1. ~Active(u)' /\ InFile'
    BY <1>7, <1>12 DEF SaveFails, Idle, TypeOK
  <2> QED BY <1>7, <1>8, <1>12, <2>1
<1>13. ASSUME NEW u \in Updaters, Applies(u) PROVE FileInv'
  <2>1. disk = updates[u].in
    BY <1>7, <1>13 DEF Applies
  <2>2. disk' = disk /\ cfg' = disk' /\ ~Active(u)'
    BY <1>13, <2>1 DEF Applies, Idle, TypeOK
  <2>3. Loads(disk)
    BY <1>1, <2>1, Constants DEF Loads
  <2> QED BY <1>7, <1>8, <1>13, <2>2, <2>3 DEF Loads
<1>14. ASSUME UNCHANGED <<disk, tmp, env, cfg, updates, overlapped>> PROVE FileInv'
  BY <1>14
<1> QED
  BY <1>2, <1>3, <1>4, <1>5, <1>9, <1>10, <1>11, <1>12, <1>13, <1>14
  DEF Next, vars, Begins, Refused, Connected, TenantsListed, Disconnected,
      HelperEdited, HelperStarted, HelperEnded

(* The helper answers for the servers of its file, and goes down with it.  *)
LEMMA StepTunnel == IInv /\ [Next]_vars => TunnelIsOfBothConfigurations'
<1> SUFFICES ASSUME IInv, [Next]_vars PROVE TunnelIsOfBothConfigurations'
  OBVIOUS
<1> USE DEF IInv, TunnelIsOfBothConfigurations, helper
<1>1. ASSUME Connected PROVE TunnelIsOfBothConfigurations'
  <2>1. PICK i \in allowed(call.cfg.server) :
          tunnel' = [server |-> loaded.servers[i], asked |-> call.cfg]
    BY <1>1 DEF Connected
  <2>2. i \in DOMAIN loaded.servers /\ TrimRight(loaded.servers[i]) = TrimRight(call.cfg.server)
    BY <2>1 DEF allowed, Names
  <2>3. loaded # None /\ loaded' = loaded /\ Path(call.cfg.socket) = Path(loaded.socket)
    BY <1>1 DEF Connected, Reaches, OfOne
  <2> QED BY <2>1, <2>2, <2>3
<1>2. ASSUME HelperEnded \/ Disconnected PROVE TunnelIsOfBothConfigurations'
  BY <1>2 DEF HelperEnded, Disconnected
<1>3. ASSUME UNCHANGED <<loaded, tunnel>> PROVE TunnelIsOfBothConfigurations'
  BY <1>3
<1>4. ASSUME HelperStarted PROVE TunnelIsOfBothConfigurations'
  BY <1>4 DEF HelperStarted
<1> QED
  BY <1>1, <1>2, <1>3, <1>4
  DEF Next, vars, Started, Ended, Edited, UpdateConfig, Opens, Writes, Renames, SaveFails,
      Applies, Begins, Refused, TenantsListed, HelperEdited

LEMMA Invariant == Spec => []IInv
<1>1. IInv /\ [Next]_vars => IInv'
  BY StepTypeOK, StepNamed, StepOfOne, StepAlone, StepFileInv, StepTunnel DEF IInv
<1> QED BY InitIInv, <1>1, PTL DEF Spec

-----------------------------------------------------------------------------
(* Every variable keeps its type.                                          *)
THEOREM TypeCorrect == Spec => []TypeOK
<1>1. IInv => TypeOK
  BY DEF IInv
<1> QED BY Invariant, <1>1, PTL

(* Between its updates the app goes by what config.json holds or by what it*)
(* would load, unless two updates overlapped (config.go:95, appcore.go:100)*)
THEOREM FileIsTheConfigurationCorrect == Spec => []FileIsTheConfiguration
<1>1. IInv => FileIsTheConfiguration
  BY DEF IInv, FileInv, InFile, Active, FileIsTheConfiguration
<1> QED BY Invariant, <1>1, PTL

(* Status calls a configuration good just when auth.New takes it and it    *)
(* names a server (config.go:54, auth.go:75).                              *)
THEOREM ReadyMeansItSignsInCorrect == Spec => []ReadyMeansItSignsIn
<1>1. IInv => ReadyMeansItSignsIn
  BY ValidIffTakenWithAServer DEF IInv, TypeOK, Named, ReadyMeansItSignsIn
<1> QED BY Invariant, <1>1, PTL

(* A tunnel leads to a server that the running helper trusts, as asked by  *)
(* a configuration that named that helper's socket (helper.go:212).        *)
THEOREM TunnelIsOfBothConfigurationsCorrect == Spec => []TunnelIsOfBothConfigurations
<1>1. IInv => TunnelIsOfBothConfigurations
  BY DEF IInv
<1> QED BY Invariant, <1>1, PTL

=============================================================================
