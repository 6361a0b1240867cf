---------------------------- MODULE HelperAccess ----------------------------
(***************************************************************************)
(* Who may use the helper: its configuration file and its socket           *)
(* (pkg/helper/acl.go, listen_unix.go, listen_windows.go, and LoadConfig   *)
(* of helper.go).                                                          *)
(*                                                                         *)
(* A file has a descriptor: an owner and a list of entries, each of which  *)
(* grants or denies rights to a group of accounts, on the file itself or   *)
(* on what is created in it.  A Unix mode is the descriptor whose entries  *)
(* its bits grant.  What the operating system makes of a descriptor is     *)
(* written down apart from what the helper checks of it.                   *)
(*                                                                         *)
(* The helper starts, opens its socket call by call, serves, stops or is   *)
(* killed, and starts again.  Any call may fail.  It checks helper.json and*)
(* reads it in two calls, by its path: meanwhile, and at any other time,   *)
(* whoever may write the directory puts another file in its place.         *)
(***************************************************************************)
EXTENDS Naturals, Sequences

CONSTANTS
    Systems,      \* the operating systems: of "unix", "windows"
    ConfFound,    \* descriptors helper.json may be found with
    ConfPut,      \* descriptors of what people put in its place
    DirFound,     \* descriptors of the socket's directory, when it is there
    EtcFound,     \* and of a directory that helper.json has to itself
    None          \* no file

VARIABLES
    os,         \* the system
    conf,       \* helper.json's descriptor
    etc,        \* that of its own directory; None: it lies beside the socket
    dir,        \* that of the socket's directory
    sock,       \* that of the socket
    listening,  \* the helper's listener is open on it
    group,      \* whom the socket is for: the helper's group, or its fallback
    helper      \* where the helper is

vars == <<os, conf, etc, dir, sock, listening, group, helper>>

-----------------------------------------------------------------------------
(* Accounts and descriptors.  A group of accounts is a SID or a gid;       *)
(* "users" is everybody, "interactive" whoever is logged on.               *)

Trustees == {"system", "administrators", "group", "interactive", "users"}

\* root, SYSTEM and the Administrators.
trusted(sid) == sid \in {"system", "administrators"}

\* The people at the machine, and the groups each is in.
GroupsOf == [member |-> {"group", "interactive", "users"},
             loggedOn |-> {"interactive", "users"},
             other |-> {"users"}]

People == DOMAIN GroupsOf

\* "read": to read a file, to list a directory and go through it.  "write": to
\* change or replace a file, to add files to a directory; on a socket, to
\* connect.  Object and callback entries ("allow2", "deny2") are laid out
\* otherwise than the plain ones.
Entry == [type : {"allow", "deny", "allow2", "deny2"},
          self : BOOLEAN,   \* not inherit-only
          heirs : BOOLEAN,  \* passed on to what is created in it
          rights : SUBSET {"read", "write"},
          sid : Trustees]

\* nil: there is no DACL.  sticky: of a directory, only a file's owner may
\* replace it.  reparse: its path leads through a junction or a link; all else
\* is then of the file that this leads to.
Descriptor == [owner : Trustees, nil : BOOLEAN, dacl : Seq(Entry),
               sticky : BOOLEAN, reparse : BOOLEAN]

ASSUME FoundAssumption ==
    /\ Systems \subseteq {"unix", "windows"}
    /\ ConfFound \cup ConfPut \cup DirFound \cup EtcFound \subseteq Descriptor
    /\ None \notin Descriptor

Allow(sid, rights, heirs) ==
    [type |-> "allow", self |-> TRUE, heirs |-> heirs, rights |-> rights, sid |-> sid]

Own(dacl) == [owner |-> "system", nil |-> FALSE, dacl |-> dacl, sticky |-> FALSE, reparse |-> FALSE]

Full == {"read", "write"}

(* What the operating system grants: the first entry that is about the     *)
(* file, the person and the right decides, and an owner may change the     *)
(* entries.                                                                *)

About(a, p, right) == a.self /\ right \in a.rights /\ a.sid \in GroupsOf[p]

Grants(a) == a.type \in {"allow", "allow2"}

MayUse(p, d, right) ==
    \/ d.nil
    \/ d.owner \in GroupsOf[p]
    \/ \E i \in DOMAIN d.dacl :
         /\ About(d.dacl[i], p, right) /\ Grants(d.dacl[i])
         /\ \A j \in 1..(i - 1) : ~About(d.dacl[j], p, right)

\* What is created in a directory has the entries it passes on; the others are
\* not about it.
Inherited(d) == [i \in DOMAIN d.dacl |-> [d.dacl[i] EXCEPT !.self = d.dacl[i].heirs]]

-----------------------------------------------------------------------------
(* What the helper checks.                                                 *)

denies(a) == a.type \in {"deny", "deny2"}

\* checkPath cannot tell whom an object or callback entry is about.
Recorded(a) == IF a.type \in {"allow", "deny"} THEN a.sid ELSE "unparsed"

\* Mutant: an entry of another type than "allow" is skipped.
checkACL_PlainOnly(d) ==
    /\ trusted(d.owner) /\ ~d.nil
    /\ \A i \in DOMAIN d.dacl :
         LET a == d.dacl[i] IN
         (a.type = "allow" /\ a.self /\ "write" \in a.rights) => trusted(a.sid)

checkACL(d) ==
    /\ trusted(d.owner)
    /\ ~d.nil
    /\ \A i \in DOMAIN d.dacl :
         LET a == d.dacl[i] IN
         (~denies(a) /\ a.self /\ "write" \in a.rights) => trusted(Recorded(a))

\* st.Uid is root's, and the mode's write bits but the owner's are clear.
RootsAlone(d) == d.owner = "system" /\ \A i \in DOMAIN d.dacl : "write" \notin d.dacl[i].rights

checkOwner(d) == IF os = "unix" THEN RootsAlone(d) ELSE checkACL(d)

checkDir(d) == d.owner = "system" /\ (RootsAlone(d) \/ d.sticky)

\* dirSDDL and socketSDDL.
OwnDir == Own(<<Allow("system", Full, TRUE), Allow("administrators", Full, TRUE),
                Allow(group, {"read"}, FALSE)>>)

OwnSocket == Own(<<Allow("system", Full, FALSE), Allow("administrators", Full, FALSE),
                   Allow(group, Full, FALSE)>>)
-----------------------------------------------------------------------------
(* The helper's process.                                                   *)

PCs == {"down", "check", "acl", "read", "lookup", "mkdir", "junction", "secure", "readBack",
        "remove", "bind", "chown", "chmod", "secureSocket", "serving"}

TypeOK ==
    /\ os \in {"unix", "windows"}
    /\ conf \in Descriptor \cup {None}
    /\ etc \in Descriptor \cup {None}
    /\ dir \in Descriptor \cup {None}
    /\ sock \in Descriptor \cup {None}
    /\ listening \in BOOLEAN
    /\ group \in {"group", "interactive"}
    /\ helper \in PCs

\* A file of the system: modes grant, and only they know the sticky bit.
OfSystem(d) ==
    IF os = "unix"
    THEN /\ ~d.nil
         /\ \A i \in DOMAIN d.dacl :
              d.dacl[i].type = "allow" /\ d.dacl[i].self /\ ~d.dacl[i].heirs
    ELSE ~d.sticky

Of(S) == {d \in S : OfSystem(d)}

\* The directory that holds helper.json: on Windows it is the socket's.
Home == IF etc = None THEN dir ELSE etc

Init ==
    /\ os \in Systems
    /\ dir \in Of(DirFound) \cup {None}
    /\ etc \in Of(EtcFound) \cup {None}
    /\ conf \in IF Home = None THEN {None} ELSE Of(ConfFound) \cup {None}
    /\ sock = None
    /\ listening = FALSE
    /\ group = "group"
    /\ helper = "down"

files == <<conf, etc, dir, sock>>

\* The helper goes on with its next call.
Goes(from, to) == helper = from /\ helper' = to

Start ==
    /\ Goes("down", "check")
    /\ UNCHANGED <<os, files, listening, group>>

\* LoadConfig: checkOwner looks at the path, on Windows twice; os.Stat follows
\* links, and so does os.ReadFile.
ConfNotALink ==
    /\ Goes("check", "acl") /\ os = "windows"
    /\ conf # None /\ ~conf.reparse
    /\ UNCHANGED <<os, files, listening, group>>

ConfAccepted ==
    /\ Goes(IF os = "unix" THEN "check" ELSE "acl", "read")
    /\ conf # None /\ checkOwner(conf)
    /\ UNCHANGED <<os, files, listening, group>>

\* What is at the path now is read, and names servers.
ConfRead ==
    /\ Goes("read", "lookup") /\ conf # None
    /\ UNCHANGED <<os, files, listening, group>>

\* Listen.  A group that does not exist is an error on Unix, and everybody
\* logged on on Windows.
GroupLookedUp ==
    /\ Goes("lookup", IF os = "unix" THEN "readBack" ELSE "mkdir")
    /\ group' \in IF os = "unix" THEN {"group"} ELSE {"group", "interactive"}
    /\ UNCHANGED <<os, files, listening>>

\* createSecured leaves a directory that is there as it is.
DirCreated ==
    /\ Goes("mkdir", "junction")
    /\ dir' = IF dir = None THEN OwnDir ELSE dir
    /\ UNCHANGED <<os, conf, etc, sock, listening, group>>

NotAJunction ==
    /\ Goes("junction", "secure") /\ ~dir.reparse
    /\ UNCHANGED <<os, files, listening, group>>

DirSecured ==
    /\ Goes("secure", "readBack")
    /\ dir' = OwnDir
    /\ UNCHANGED <<os, conf, etc, sock, listening, group>>

\* checkDir on Unix, checkPath on Windows.
DirChecked ==
    /\ Goes("readBack", "remove")
    /\ dir # None
    /\ IF os = "unix" THEN checkDir(dir) ELSE checkACL(dir)
    /\ UNCHANGED <<os, files, listening, group>>

\* What a helper that was killed left there goes.
Removed ==
    /\ Goes("remove", "bind")
    /\ sock' = None
    /\ UNCHANGED <<os, conf, etc, dir, listening, group>>

\* Mutant: the service manager's umask is left as it is, and may be 0.
Born_Bare == IF os = "unix" THEN <<Allow("users", Full, FALSE)>> ELSE Inherited(dir)

\* On Unix the umask clears all the mode's bits but the owner's.
Born == IF os = "unix" THEN <<>> ELSE Inherited(dir)

Bound ==
    /\ Goes("bind", IF os = "unix" THEN "chown" ELSE "secureSocket")
    /\ sock = None
    /\ sock' = Own(Born)
    /\ listening' = TRUE
    /\ UNCHANGED <<os, conf, etc, dir, group>>

\* root and the group own it; the mode is still 0600.
Chowned ==
    /\ Goes("chown", "chmod")
    /\ UNCHANGED <<os, files, listening, group>>

Chmoded ==
    /\ Goes("chmod", "serving")
    /\ sock' = Own(<<Allow(group, Full, FALSE)>>)
    /\ UNCHANGED <<os, conf, etc, dir, listening, group>>

SocketSecured ==
    /\ Goes("secureSocket", "serving")
    /\ sock' = OwnSocket
    /\ UNCHANGED <<os, conf, etc, dir, listening, group>>

\* ln.Close, which removes the socket.
Closed ==
    /\ sock' = IF listening THEN None ELSE sock
    /\ listening' = FALSE

\* LoadConfig or Listen returns an error: a refusal, or a call that failed.
Fails ==
    /\ helper \notin {"down", "serving"}
    /\ helper' = "down"
    /\ Closed
    /\ UNCHANGED <<os, conf, etc, dir, group>>

\* The helper's main closes the listener, and Serve returns.
Stops ==
    /\ Goes("serving", "down")
    /\ Closed
    /\ UNCHANGED <<os, conf, etc, dir, group>>

Killed ==
    /\ helper # "down"
    /\ helper' = "down"
    /\ listening' = FALSE
    /\ UNCHANGED <<os, files, group>>

\* The installer makes the directory, as its parent has it, and helper.json.
Installed ==
    /\ dir = None /\ dir' \in Of(DirFound)
    /\ conf' \in IF etc = None /\ conf = None THEN Of(ConfFound) ELSE {conf}
    /\ UNCHANGED <<os, etc, sock, listening, group, helper>>

\* Somebody may put another file where helper.json is.  Where a link leads is
\* not known, nor who may write there; and in a sticky directory, where he may
\* replace but his own files, helper.json may be a link of his.
HomeIsOpen == Home # None /\ (Home.reparse \/ \E p \in People : MayUse(p, Home, "write"))

Replaced ==
    /\ HomeIsOpen
    /\ conf' \in Of(ConfPut) \cup {None}
    /\ UNCHANGED <<os, etc, dir, sock, listening, group, helper>>

\* Without its directory being written: what a link leads to is another file, or
\* a file's owner changes who may write it.
Altered ==
    /\ conf # None
    /\ conf' \in {d \in Of(ConfPut) : d.reparse = conf.reparse}
    /\ conf.reparse \/ (conf'.owner = conf.owner /\ \E p \in People : conf.owner \in GroupsOf[p])
    /\ UNCHANGED <<os, etc, dir, sock, listening, group, helper>>

Step ==
    \/ Start \/ ConfNotALink \/ ConfAccepted \/ ConfRead \/ GroupLookedUp
    \/ DirCreated \/ NotAJunction \/ DirSecured \/ DirChecked
    \/ Removed \/ Bound \/ Chowned \/ Chmoded \/ SocketSecured
    \/ Fails \/ Stops \/ Killed

Next == Step \/ Installed \/ Replaced \/ Altered

Spec == Init /\ [][Next]_vars

-----------------------------------------------------------------------------
(* What the helper reads of its configuration, when it reads it, is a file *)
(* that no person may write, however denials, inherit-only entries and     *)
(* entries it cannot read are mixed with those that grant (acl.go:118-138, *)
(* listen_unix.go:77-92), and whatever people did to it since the check --  *)
(* unless they may write the directory that holds it, or on Unix it is a   *)
(* link: LoadConfig checks the path and then reads the path (helper.go:57, *)
(* 60), and there the file may have been replaced in between.              *)
ConfigurationIsTheAdministrators ==
    helper = "read" =>
      \/ conf = None
      \/ \A p \in People : ~MayUse(p, conf, "write")
      \/ HomeIsOpen
      \/ os = "unix" /\ conf.reparse

OnlyTheGroupConnects ==
    listening => \A p \in People : MayUse(p, sock, "write") => group \in GroupsOf[p]

TheGroupConnects ==
    helper = "serving" =>
      \A p \in People : group \in GroupsOf[p] =>
        MayUse(p, sock, "write") /\ (os = "windows" => MayUse(p, dir, "read"))

NobodyReplacesIt ==
    listening => \A p \in People : MayUse(p, dir, "write") => dir.sticky

NoneIsLeftOpen == helper = "down" => ~listening

(* From the moment it exists, the socket is open to nobody but its group,  *)
(* in a directory where nobody else can replace it, and once it is served  *)
(* it is open to the whole group -- whatever the directory was found like, *)
(* and wherever an earlier helper failed or was killed; and a Listen that  *)
(* fails leaves nothing open (listen_unix.go:22-57, listen_windows.go:36-67)*)
SocketIsTheGroups ==
    OnlyTheGroupConnects /\ TheGroupConnects /\ NobodyReplacesIt /\ NoneIsLeftOpen
=============================================================================
