------------------------- MODULE HelperAccess_proofs -------------------------
(***************************************************************************)
(* Theorems of HelperAccess, for every descriptor the files are found with.*)
(***************************************************************************)
EXTENDS HelperAccess, TLAPS

-----------------------------------------------------------------------------
(* No person is an administrator, and each is among the users.             *)
LEMMA PeopleAreNotTrusted ==
    ASSUME NEW p \in People
    PROVE  /\ GroupsOf[p] \subseteq {"group", "interactive", "users"}
           /\ \A sid \in GroupsOf[p] : ~trusted(sid)
BY DEF People, GroupsOf, trusted

(* checkACL (acl.go:118-138): whatever a DACL's length, its types of       *)
(* entries and their order, what it accepts no person may write.           *)
THEOREM AcceptedACLIsUnwritable ==
    ASSUME NEW d \in Descriptor, checkACL(d), NEW p \in People
    PROVE  ~MayUse(p, d, "write")
<1>1. d.owner \notin GroupsOf[p] /\ ~d.nil
  BY PeopleAreNotTrusted DEF checkACL
<1>2. ASSUME NEW i \in DOMAIN d.dacl, About(d.dacl[i], p, "write"), Grants(d.dacl[i])
      PROVE  FALSE
  <2>1. ~denies(d.dacl[i])
    BY <1>2 DEF Grants, denies
  <2>2. trusted(Recorded(d.dacl[i]))
    BY <2>1, <1>2 DEF checkACL, About
  <2>3. CASE d.dacl[i].type = "allow"
    BY <2>2, <2>3, <1>2, PeopleAreNotTrusted DEF Recorded, About
  <2>4. CASE d.dacl[i].type = "allow2"
    BY <2>2, <2>4 DEF Recorded, trusted
  <2> QED BY <2>3, <2>4, <1>2 DEF Grants
<1> QED BY <1>1, <1>2 DEF MayUse

(* checkOwner and checkDir on Unix (listen_unix.go:60-95): what root owns  *)
(* and root alone may write, no person may.                                *)
LEMMA RootsAloneIsUnwritable ==
    ASSUME NEW d \in Descriptor, RootsAlone(d), ~d.nil, NEW p \in People
    PROVE  ~MayUse(p, d, "write")
<1>1. d.owner \notin GroupsOf[p]
  BY PeopleAreNotTrusted DEF RootsAlone
<1> QED BY <1>1 DEF MayUse, About, RootsAlone

LEMMA AcceptedIsUnwritable ==
    ASSUME NEW d \in Descriptor, os \in {"unix", "windows"}, OfSystem(d), checkOwner(d),
           NEW p \in People
    PROVE  ~MayUse(p, d, "write")
<1>1. CASE os = "unix"
  BY <1>1, RootsAloneIsUnwritable DEF OfSystem, checkOwner
<1>2. CASE os = "windows"
  BY <1>2, AcceptedACLIsUnwritable DEF checkOwner
<1> QED BY <1>1, <1>2

-----------------------------------------------------------------------------
(* The descriptors the helper makes.                                       *)

LEMMA OwnDescriptors ==
    /\ \A dacl \in Seq(Entry) : Own(dacl) \in Descriptor
    /\ \A sid \in Trustees, heirs \in BOOLEAN :
         Allow(sid, Full, heirs) \in Entry /\ Allow(sid, {"read"}, heirs) \in Entry
BY DEF Own, Descriptor, Allow, Entry, Full, Trustees

LEMMA ThreeEntries ==
    ASSUME NEW a \in Entry, NEW b \in Entry, NEW c \in Entry
    PROVE  Own(<<a, b, c>>) \in Descriptor
<1>1. <<a, b, c>> \in Seq(Entry)
  OBVIOUS
<1> QED BY <1>1, OwnDescriptors

LEMMA OneEntry ==
    ASSUME NEW a \in Entry
    PROVE  Own(<<a>>) \in Descriptor
<1>1. <<a>> \in Seq(Entry)
  OBVIOUS
<1> QED BY <1>1, OwnDescriptors

LEMMA MadeDescriptors ==
    ASSUME group \in {"group", "interactive"}
    PROVE  /\ OwnDir \in Descriptor
           /\ OwnSocket \in Descriptor
           /\ Own(<<Allow(group, Full, FALSE)>>) \in Descriptor
           /\ Own(<<>>) \in Descriptor
<1>1. group \in Trustees
  BY DEF Trustees
<1>2. /\ Allow("system", Full, TRUE) \in Entry
      /\ Allow("administrators", Full, TRUE) \in Entry
      /\ Allow("system", Full, FALSE) \in Entry
      /\ Allow("administrators", Full, FALSE) \in Entry
      /\ Allow(group, {"read"}, FALSE) \in Entry
      /\ Allow(group, Full, FALSE) \in Entry
  BY <1>1, OwnDescriptors DEF Trustees
<1>3. OwnDir \in Descriptor
  BY <1>2, ThreeEntries, Zenon DEF OwnDir
<1>4. OwnSocket \in Descriptor
  BY <1>2, ThreeEntries, Zenon DEF OwnSocket
<1>5. Own(<<Allow(group, Full, FALSE)>>) \in Descriptor
  BY <1>2, OneEntry
<1>6. <<>> \in Seq(Entry)
  OBVIOUS
<1> QED BY <1>3, <1>4, <1>5, <1>6, OwnDescriptors

LEMMA InheritedIsADACL ==
    ASSUME NEW d \in Descriptor
    PROVE  /\ Inherited(d) \in Seq(Entry)
           /\ Own(Inherited(d)) \in Descriptor
<1>1. d.dacl \in Seq(Entry)
  BY DEF Descriptor
<1>2. PICK n \in Nat : DOMAIN d.dacl = 1..n
  BY <1>1
<1>3. ASSUME NEW i \in 1..n
      PROVE  [d.dacl[i] EXCEPT !.self = d.dacl[i].heirs] \in Entry
  <2>1. d.dacl[i] \in Entry
    BY <1>1, <1>2
  <2> QED BY <2>1 DEF Entry
<1>4. Inherited(d) \in [1..n -> Entry]
  BY <1>2, <1>3 DEF Inherited
<1>5. Inherited(d) \in Seq(Entry)
  BY <1>4
<1> QED BY <1>5, OwnDescriptors

-----------------------------------------------------------------------------
(* What the helper has found out by each of its calls, and keeps true.     *)

\* Past Listen's first calls: the directory was checked, and on Windows made.
PastDir == {"remove", "bind", "chown", "chmod", "secureSocket", "serving"}

Bare == {"chown", "chmod", "secureSocket"}

\* When the helper reads its configuration: what it may find there.
ConfInv ==
    /\ conf # None => OfSystem(conf)
    /\ Home = None => conf = None /\ helper \notin {"acl", "read"}
    /\ helper \in {"acl", "read"} /\ os = "windows" =>
         HomeIsOpen \/ (conf # None => ~conf.reparse)
    /\ helper = "read" =>
         \/ HomeIsOpen
         \/ os = "unix" /\ conf # None /\ conf.reparse
         \/ conf # None /\ \A p \in People : ~MayUse(p, conf, "write")

\* Each system has calls of its own, and one group on Unix.
OSInv ==
    /\ os = "unix" => group = "group" /\ helper \notin {"mkdir", "junction", "secure", "secureSocket"}
    /\ os = "windows" => helper \notin {"chown", "chmod"}

DirInv ==
    /\ dir # None => OfSystem(dir)
    /\ helper = "readBack" /\ os = "windows" => dir = OwnDir
    /\ helper \in PastDir =>
         /\ dir # None
         /\ IF os = "unix" THEN checkDir(dir) ELSE dir = OwnDir

SockInv ==
    /\ listening <=> helper \in Bare \cup {"serving"}
    /\ helper \in Bare => sock = Own(IF os = "unix" THEN <<>> ELSE Inherited(OwnDir))
    /\ helper = "serving" =>
         sock = IF os = "unix" THEN Own(<<Allow(group, Full, FALSE)>>) ELSE OwnSocket

IInv == TypeOK /\ ConfInv /\ OSInv /\ DirInv /\ SockInv

LEMMA SameSystem ==
    ASSUME os' = os
    PROVE  \A d : (OfSystem(d)' <=> OfSystem(d)) /\ (checkOwner(d)' <=> checkOwner(d))
BY DEF OfSystem, checkOwner

LEMMA SameGroup ==
    ASSUME group' = group
    PROVE  OwnDir' = OwnDir /\ OwnSocket' = OwnSocket
BY DEF OwnDir, OwnSocket

(* The invariant holds at first.                                           *)
LEMMA InitIInv == Init => IInv
<1> SUFFICES ASSUME Init PROVE IInv
  OBVIOUS
<1> USE DEF Init
<1>1. TypeOK
  BY FoundAssumption DEF TypeOK, PCs, Of
<1>2. ConfInv /\ OSInv /\ DirInv /\ SockInv
  BY FoundAssumption DEF ConfInv, OSInv, DirInv, SockInv, PastDir, Bare, Of, Home
<1> QED BY <1>1, <1>2 DEF IInv

(* What is at helper.json's path is a file of the system, whoever puts it  *)
(* there.                                                                  *)
LEMMA ConfIsOfTheSystem ==
    ASSUME IInv, [Next]_vars
    PROVE  conf' \in Descriptor \cup {None} /\ (conf' # None => OfSystem(conf'))
<1>1. conf' = conf \/ conf' \in Of(ConfFound) \/ conf' \in Of(ConfPut) \cup {None}
  BY DEF vars, files, Next, Step, Start, ConfNotALink, ConfAccepted, ConfRead, GroupLookedUp,
         DirCreated, NotAJunction, DirSecured, DirChecked, Removed, Bound, Chowned, Chmoded,
         SocketSecured, Fails, Stops, Killed, Installed, Replaced, Altered
<1> QED BY <1>1, FoundAssumption DEF IInv, TypeOK, ConfInv, Of

(* From the check until it is read, the file is replaced only where people *)
(* may write its directory, or at the end of a link.                       *)
LEMMA StepConfInv == IInv /\ [Next]_vars => ConfInv'
<1> SUFFICES ASSUME IInv, [Next]_vars PROVE ConfInv'
  OBVIOUS
<1> USE DEF IInv
<1>1. os' = os /\ etc' = etc /\ os \in {"unix", "windows"}
  BY DEF TypeOK, vars, files, Next, Step, Start, ConfNotALink, ConfAccepted, ConfRead,
         GroupLookedUp, DirCreated, NotAJunction, DirSecured, DirChecked, Removed, Bound,
         Chowned, Chmoded, SocketSecured, Fails, Stops, Killed, Installed, Replaced, Altered
<1>2. conf' # None => OfSystem(conf)'
  BY <1>1, ConfIsOfTheSystem DEF OfSystem
<1>3. Home' = None => Home = None /\ conf' = None /\ helper' \notin {"acl", "read"}
  <2>1. dir' = None => dir = None
    BY MadeDescriptors, FoundAssumption
    DEF TypeOK, Of, vars, files, Next, Step, Start, ConfNotALink, ConfAccepted, ConfRead,
        GroupLookedUp, DirCreated, NotAJunction, DirSecured, DirChecked, Removed, Bound,
        Chowned, Chmoded, SocketSecured, Fails, Stops, Killed, Installed, Replaced, Altered
  <2>2. SUFFICES ASSUME Home = None, Home' = None
                 PROVE  conf' = None /\ helper' \notin {"acl", "read"}
    BY <1>1, <2>1 DEF Home
  <2>3. conf = None /\ helper \notin {"acl", "read"}
    BY <2>2 DEF ConfInv
  <2>4. ~Installed
    BY <1>1, <2>2, FoundAssumption DEF Installed, Home, Of
  <2>5. conf' = None
    BY <2>2, <2>3, <2>4
    DEF vars, files, Next, Step, Start, ConfNotALink, ConfAccepted, ConfRead, GroupLookedUp,
        DirCreated, NotAJunction, DirSecured, DirChecked, Removed, Bound, Chowned, Chmoded,
        SocketSecured, Fails, Stops, Killed, Replaced, Altered, HomeIsOpen
  <2>6. helper' \notin {"acl", "read"}
    BY <2>3, <2>4
    DEF vars, files, Next, Step, Start, ConfNotALink, ConfAccepted, ConfRead, GroupLookedUp,
        DirCreated, NotAJunction, DirSecured, DirChecked, Removed, Bound, Chowned, Chmoded,
        SocketSecured, Fails, Stops, Killed, Replaced, Altered, Goes
  <2> QED BY <2>5, <2>6
<1>4. CASE helper' \notin {"acl", "read"}
  BY <1>2, <1>3, <1>4 DEF ConfInv
<1>5. ASSUME dir' = dir PROVE HomeIsOpen' = HomeIsOpen
  BY <1>1, <1>5 DEF HomeIsOpen, Home, MayUse
<1>6. ASSUME ConfNotALink PROVE ConfInv'
  BY <1>2, <1>3, <1>6 DEF ConfNotALink, Goes, ConfInv, files
<1>7. ASSUME ConfAccepted PROVE ConfInv'
  <2>1. conf' = conf /\ conf # None /\ dir' = dir /\ helper' = "read"
    BY <1>7 DEF ConfAccepted, Goes, files
  <2>2. \A p \in People : ~MayUse(p, conf, "write")
    BY <1>1, <1>7, <2>1, AcceptedIsUnwritable DEF ConfAccepted, TypeOK, ConfInv
  <2>3. os = "windows" => HomeIsOpen \/ ~conf.reparse
    BY <1>7, <2>1 DEF ConfAccepted, Goes, ConfInv
  <2> QED BY <1>1, <1>2, <1>3, <1>5, <2>1, <2>2, <2>3 DEF ConfInv, MayUse
<1>8. ASSUME helper' = helper, conf' = conf, HomeIsOpen' = HomeIsOpen PROVE ConfInv'
  BY <1>1, <1>2, <1>3, <1>8 DEF ConfInv, MayUse
<1>9. ASSUME Installed, helper' \in {"acl", "read"} PROVE ConfInv'
  <2>1. dir = None /\ helper' = helper /\ (etc # None => conf' = conf)
    BY <1>9 DEF Installed
  <2>2. etc # None
    BY <1>9, <2>1 DEF ConfInv, Home
  <2>3. HomeIsOpen' = HomeIsOpen
    BY <1>1, <2>2 DEF HomeIsOpen, Home, MayUse
  <2> QED BY <1>8, <2>1, <2>2, <2>3
<1>10. ASSUME Replaced PROVE ConfInv'
  <2>1. helper' = helper /\ HomeIsOpen /\ HomeIsOpen'
    BY <1>5, <1>10 DEF Replaced
  <2> QED BY <1>2, <1>3, <2>1 DEF ConfInv
<1>11. ASSUME Altered PROVE ConfInv'
  <2>1. helper' = helper /\ HomeIsOpen' = HomeIsOpen /\ conf # None
    BY <1>5, <1>11 DEF Altered
  <2>2. conf' # None /\ conf'.reparse = conf.reparse
    BY <1>11, FoundAssumption DEF Altered, Of
  <2>3. ASSUME ~conf.reparse, \A p \in People : ~MayUse(p, conf, "write") PROVE FALSE
    BY <1>11, <2>3 DEF Altered, MayUse
  <2> QED BY <1>1, <1>2, <1>3, <2>1, <2>2, <2>3 DEF ConfInv
<1>12. CASE UNCHANGED vars
  BY <1>5, <1>8, <1>12 DEF vars
<1>13. ASSUME Step, ~ConfNotALink, ~ConfAccepted PROVE helper' \notin {"acl", "read"}
  BY <1>13 DEF Step, Start, ConfRead, GroupLookedUp, DirCreated, NotAJunction, DirSecured,
         DirChecked, Removed, Bound, Chowned, Chmoded, SocketSecured, Fails, Stops, Killed, Goes
<1> QED BY <1>4, <1>6, <1>7, <1>9, <1>10, <1>11, <1>12, <1>13 DEF Next

(* Each call comes where the code has it, and the group is looked up once. *)
LEMMA StepOSInv == IInv /\ [Next]_vars => OSInv'
<1> SUFFICES ASSUME IInv, [Next]_vars PROVE OSInv'
  OBVIOUS
<1> USE DEF IInv, OSInv
<1>1. ASSUME Step PROVE OSInv'
  BY <1>1 DEF Step, Start, ConfNotALink, ConfAccepted, ConfRead, GroupLookedUp, DirCreated,
         NotAJunction, DirSecured, DirChecked, Removed, Bound, Chowned, Chmoded, SocketSecured,
         Fails, Stops, Killed, Goes
<1>2. ASSUME Installed \/ Replaced \/ Altered PROVE OSInv'
  BY <1>2 DEF Installed, Replaced, Altered
<1>3. ASSUME UNCHANGED vars PROVE OSInv'
  BY <1>3 DEF vars
<1> QED BY <1>1, <1>2, <1>3 DEF Next

(* Types: the descriptors the helper makes are descriptors of the system.  *)
LEMMA StepTypeOK == IInv /\ [Next]_vars => TypeOK'
<1> SUFFICES ASSUME IInv, [Next]_vars PROVE TypeOK'
  OBVIOUS
<1> USE DEF IInv, TypeOK
<1>1. /\ os' \in {"unix", "windows"} /\ listening' \in BOOLEAN
      /\ group' \in {"group", "interactive"} /\ etc' \in Descriptor \cup {None}
  BY DEF vars, files, Next, Step, Start, ConfNotALink, ConfAccepted, ConfRead, GroupLookedUp, DirCreated,
         NotAJunction, DirSecured, DirChecked, Removed, Bound, Chowned, Chmoded, SocketSecured,
         Fails, Stops, Killed, Installed, Replaced, Altered, Closed
<1>2. helper' \in PCs
  BY DEF vars, files, Next, Step, Start, ConfNotALink, ConfAccepted, ConfRead, GroupLookedUp, DirCreated,
         NotAJunction, DirSecured, DirChecked, Removed, Bound, Chowned, Chmoded, SocketSecured,
         Fails, Stops, Killed, Installed, Replaced, Altered, Goes, PCs
<1>3. dir' \in Descriptor \cup {None}
  <2>1. dir' \in {dir, OwnDir} \cup Of(DirFound)
    BY DEF vars, files, Next, Step, Start, ConfNotALink, ConfAccepted, ConfRead, GroupLookedUp, DirCreated,
           NotAJunction, DirSecured, DirChecked, Removed, Bound, Chowned, Chmoded, SocketSecured,
           Fails, Stops, Killed, Installed, Replaced, Altered
  <2> QED BY <2>1, MadeDescriptors, FoundAssumption DEF Of
<1>4. sock' \in Descriptor \cup {None}
  <2>1. CASE Bound
    <3>1. Born = <<>> \/ (os = "windows" /\ Born = Inherited(dir))
      BY DEF Born
    <3>2. os = "windows" => dir \in Descriptor
      BY <2>1 DEF Bound, DirInv, PastDir, Goes
    <3>3. Own(Born) \in Descriptor
      BY <3>1, <3>2, InheritedIsADACL, MadeDescriptors
    <3> QED BY <2>1, <3>3 DEF Bound
  <2>2. CASE ~Bound
    <3>1. sock' \in {sock, None, OwnSocket, Own(<<Allow(group, Full, FALSE)>>)}
      BY <2>2 DEF vars, files, Next, Step, Start, ConfNotALink, ConfAccepted, ConfRead, GroupLookedUp,
         DirCreated, NotAJunction, DirSecured, DirChecked, Removed, Chowned, Chmoded,
         SocketSecured, Fails, Stops, Killed, Installed, Replaced, Altered, Closed
    <3> QED BY <3>1, MadeDescriptors
  <2> QED BY <2>1, <2>2
<1>5. conf' \in Descriptor \cup {None}
  BY ConfIsOfTheSystem
<1> QED BY <1>1, <1>2, <1>3, <1>4, <1>5

(* The directory stays what it was found to be, or made: it changes only   *)
(* while it is being made, or while there is none.                         *)
LEMMA StepDirInv == IInv /\ [Next]_vars => DirInv'
<1> SUFFICES ASSUME IInv, [Next]_vars PROVE DirInv'
  OBVIOUS
<1> USE DEF IInv, TypeOK
<1>1. os' = os
  BY DEF vars, files, Next, Step, Start, ConfNotALink, ConfAccepted, ConfRead, GroupLookedUp, DirCreated,
         NotAJunction, DirSecured, DirChecked, Removed, Bound, Chowned, Chmoded, SocketSecured,
         Fails, Stops, Killed, Installed, Replaced, Altered
<1>2. dir' # None => OfSystem(dir')
  <2>1. dir' = dir \/ dir' \in Of(DirFound) \/ (os = "windows" /\ dir' = OwnDir)
    BY DEF vars, files, Next, Step, Start, ConfNotALink, ConfAccepted, ConfRead, GroupLookedUp, DirCreated,
         NotAJunction, DirSecured, DirChecked, Removed, Bound, Chowned, Chmoded, SocketSecured,
         Fails, Stops, Killed, Installed, Replaced, Altered, Goes, OSInv
  <2>2. os = "windows" => OfSystem(OwnDir)
    BY DEF OfSystem, OwnDir, Own
  <2> QED BY <2>1, <2>2 DEF DirInv, Of
<1>3. helper' = "readBack" /\ os = "windows" => dir' = OwnDir /\ group' = group
  <2>1. CASE helper = "secure" /\ DirSecured
    BY <2>1 DEF DirSecured
  <2>2. CASE UNCHANGED vars \/ Installed \/ Replaced \/ Altered
    <3>1. helper' = helper /\ group' = group /\ (dir # None => dir' = dir)
      BY <2>2 DEF vars, Installed, Replaced, Altered
    <3>2. helper = "readBack" /\ os = "windows" => dir = OwnDir /\ dir # None
      BY MadeDescriptors, FoundAssumption DEF DirInv
    <3> QED BY <3>1, <3>2
  <2>3. ASSUME Step, ~DirSecured, helper' = "readBack" PROVE os = "unix"
    BY <2>3 DEF Step, Start, ConfNotALink, ConfAccepted, ConfRead, GroupLookedUp, DirCreated,
         NotAJunction, DirChecked, Removed, Bound, Chowned, Chmoded, SocketSecured,
         Fails, Stops, Killed, Goes
  <2> QED BY <2>1, <2>2, <2>3 DEF Next, DirSecured, Goes
<1>4. helper' \in PastDir =>
        /\ dir' # None /\ group' = group
        /\ IF os = "unix" THEN checkDir(dir') ELSE dir' = OwnDir
  <2> USE DEF DirInv, Goes, PastDir
  <2> QED BY FoundAssumption
      DEF Of, vars, files, Next, Step, Start, ConfNotALink, ConfAccepted, ConfRead, GroupLookedUp, DirCreated,
         NotAJunction, DirSecured, DirChecked, Removed, Bound, Chowned, Chmoded, SocketSecured,
         Fails, Stops, Killed, Installed, Replaced, Altered
<1>5. (dir' # None => OfSystem(dir)') /\ (group' = group => OwnDir' = OwnDir)
  BY <1>1, <1>2, SameGroup DEF OfSystem
<1>6. helper' \in PastDir => IF os = "unix" THEN checkDir(dir)' ELSE dir' = OwnDir'
  BY <1>4, <1>5 DEF checkDir
<1> QED BY <1>1, <1>3, <1>4, <1>5, <1>6 DEF DirInv

(* The socket is bare from bind until the call that gives it to its group. *)
LEMMA StepSockInv == IInv /\ [Next]_vars => SockInv'
<1> SUFFICES ASSUME IInv, [Next]_vars PROVE SockInv'
  OBVIOUS
<1> USE DEF IInv, SockInv, Bare
<1>1. os' = os /\ os \in {"unix", "windows"}
  BY DEF TypeOK, vars, files, Next, Step, Start, ConfNotALink, ConfAccepted, ConfRead, GroupLookedUp, DirCreated,
         NotAJunction, DirSecured, DirChecked, Removed, Bound, Chowned, Chmoded, SocketSecured,
         Fails, Stops, Killed, Installed, Replaced, Altered
<1>2. CASE helper' \notin Bare \cup {"serving"}
  <2>1. listening' = FALSE
    BY <1>2 DEF vars, files, Next, Step, Start, ConfNotALink, ConfAccepted, ConfRead, GroupLookedUp, DirCreated,
         NotAJunction, DirSecured, DirChecked, Removed, Bound, Chowned, Chmoded, SocketSecured,
         Fails, Stops, Killed, Installed, Replaced, Altered, Goes, Closed, TypeOK
  <2> QED BY <2>1, <1>2
<1>3. ASSUME Bound PROVE SockInv'
  <2>1. os = "windows" => dir = OwnDir /\ OwnDir' = OwnDir
    BY <1>1, <1>3, SameGroup DEF Bound, Goes, DirInv, PastDir
  <2>2. sock' = Own(IF os = "unix" THEN <<>> ELSE Inherited(OwnDir)')
    BY <1>1, <1>3, <2>1 DEF Bound, Born, Inherited
  <2>3. helper' \in Bare /\ listening' = TRUE
    BY <1>3 DEF Bound, Goes
  <2> QED BY <1>1, <2>2, <2>3
<1>4. ASSUME Chmoded PROVE SockInv'
  BY <1>1, <1>4 DEF Chmoded, Goes, OSInv
<1>5. ASSUME SocketSecured PROVE SockInv'
  BY <1>1, <1>5, SameGroup DEF SocketSecured, Goes, OSInv
<1>6. ASSUME Chowned \/ Installed \/ Replaced \/ Altered \/ UNCHANGED vars PROVE SockInv'
  <2>1. /\ sock' = sock /\ listening' = listening /\ group' = group
        /\ (helper' = helper \/ (helper \in Bare /\ helper' \in Bare))
    BY <1>6 DEF Chowned, Installed, Replaced, Altered, vars, files, Goes
  <2>2. OwnDir' = OwnDir /\ OwnSocket' = OwnSocket
    BY <2>1, SameGroup
  <2> QED BY <1>1, <2>1, <2>2 DEF Inherited
<1>7. ASSUME helper' \in Bare \cup {"serving"}
      PROVE  \/ Bound \/ Chmoded \/ SocketSecured \/ Chowned
             \/ Installed \/ Replaced \/ Altered \/ UNCHANGED vars
  BY <1>7 DEF Next, Step, Start, ConfNotALink, ConfAccepted, ConfRead, GroupLookedUp, DirCreated,
         NotAJunction, DirSecured, DirChecked, Removed, Fails, Stops, Killed, Goes
<1> QED BY <1>2, <1>3, <1>4, <1>5, <1>6, <1>7

LEMMA Invariant == Spec => []IInv
<1>1. IInv /\ [Next]_vars => IInv'
  BY StepTypeOK, StepConfInv, StepOSInv, StepDirInv, StepSockInv DEF IInv
<1> QED BY InitIInv, <1>1, PTL DEF Spec

-----------------------------------------------------------------------------
(* Every variable keeps its type: whatever the helper makes of the         *)
(* directory and the socket is a descriptor of the system.                 *)
THEOREM TypeCorrect == Spec => []TypeOK
<1>1. IInv => TypeOK
  BY DEF IInv
<1> QED BY Invariant, <1>1, PTL

(* What is at helper.json's path when it is read, no person may write, on  *)
(* either system, whatever it was found with, whatever people put there and*)
(* whenever -- unless they may write its directory, or on Unix it is a link*)
(* (helper.go:57-60, acl.go, listen_unix.go).                              *)
THEOREM ConfigurationIsTheAdministratorsCorrect == Spec => []ConfigurationIsTheAdministrators
<1>1. IInv => ConfigurationIsTheAdministrators
  BY DEF IInv, ConfInv, ConfigurationIsTheAdministrators
<1> QED BY Invariant, <1>1, PTL

LEMMA GrantedByAnEntry ==
    ASSUME NEW p, NEW right, NEW d, NEW i \in DOMAIN d.dacl,
           About(d.dacl[i], p, right), Grants(d.dacl[i]),
           \A j \in 1..(i - 1) : ~About(d.dacl[j], p, right)
    PROVE  MayUse(p, d, right)
BY DEF MayUse

(* What OwnDir and OwnSocket grant: the directory is listed by the group   *)
(* and written by no person, and the socket is the group's.                *)
LEMMA OwnDirIsTheHelpers ==
    ASSUME group \in {"group", "interactive"}, NEW p \in People
    PROVE  /\ ~MayUse(p, OwnDir, "write")
           /\ group \in GroupsOf[p] => MayUse(p, OwnDir, "read")
<1>1. \A sid \in {"system", "administrators"} : sid \notin GroupsOf[p]
  BY PeopleAreNotTrusted DEF trusted
<1>2. ~MayUse(p, OwnDir, "write")
  BY <1>1 DEF MayUse, About, Grants, OwnDir, Own, Allow, Full
<1>3. ASSUME group \in GroupsOf[p] PROVE MayUse(p, OwnDir, "read")
  <2>1. 3 \in DOMAIN OwnDir.dacl /\ OwnDir.dacl[3] = Allow(group, {"read"}, FALSE)
    BY DEF OwnDir, Own
  <2>2. About(OwnDir.dacl[3], p, "read") /\ Grants(OwnDir.dacl[3])
    BY <1>3, <2>1 DEF About, Grants, Allow
  <2>3. \A j \in 1..(3 - 1) : ~About(OwnDir.dacl[j], p, "read")
    BY <1>1 DEF About, OwnDir, Own, Allow
  <2> QED BY <2>1, <2>2, <2>3, GrantedByAnEntry
<1> QED BY <1>2, <1>3

LEMMA OwnSocketIsTheGroups ==
    ASSUME group \in {"group", "interactive"}, NEW p \in People
    PROVE  MayUse(p, OwnSocket, "write") <=> group \in GroupsOf[p]
<1>1. \A sid \in {"system", "administrators"} : sid \notin GroupsOf[p]
  BY PeopleAreNotTrusted DEF trusted
<1>2. MayUse(p, OwnSocket, "write") => group \in GroupsOf[p]
  BY <1>1 DEF MayUse, About, Grants, OwnSocket, Own, Allow, Full
<1>3. ASSUME group \in GroupsOf[p] PROVE MayUse(p, OwnSocket, "write")
  <2>1. 3 \in DOMAIN OwnSocket.dacl /\ OwnSocket.dacl[3] = Allow(group, Full, FALSE)
    BY DEF OwnSocket, Own
  <2>2. About(OwnSocket.dacl[3], p, "write") /\ Grants(OwnSocket.dacl[3])
    BY <1>3, <2>1 DEF About, Grants, Allow, Full
  <2>3. \A j \in 1..(3 - 1) : ~About(OwnSocket.dacl[j], p, "write")
    BY <1>1 DEF About, OwnSocket, Own, Allow
  <2> QED BY <2>1, <2>2, <2>3, GrantedByAnEntry
<1> QED BY <1>2, <1>3

(* On Unix: the mode 0660, and before it 0600.                             *)
LEMMA ModesAreTheGroups ==
    ASSUME NEW p \in People
    PROVE  /\ ~MayUse(p, Own(<<>>), "write")
           /\ MayUse(p, Own(<<Allow(group, Full, FALSE)>>), "write") <=> group \in GroupsOf[p]
<1>1. "system" \notin GroupsOf[p]
  BY PeopleAreNotTrusted DEF trusted
<1>2. ~MayUse(p, Own(<<>>), "write")
  BY <1>1 DEF MayUse, Own
<1>3. MayUse(p, Own(<<Allow(group, Full, FALSE)>>), "write") => group \in GroupsOf[p]
  BY <1>1 DEF MayUse, Own, About, Allow
<1>4. ASSUME group \in GroupsOf[p]
      PROVE  MayUse(p, Own(<<Allow(group, Full, FALSE)>>), "write")
  <2> DEFINE d == Own(<<Allow(group, Full, FALSE)>>)
  <2>1. 1 \in DOMAIN d.dacl /\ d.dacl[1] = Allow(group, Full, FALSE)
    BY DEF Own
  <2>2. About(d.dacl[1], p, "write") /\ Grants(d.dacl[1])
    BY <1>4, <2>1 DEF About, Grants, Allow, Full
  <2> QED BY <2>1, <2>2, GrantedByAnEntry
<1> QED BY <1>2, <1>3, <1>4

(* What a socket just bound inherits of the helper's directory, on Windows *)
LEMMA InheritedIsTheHelpers ==
    ASSUME NEW p \in People
    PROVE  ~MayUse(p, Own(Inherited(OwnDir)), "write")
<1>1. \A sid \in {"system", "administrators"} : sid \notin GroupsOf[p]
  BY PeopleAreNotTrusted DEF trusted
<1>2. DOMAIN OwnDir.dacl = 1..3
  BY DEF OwnDir, Own
<1>3. ASSUME NEW i \in 1..3 PROVE ~About(Inherited(OwnDir)[i], p, "write")
  <2>1. Inherited(OwnDir)[i] = [OwnDir.dacl[i] EXCEPT !.self = OwnDir.dacl[i].heirs]
    BY <1>2 DEF Inherited
  <2>2. /\ OwnDir.dacl[1] = Allow("system", Full, TRUE)
        /\ OwnDir.dacl[2] = Allow("administrators", Full, TRUE)
        /\ OwnDir.dacl[3] = Allow(group, {"read"}, FALSE)
    BY DEF OwnDir, Own
  <2>3. CASE OwnDir.dacl[i] = Allow(group, {"read"}, FALSE)
    BY <2>1, <2>3 DEF About, Allow
  <2>4. CASE OwnDir.dacl[i].sid \in {"system", "administrators"}
    BY <2>1, <2>2, <2>4, <1>1 DEF About, Allow
  <2>5. Allow("system", Full, TRUE).sid = "system"
        /\ Allow("administrators", Full, TRUE).sid = "administrators"
    BY DEF Allow
  <2>6. i = 1 \/ i = 2 \/ i = 3
    OBVIOUS
  <2> QED BY <2>2, <2>3, <2>4, <2>5, <2>6
<1>4. DOMAIN Inherited(OwnDir) = 1..3
  BY <1>2 DEF Inherited
<1> QED BY <1>1, <1>3, <1>4 DEF MayUse, Own

(* checkDir (listen_unix.go:60-75): in the directory it accepts, nobody but*)
(* a file's owner and root may replace the file.                           *)
LEMMA AcceptedDirIsSafe ==
    ASSUME os = "unix", dir \in Descriptor, OfSystem(dir), checkDir(dir), NEW p \in People,
           MayUse(p, dir, "write")
    PROVE  dir.sticky
BY RootsAloneIsUnwritable DEF OfSystem, checkDir

(* From the moment it is bound the socket is open to no person outside its *)
(* group, in a directory where no person may replace it; served, it is open*)
(* to the whole group; and no failure leaves it open (listen_unix.go,      *)
(* listen_windows.go).                                                     *)
THEOREM SocketIsTheGroupsCorrect == Spec => []SocketIsTheGroups
<1>1. ASSUME IInv PROVE SocketIsTheGroups
  <2> USE <1>1 DEF IInv
  <2>1. group \in {"group", "interactive"} /\ os \in {"unix", "windows"}
    BY DEF TypeOK
  <2>2. OnlyTheGroupConnects
    BY <2>1, OwnSocketIsTheGroups, ModesAreTheGroups, InheritedIsTheHelpers
       DEF OnlyTheGroupConnects, SockInv
  <2>3. TheGroupConnects
    BY <2>1, OwnSocketIsTheGroups, ModesAreTheGroups, OwnDirIsTheHelpers
       DEF TheGroupConnects, SockInv, DirInv, PastDir
  <2>4. NobodyReplacesIt
    <3> SUFFICES ASSUME listening, NEW p \in People, MayUse(p, dir, "write") PROVE dir.sticky
      BY DEF NobodyReplacesIt
    <3>1. /\ dir # None /\ dir \in Descriptor /\ OfSystem(dir)
          /\ IF os = "unix" THEN checkDir(dir) ELSE dir = OwnDir
      BY DEF SockInv, Bare, DirInv, PastDir, TypeOK
    <3> QED BY <2>1, <3>1, AcceptedDirIsSafe, OwnDirIsTheHelpers
  <2>5. NoneIsLeftOpen
    BY DEF NoneIsLeftOpen, SockInv, Bare
  <2> QED BY <2>2, <2>3, <2>4, <2>5 DEF SocketIsTheGroups
<1> QED BY Invariant, <1>1, PTL

=============================================================================
