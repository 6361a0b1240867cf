----------------------------- MODULE TokenStore -----------------------------
(***************************************************************************)
(* The session file (pkg/tokenstore/tokenstore.go) as the file system sees *)
(* it: Save writes session.json.tmp and renames it over session.json, Load *)
(* reads session.json and Clear removes it.  Files are inodes, which a     *)
(* goroutine that opened one keeps writing to whatever happens to its name.*)
(*                                                                         *)
(* A write is one step, but a reader or the end of the process may come    *)
(* between opening the file, which empties it, and the write.  A machine   *)
(* that loses power is left out.                                           *)
(***************************************************************************)
EXTENDS Naturals, FiniteSets

CONSTANTS
    Threads,    \* goroutines that use the store, one call after the other
    Sessions,   \* what can be saved
    None,       \* no session
    Inodes      \* the inodes of the file system

ASSUME StoreAssumption ==
    /\ IsFiniteSet(Threads)
    /\ None \notin Sessions \cup Inodes
    /\ Cardinality(Inodes) > Cardinality(Threads)

VARIABLES
    session,  \* the inode of session.json, None if there is none
    tmp,      \* that of session.json.tmp
    content,  \* what each inode holds
    thr,      \* the goroutines
    overlapped  \* history: of the Saves under way, some have overlapped

vars == <<session, tmp, content, thr, overlapped>>

-----------------------------------------------------------------------------
Empty == "empty"
Torn  == "torn"  \* parts of two sessions

PCs == {"idle", "open", "write", "rename", "loaded"}

\* what is the session being saved, or what Load read.
Thread == [pc : PCs, inode : Inodes \cup {None}, what : Sessions \cup {None, Empty, Torn}]

Idle == [pc |-> "idle", inode |-> None, what |-> None]

TypeOK ==
    /\ session \in Inodes \cup {None}
    /\ tmp \in Inodes \cup {None}
    /\ content \in [Inodes -> Sessions \cup {Empty, Torn}]
    /\ thr \in [Threads -> Thread]
    /\ session = None \/ session # tmp
    /\ overlapped \in BOOLEAN

Init ==
    /\ session = None
    /\ tmp = None
    /\ content = [i \in Inodes |-> Empty]
    /\ thr = [t \in Threads |-> Idle]
    /\ overlapped = FALSE

Saving(t) == thr[t].pc \in {"open", "write", "rename"}

\* An inode with no name that nobody has open.
Free(i) == i \notin {session, tmp} /\ \A t \in Threads : thr[t].inode # i

-----------------------------------------------------------------------------
\* Nothing serialises Saves: Login, SetTenant and keepRenewing's session each
\* make theirs.
Save(t, s) ==
    /\ thr[t] = Idle
    /\ thr' = [thr EXCEPT ![t] = [pc |-> "open", inode |-> None, what |-> s]]
    /\ overlapped' = \E u \in Threads : Saving(u)
    /\ UNCHANGED <<session, tmp, content>>

\* The file that is to be emptied and written, there or yet to be created.
Target(i) == IF tmp = None THEN Free(i) ELSE i = tmp

\* Mutant: session.json itself is emptied and written, and renamed to itself.
Open_InPlace(t, i) ==
    /\ thr[t].pc = "open"
    /\ IF session = None THEN Target(i) ELSE i = session
    /\ IF session = None THEN tmp' = i ELSE UNCHANGED tmp
    /\ content' = [content EXCEPT ![i] = Empty]
    /\ thr' = [thr EXCEPT ![t].pc = "write", ![t].inode = i]
    /\ UNCHANGED <<session, overlapped>>

\* os.WriteFile opens the temporary file, and empties it.
Open(t, i) ==
    /\ thr[t].pc = "open"
    /\ Target(i)
    /\ tmp' = i
    /\ content' = [content EXCEPT ![i] = Empty]
    /\ thr' = [thr EXCEPT ![t].pc = "write", ![t].inode = i]
    /\ UNCHANGED <<session, overlapped>>

\* os.WriteFile writes it.  Over another session, what is longer shows.
Write(t) ==
    LET i == thr[t].inode IN
    /\ thr[t].pc = "write"
    /\ \/ content' = [content EXCEPT ![i] = thr[t].what]
       \/ /\ content[i] \notin {Empty, thr[t].what}
          /\ content' = [content EXCEPT ![i] = Torn]
    /\ thr' = [thr EXCEPT ![t].pc = "rename"]
    /\ UNCHANGED <<session, tmp, overlapped>>

Ends(t) ==
    /\ thr' = [thr EXCEPT ![t] = Idle]
    /\ overlapped' = (overlapped /\ \E u \in Threads \ {t} : Saving(u))

\* Mutant: the temporary name is left on the file.
Rename_Links(t) ==
    /\ thr[t].pc = "rename"
    /\ session' = IF tmp = None THEN session ELSE tmp
    /\ Ends(t)
    /\ UNCHANGED <<tmp, content>>

\* os.Rename: whatever has the temporary name by now gets the other.  With no
\* file of that name it fails, and so does Save.
Rename(t) ==
    /\ thr[t].pc = "rename"
    /\ session' = IF tmp = None THEN session ELSE tmp
    /\ tmp' = None
    /\ Ends(t)
    /\ UNCHANGED content

\* A full disk, no access, or a target that somebody has open: Save fails, and
\* leaves what it has written.
SaveFails(t) ==
    /\ Saving(t)
    /\ Ends(t)
    /\ UNCHANGED <<session, tmp, content>>

\* No file is no session.  What does not parse is an error.
Load(t) ==
    /\ thr[t] = Idle
    /\ thr' = [thr EXCEPT ![t].pc = "loaded",
                          ![t].what = IF session = None THEN None ELSE content[session]]
    /\ UNCHANGED <<session, tmp, content, overlapped>>

Loaded(t) ==
    /\ thr[t].pc = "loaded"
    /\ thr' = [thr EXCEPT ![t] = Idle]
    /\ UNCHANGED <<session, tmp, content, overlapped>>

Clear(t) ==
    /\ thr[t] = Idle
    /\ session' = None
    /\ UNCHANGED <<tmp, content, thr, overlapped>>

\* The process ends, and another starts with the files it left.
Restart ==
    /\ thr' = [t \in Threads |-> Idle]
    /\ overlapped' = FALSE
    /\ UNCHANGED <<session, tmp, content>>

Next ==
    \/ \E t \in Threads :
         \/ \E s \in Sessions : Save(t, s)
         \/ \E i \in Inodes : Open(t, i)
         \/ Write(t)
         \/ Rename(t)
         \/ SaveFails(t)
         \/ Load(t)
         \/ Loaded(t)
         \/ Clear(t)
    \/ Restart

Spec == Init /\ [][Next]_vars

-----------------------------------------------------------------------------
\* What is in session.json: a session, or what cannot be read as one.
File == IF session = None THEN None ELSE content[session]

Given == [t \in Threads |-> IF Saving(t) THEN {thr[t].what} ELSE {}]

Finds == [t \in Threads |-> IF thr[t].pc = "loaded" THEN {thr[t].what} ELSE {}]

Store == INSTANCE SessionFile WITH
    file <- File, saves <- Given, loads <- Finds, Garbage <- {Empty, Torn}

(* A Save that overlaps no other replaces the file by what it was given or *)
(* leaves it, in one step, and a Load finds it whole at any moment --      *)
(* whenever the process ends, and whatever earlier Saves left behind, those*)
(* that overlapped too.  While Saves overlap, what is in it may be anything*)
(* (tokenstore.go:46-84).                                                  *)
SaveIsAtomic == Store!Spec
=============================================================================
