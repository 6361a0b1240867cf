-------------------------- MODULE TokenStore_proofs --------------------------
(***************************************************************************)
(* TokenStore implements SessionFile, for any number of goroutines that    *)
(* load, save and clear, and however their Saves overlap.                  *)
(***************************************************************************)
EXTENDS TokenStore, TLAPS

\* What is being saved is a session, and what has overlapped is under way.
Savers ==
    /\ \A t \in Threads : Saving(t) => thr[t].what \in Sessions
    /\ overlapped => \E t \in Threads : Saving(t)

\* While no Saves have overlapped, one that is under way is the only one, and
\* has the temporary file for itself: what it renames is what it was given.
Alone == \A t, u \in Threads : Saving(t) /\ Saving(u) => t = u

Holds(t) ==
    /\ thr[t].pc \in {"write", "rename"} => tmp # None /\ thr[t].inode = tmp
    /\ thr[t].pc = "write" => content[tmp] = Empty
    /\ thr[t].pc = "rename" => content[tmp] = thr[t].what

Lone == Alone /\ \A t \in Threads : Holds(t)

IInv == TypeOK /\ Savers /\ (~overlapped => Lone)

-----------------------------------------------------------------------------
LEMMA InitIInv == Init => IInv
<1> SUFFICES ASSUME Init PROVE IInv
  OBVIOUS
<1>1. TypeOK
  BY DEF Init, TypeOK, Thread, PCs, Idle
<1> QED BY <1>1 DEF Init, IInv, Savers, Lone, Alone, Holds, Saving, Idle

LEMMA StepTypeOK ==
    ASSUME IInv, [Next]_vars
    PROVE  TypeOK'
<1> USE StoreAssumption DEF IInv, TypeOK
<1>1. Idle \in Thread
  BY DEF Idle, Thread, PCs
<1>2. \A t \in Threads : thr[t] \in Thread
  OBVIOUS
<1>3. ASSUME NEW t \in Threads, NEW s \in Sessions, Save(t, s) PROVE TypeOK'
  <2>1. [pc |-> "open", inode |-> None, what |-> s] \in Thread
    BY DEF Thread, PCs
  <2> QED BY <1>3, <2>1 DEF Save
<1>4. ASSUME NEW t \in Threads, NEW i \in Inodes, Open(t, i) PROVE TypeOK'
  <2>1. [thr[t] EXCEPT !.pc = "write", !.inode = i] \in Thread
    BY <1>2 DEF Thread, PCs
  <2>2. session = None \/ session # i
    BY <1>4 DEF Open, Target, Free
  <2> QED BY <1>4, <2>1, <2>2 DEF Open
<1>5. ASSUME NEW t \in Threads, Write(t) PROVE TypeOK'
  <2>1. [thr[t] EXCEPT !.pc = "rename"] \in Thread
    BY <1>2 DEF Thread, PCs
  <2>2. thr[t].what \in Sessions
    BY <1>5 DEF Write, Savers, Saving
  <2>3. content' \in [Inodes -> Sessions \cup {Empty, Torn}]
    BY <1>5, <2>2 DEF Write
  <2> QED BY <1>5, <2>1, <2>3 DEF Write
<1>6. ASSUME NEW t \in Threads, Rename(t) \/ SaveFails(t) PROVE TypeOK'
  BY <1>1, <1>6 DEF Rename, SaveFails, Ends
<1>7. ASSUME NEW t \in Threads, Loaded(t) \/ Clear(t) PROVE TypeOK'
  BY <1>1, <1>7 DEF Loaded, Clear
<1>8. ASSUME NEW t \in Threads, Load(t) PROVE TypeOK'
  <2>1. [thr[t] EXCEPT !.pc = "loaded", !.what = File] \in Thread
    BY <1>2 DEF Thread, PCs, File
  <2> QED BY <1>8, <2>1 DEF Load, File
<1>9. ASSUME Restart \/ UNCHANGED vars PROVE TypeOK'
  BY <1>1, <1>9 DEF Restart, vars
<1> QED BY <1>3, <1>4, <1>5, <1>6, <1>7, <1>8, <1>9 DEF Next

(* Which goroutines are saving after a step, and what.                     *)
LEMMA StepSaving ==
    ASSUME TypeOK, [Next]_vars
    PROVE  \A t \in Threads :
             Saving(t)' => \/ Saving(t) /\ thr'[t].what = thr[t].what
                           \/ \E s \in Sessions : Save(t, s) /\ thr'[t].what = s
<1> SUFFICES ASSUME NEW u \in Threads, Saving(u)'
             PROVE  \/ Saving(u) /\ thr'[u].what = thr[u].what
                    \/ \E s \in Sessions : Save(u, s) /\ thr'[u].what = s
  OBVIOUS
<1> USE DEF TypeOK
<1>1. \A t \in Threads : thr[t] \in Thread
  OBVIOUS
<1>2. ASSUME NEW t \in Threads, NEW s \in Sessions, Save(t, s)
      PROVE  (Saving(u) /\ thr'[u].what = thr[u].what) \/ (u = t /\ thr'[u].what = s)
  BY <1>2 DEF Save, Saving
<1>3. ASSUME NEW t \in Threads, NEW i \in Inodes, Open(t, i)
      PROVE  Saving(u) /\ thr'[u].what = thr[u].what
  BY <1>1, <1>3 DEF Open, Saving, Thread
<1>4. ASSUME NEW t \in Threads, Rename(t) \/ SaveFails(t)
      PROVE  Saving(u) /\ thr'[u].what = thr[u].what
  BY <1>4 DEF Rename, SaveFails, Ends, Saving, Idle
<1>5. ASSUME NEW t \in Threads, Load(t) \/ Loaded(t) \/ Clear(t)
      PROVE  Saving(u) /\ thr'[u].what = thr[u].what
  BY <1>1, <1>5 DEF Load, Loaded, Clear, Saving, Idle, Thread
<1>6. ASSUME Restart \/ UNCHANGED vars
      PROVE  Saving(u) /\ thr'[u].what = thr[u].what
  BY <1>6 DEF Restart, vars, Saving, Idle
<1>7. ASSUME NEW t \in Threads, Write(t) PROVE Saving(u) /\ thr'[u].what = thr[u].what
  BY <1>1, <1>7 DEF Write, Saving, Thread
<1> QED BY <1>2, <1>3, <1>4, <1>5, <1>6, <1>7 DEF Next

(* Overlapping Saves are over as soon as none is under way.                *)
LEMMA StepSavers ==
    ASSUME IInv, [Next]_vars
    PROVE  Savers'
<1> USE DEF IInv
<1>1. \A t \in Threads : Saving(t)' => thr'[t].what \in Sessions
  BY StepSaving DEF Savers
<1>2. ASSUME overlapped' PROVE \E t \in Threads : Saving(t)'
  <2>1. ASSUME NEW t \in Threads, NEW s \in Sessions, Save(t, s) PROVE Saving(t)'
    BY <2>1 DEF Save, Saving, TypeOK
  <2>2. ASSUME NEW t \in Threads, NEW i \in Inodes, Open(t, i) PROVE Saving(t)'
    BY <2>2 DEF Open, Saving, TypeOK, Thread
  <2>3. ASSUME NEW t \in Threads, Write(t) PROVE Saving(t)'
    BY <2>3 DEF Write, Saving, TypeOK, Thread
  <2>4. ASSUME NEW t \in Threads, Rename(t) \/ SaveFails(t) PROVE \E u \in Threads : Saving(u)'
    <3>1. PICK u \in Threads \ {t} : Saving(u)
      BY <1>2, <2>4 DEF Rename, SaveFails, Ends
    <3>2. thr'[u] = thr[u]
      BY <2>4, <3>1 DEF Rename, SaveFails, Ends, TypeOK
    <3> QED BY <3>1, <3>2 DEF Saving
  <2>5. ASSUME NEW t \in Threads, Load(t) \/ Loaded(t) \/ Clear(t)
        PROVE  \E u \in Threads : Saving(u)'
    <3>1. PICK u \in Threads : Saving(u)
      BY <1>2, <2>5 DEF Load, Loaded, Clear, Savers
    <3>2. thr'[u] = thr[u]
      BY <2>5, <3>1 DEF Load, Loaded, Clear, Saving, Idle, TypeOK
    <3> QED BY <3>1, <3>2 DEF Saving
  <2>6. ~Restart
    BY <1>2 DEF Restart
  <2>7. CASE UNCHANGED vars
    BY <1>2, <2>7 DEF vars, Savers, Saving
  <2> QED BY <2>1, <2>2, <2>3, <2>4, <2>5, <2>6, <2>7 DEF Next
<1> QED BY <1>1, <1>2 DEF Savers

(* The temporary file is the lone Save's.                                  *)
LEMMA StepLone ==
    ASSUME IInv, [Next]_vars, ~overlapped'
    PROVE  Lone'
<1> USE StoreAssumption DEF IInv, Holds
<1>1. \A t \in Threads : thr[t] \in Thread
  BY DEF TypeOK
<1>2. CASE \A t \in Threads : ~Saving(t)'
  BY <1>2 DEF Lone, Alone, Saving
<1>3. ASSUME NEW t \in Threads, NEW s \in Sessions, Save(t, s) PROVE Lone'
  <2>1. \A u \in Threads : ~Saving(u)
    BY <1>3 DEF Save
  <2>2. thr'[t].pc = "open" /\ \A u \in Threads : u # t => thr'[u] = thr[u]
    BY <1>3 DEF Save, TypeOK
  <2> QED BY <2>1, <2>2 DEF Lone, Alone, Saving
<1>4. ASSUME NEW t \in Threads, Saving(t), Lone, NEW u \in Threads, u # t
      PROVE  thr[u].pc \notin {"open", "write", "rename"}
  BY <1>4 DEF Lone, Alone, Saving
<1>5. ASSUME NEW t \in Threads, NEW i \in Inodes, Open(t, i) PROVE Lone'
  <2>1. Saving(t) /\ Lone
    BY <1>5 DEF Open, Saving
  <2>2. thr'[t] = [thr[t] EXCEPT !.pc = "write", !.inode = i] /\ tmp' = i /\ i # None
    BY <1>5 DEF Open, TypeOK
  <2>3. thr'[t].pc = "write" /\ thr'[t].inode = i /\ content'[i] = Empty
    BY <1>1, <1>5, <2>2 DEF Open, TypeOK, Thread
  <2>4. \A u \in Threads : u # t => thr'[u].pc \notin {"open", "write", "rename"}
    BY <1>4, <1>5, <2>1 DEF Open, TypeOK
  <2> QED BY <2>2, <2>3, <2>4 DEF Lone, Alone, Saving
<1>6. ASSUME NEW t \in Threads, Write(t) PROVE Lone'
  <2>1. Saving(t) /\ Lone
    BY <1>6 DEF Write, Saving
  <2>2. thr[t].inode = tmp /\ tmp \in Inodes /\ tmp # None /\ content[tmp] = Empty
    BY <1>6, <2>1 DEF Write, Lone, TypeOK
  <2>3. content' = [content EXCEPT ![tmp] = thr[t].what]
    BY <1>6, <2>2 DEF Write
  <2>4. thr'[t] = [thr[t] EXCEPT !.pc = "rename"] /\ tmp' = tmp
    BY <1>6 DEF Write, TypeOK
  <2>5. /\ thr'[t].pc = "rename" /\ thr'[t].what = thr[t].what /\ thr'[t].inode = tmp
        /\ content'[tmp] = thr[t].what
    BY <1>1, <2>2, <2>3, <2>4 DEF TypeOK, Thread
  <2>6. \A u \in Threads : u # t => thr'[u].pc \notin {"open", "write", "rename"}
    BY <1>4, <1>6, <2>1 DEF Write, TypeOK
  <2> QED BY <2>2, <2>4, <2>5, <2>6 DEF Lone, Alone, Saving
<1>7. ASSUME NEW t \in Threads, Rename(t) \/ SaveFails(t) PROVE \A u \in Threads : ~Saving(u)'
  <2>1. Saving(t) /\ thr' = [thr EXCEPT ![t] = Idle]
    BY <1>7 DEF Rename, SaveFails, Ends, Saving
  <2>2. CASE overlapped
    <3>1. \A u \in Threads \ {t} : ~Saving(u)
      BY <1>7, <2>2 DEF Rename, SaveFails, Ends, TypeOK
    <3> QED BY <2>1, <3>1 DEF Saving, Idle, TypeOK
  <2>3. CASE ~overlapped
    BY <1>4, <2>1, <2>3 DEF Saving, Idle, TypeOK
  <2> QED BY <2>2, <2>3 DEF TypeOK
<1>8. ASSUME NEW t \in Threads, Load(t) \/ Loaded(t) \/ Clear(t) PROVE Lone'
  <2>1. Lone /\ UNCHANGED <<tmp, content>>
    BY <1>8 DEF Load, Loaded, Clear
  <2>2. \A u \in Threads : thr'[u] = thr[u] \/ thr'[u].pc \in {"idle", "loaded"}
    BY <1>1, <1>8 DEF Load, Loaded, Clear, TypeOK, Idle, Thread
  <2> QED BY <2>1, <2>2 DEF Lone, Alone, Saving
<1>9. CASE Restart
  <2>1. \A u \in Threads : ~Saving(u)'
    BY <1>9 DEF Restart, Saving, Idle
  <2> QED BY <1>2, <2>1
<1>10. CASE UNCHANGED vars
  BY <1>10 DEF vars, Lone, Alone, Saving
<1> QED BY <1>2, <1>3, <1>5, <1>6, <1>7, <1>8, <1>9, <1>10 DEF Next

LEMMA Invariant == Spec => []IInv
<1>1. IInv /\ [Next]_vars => IInv'
  BY StepTypeOK, StepSavers, StepLone DEF IInv
<1> QED BY InitIInv, <1>1, PTL DEF Spec

-----------------------------------------------------------------------------
(* The refinement.                                                         *)

(* The saves of the abstract state.                                        *)
LEMMA GivenIs ==
    ASSUME NEW t \in Threads
    PROVE  /\ Saving(t) => Given[t] = {thr[t].what}
           /\ Given[t] = {} <=> ~Saving(t)
BY DEF Given

LEMMA SaveImplements ==
    ASSUME IInv, NEW t \in Threads, NEW s \in Sessions, Save(t, s)
    PROVE  Store!Save(t, s)
<1> USE DEF IInv, TypeOK
<1>1. Given[t] = {}
  BY DEF Save, Given, Saving, Idle
<1>2. Given' = [Given EXCEPT ![t] = {s}]
  BY DEF Save, Given, Saving
<1>3. UNCHANGED <<File, Finds>>
  BY DEF Save, File, Finds, Idle
<1>4. overlapped' = \E u \in Threads : Given[u] # {}
  BY GivenIs DEF Save
<1> QED BY <1>1, <1>2, <1>3, <1>4 DEF Store!Save

LEMMA OpenImplements ==
    ASSUME IInv, NEW t \in Threads, NEW i \in Inodes, Open(t, i)
    PROVE  UNCHANGED <<File, Given, Finds, overlapped>>
<1> USE DEF IInv, TypeOK
<1>1. \A u \in Threads : thr[u] \in Thread
  OBVIOUS
<1>2. session # None => i # session
  BY DEF Open, Target, Free
<1>3. Given' = Given
  BY <1>1 DEF Open, Given, Saving, Thread
<1> QED BY <1>2, <1>3 DEF Open, File, Finds

LEMMA WriteImplements ==
    ASSUME IInv, NEW t \in Threads, Write(t)
    PROVE  UNCHANGED <<File, Given, Finds, overlapped>> \/ Store!Overlap
<1> USE DEF IInv, TypeOK
<1>1. \A u \in Threads : thr[u] \in Thread
  OBVIOUS
<1>2. UNCHANGED <<Given, Finds, overlapped>>
  BY <1>1 DEF Write, Given, Finds, Saving, Thread
<1>3. CASE ~overlapped
  <2>1. thr[t].inode = tmp /\ tmp # None
    BY <1>3 DEF Write, Lone, Holds
  <2>2. session # None => content'[session] = content[session]
    BY <2>1 DEF Write
  <2> QED BY <1>2, <2>2 DEF Write, File
<1>4. CASE overlapped
  <2>1. thr[t].what \in Sessions
    BY DEF Write, Savers, Saving
  <2>2. CASE session = None \/ session # thr[t].inode
    <3>1. File' = File
      BY <2>2 DEF Write, File
    <3> QED BY <1>2, <3>1
  <2>3. CASE session # None /\ session = thr[t].inode
    <3>1. content'[session] \in Sessions \cup {Empty, Torn}
      BY <2>1, <2>3 DEF Write
    <3>2. File' \in Sessions \cup {Empty, Torn}
      BY <2>3, <3>1 DEF Write, File
    <3> QED BY <1>2, <1>4, <3>2 DEF Store!Overlap
  <2> QED BY <2>2, <2>3
<1> QED BY <1>3, <1>4

LEMMA EndImplements ==
    ASSUME IInv, NEW t \in Threads, Rename(t) \/ SaveFails(t)
    PROVE  Store!Saved(t)
<1> USE DEF IInv, TypeOK
<1>1. Saving(t) /\ Ends(t)
  BY DEF Rename, SaveFails, Saving
<1>2. Given[t] # {} /\ Given' = [Given EXCEPT ![t] = {}]
  BY <1>1 DEF Ends, Given, Saving, Idle
<1>3. Finds' = Finds
  BY <1>1 DEF Ends, Finds, Saving, Idle
<1>4. overlapped' = (overlapped /\ \E u \in Threads \ {t} : Given[u] # {})
  BY <1>1, GivenIs DEF Ends
<1>5. File' \in {File} \cup Given[t] \cup (IF overlapped THEN Sessions \cup {Empty, Torn} ELSE {})
  <2>1. CASE SaveFails(t) \/ tmp = None
    <3>1. File' = File
      BY <2>1 DEF SaveFails, Rename, File
    <3> QED BY <3>1
  <2>2. CASE Rename(t) /\ tmp # None
    <3>1. File' = content[tmp]
      BY <2>2 DEF Rename, File
    <3>2. ~overlapped => content[tmp] \in Given[t]
      BY <1>1, <2>2, GivenIs DEF Rename, Lone, Holds
    <3>3. content[tmp] \in Sessions \cup {Empty, Torn}
      BY <2>2
    <3> QED BY <3>1, <3>2, <3>3
  <2> QED BY <2>1, <2>2
<1> QED BY <1>2, <1>3, <1>4, <1>5 DEF Store!Saved

LEMMA StepImplements ==
    ASSUME IInv, [Next]_vars
    PROVE  [Store!Next]_(Store!vars)
<1> USE DEF IInv, Store!Next, Store!vars
<1>1. ASSUME NEW t \in Threads, Load(t) PROVE Store!Load(t)
  <2>1. thr'[t].pc = "loaded" /\ thr'[t].what = File
    BY <1>1 DEF Load, File, TypeOK, Thread
  <2>2. Finds' = [Finds EXCEPT ![t] = {File}]
    BY <1>1, <2>1 DEF Load, Finds, TypeOK
  <2>3. Given' = Given
    BY <1>1, <2>1 DEF Load, Given, Saving, Idle, TypeOK
  <2> QED BY <1>1, <2>2, <2>3 DEF Load, File, Store!Load
<1>2. ASSUME NEW t \in Threads, Loaded(t) PROVE Store!Loaded(t)
  <2>1. Finds' = [Finds EXCEPT ![t] = {}] /\ Given' = Given
    BY <1>2 DEF Loaded, Finds, Given, Saving, TypeOK, Idle
  <2> QED BY <1>2, <2>1 DEF Loaded, File, Store!Loaded
<1>3. ASSUME NEW t \in Threads, Clear(t) PROVE Store!Clear
  BY <1>3 DEF Clear, File, Finds, Given, Saving, Store!Clear
<1>4. ASSUME Restart PROVE Store!Restart
  BY <1>4 DEF Restart, File, Finds, Given, Saving, Idle, Store!Restart, Store!Nobody
<1>5. ASSUME UNCHANGED vars PROVE UNCHANGED <<File, Given, Finds, overlapped>>
  BY <1>5 DEF vars, File, Given, Finds, Saving
<1> QED BY SaveImplements, OpenImplements, WriteImplements, EndImplements,
           <1>1, <1>2, <1>3, <1>4, <1>5 DEF Next

(* Every variable keeps its type, and session.json is never the temporary  *)
(* file, however Saves overlap.                                            *)
THEOREM TypeCorrect == Spec => []TypeOK
<1>1. IInv => TypeOK
  BY DEF IInv
<1> QED BY Invariant, <1>1, PTL

(* Every step of the store is one of the session file's, or none: a Save   *)
(* that overlaps no other replaces it whole by what it was given, and it is*)
(* loaded whole; only while Saves overlap may it become anything else.     *)
THEOREM SaveIsAtomicCorrect == Spec => SaveIsAtomic
<1>1. Init => Store!Init
  BY DEF Init, File, Finds, Given, Saving, Idle, Store!Init, Store!Nobody
<1>2. IInv /\ [Next]_vars => [Store!Next]_(Store!vars)
  BY StepImplements
<1> QED BY Invariant, <1>1, <1>2, PTL DEF Spec, SaveIsAtomic, Store!Spec

=============================================================================
