---------------------------- MODULE SessionFile -----------------------------
(***************************************************************************)
(* What pkg/tokenstore promises: one session, replaced or removed whole,   *)
(* and found whole, or not at all, by whoever loads it meanwhile -- until  *)
(* two Saves overlap.  Then it may be anything until they are all over, and*)
(* stay so; the next Save that is alone replaces it whole again.           *)
(***************************************************************************)
CONSTANTS
    Sessions,  \* what can be saved
    Garbage,   \* what cannot be read as a session
    None,      \* no session
    Threads    \* who saves, loads and clears it

VARIABLES
    file,       \* the session
    saves,      \* what each Save that is under way was given
    loads,      \* what each Load that is under way has found
    overlapped  \* of the Saves under way, some have overlapped

vars == <<file, saves, loads, overlapped>>

Nobody == [t \in Threads |-> {}]

Init == file = None /\ saves = Nobody /\ loads = Nobody /\ overlapped = FALSE

Save(t, s) ==
    /\ saves[t] = {} /\ saves' = [saves EXCEPT ![t] = {s}]
    /\ overlapped' = \E u \in Threads : saves[u] # {}
    /\ UNCHANGED <<file, loads>>

\* It has saved what it was given, or failed.
Saved(t) ==
    /\ saves[t] # {} /\ saves' = [saves EXCEPT ![t] = {}]
    /\ file' \in {file} \cup saves[t] \cup (IF overlapped THEN Sessions \cup Garbage ELSE {})
    /\ overlapped' = (overlapped /\ \E u \in Threads \ {t} : saves[u] # {})
    /\ UNCHANGED loads

Overlap ==
    /\ overlapped
    /\ file' \in Sessions \cup Garbage
    /\ UNCHANGED <<saves, loads, overlapped>>

Clear == file' = None /\ UNCHANGED <<saves, loads, overlapped>>

Load(t) == loads' = [loads EXCEPT ![t] = {file}] /\ UNCHANGED <<file, saves, overlapped>>

Loaded(t) == loads' = [loads EXCEPT ![t] = {}] /\ UNCHANGED <<file, saves, overlapped>>

Restart == saves' = Nobody /\ loads' = Nobody /\ overlapped' = FALSE /\ UNCHANGED file

Next ==
    \/ \E t \in Threads : Saved(t) \/ Load(t) \/ Loaded(t) \/ \E s \in Sessions : Save(t, s)
    \/ Overlap \/ Clear \/ Restart

Spec == Init /\ [][Next]_vars
=============================================================================
