--------------------------- MODULE MCHelperAccess ---------------------------
(***************************************************************************)
(* HelperAccess for TLC: every list of at most two entries on helper.json, *)
(* the directories that an installer or an earlier helper leaves, and the  *)
(* files a person puts in helper.json's place: his own, one of root's that *)
(* everybody may write, and a link to one.                                 *)
(***************************************************************************)
EXTENDS HelperAccess

Entries == {a \in Entry : /\ ~a.heirs /\ a.rights \in {{"read"}, Full} /\ a.type # "deny2"
                          /\ a.sid \in {"system", "group", "users"}}

ACLs == {<<>>} \cup {<<a>> : a \in Entries} \cup {<<a, b>> : a, b \in Entries}

MCConfFound == {[Own(acl) EXCEPT !.owner = sid] : acl \in ACLs, sid \in {"system", "users"}}
                 \cup {[Own(<<>>) EXCEPT !.nil = TRUE], [Own(<<>>) EXCEPT !.reparse = TRUE]}

MCConfPut == {Own(<<>>), [Own(<<>>) EXCEPT !.owner = "users"], [Own(<<>>) EXCEPT !.reparse = TRUE],
              Own(<<Allow("users", Full, FALSE)>>),
              [Own(<<Allow("users", Full, FALSE)>>) EXCEPT !.reparse = TRUE]}

ForAll == <<Allow("system", Full, TRUE), Allow("users", Full, TRUE)>>

ModeForAll == <<Allow("users", Full, FALSE)>>

MCDirFound ==
    LET d == {Own(<<>>), Own(ModeForAll), Own(ForAll)} IN
    d \cup {[x EXCEPT !.sticky = TRUE] : x \in d} \cup {[x EXCEPT !.owner = "users"] : x \in d}
      \cup {[x EXCEPT !.reparse = TRUE] : x \in d} \cup {[x EXCEPT !.nil = TRUE] : x \in d}

MCEtcFound == {Own(<<>>), Own(ModeForAll), [Own(ModeForAll) EXCEPT !.sticky = TRUE]}
=============================================================================
