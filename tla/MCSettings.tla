----------------------------- MODULE MCSettings -----------------------------
(***************************************************************************)
(* Settings for TLC: two servers, two sockets, two updates at a time.      *)
(***************************************************************************)
EXTENDS Settings, TLC

Home == [host |-> "home", slash |-> FALSE]
Work == [host |-> "work", slash |-> FALSE]

\* By the default provider and socket, and with a slash helper.json has not.
AtHome == [Blank EXCEPT !.server = [Home EXCEPT !.slash = TRUE], !.github = "id"]

AtWork == [Blank EXCEPT !.server = Work, !.provider = "oidc", !.issuer = "iss", !.client = "id",
                        !.socket = "other"]

MCStrings == {"", "home", "work", "other", "default", "github", "oidc", "id", "iss", "env"}

MCInputs == {AtHome, AtWork}

MCFound == {None, Unreadable, Garbled, AtHome, [AtWork EXCEPT !.client = ""]}

MCEnvs == {Blank, [Blank EXCEPT !.client = "env", !.socket = "other"]}

MCHelperConfigs ==
    {[servers |-> <<Home>>, socket |-> ""], [servers |-> <<Work, Home>>, socket |-> "other"],
     [servers |-> <<>>, socket |-> ""]}

Symmetry == Permutations(Updaters)
=============================================================================
