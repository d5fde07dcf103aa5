---------------------------- MODULE MCRemoteFlow ----------------------------
(***************************************************************************)
(* RemoteFlow on two branches, two remote names and two servers.           *)
(***************************************************************************)
EXTENDS RemoteFlow, TLC

CONSTANTS main, dev, origin, fork, home, theirs

MCBranches == {main, dev}
MCMain == {main}
MCOrder == <<fork, origin>>
MCUrls == {home, theirs}
NoUrls == {}
Theirs == {theirs}

OnMain(t) == main :> t @@ dev :> {}
Both(t, u) == main :> t @@ dev :> u

Servers0 == home :> Both({1}, {1, 2}) @@ theirs :> OnMain({1})

\* Cloned, nothing fetched since; on main, or on dev with a commit of its own.
Cloned(at) ==
    [head |-> at,
     local |-> Both({1}, IF at = dev THEN {1, 3} ELSE {}),
     tracking |-> origin :> OnMain({1}) @@ fork :> OnMain({}),
     upstream |-> main :> [r |-> origin, b |-> main] @@ dev :> None,
     url |-> origin :> home @@ fork :> None,
     server |-> Servers0]

\* Made here, without a remote; main and dev have parted.
Made ==
    [head |-> dev,
     local |-> Both({1, 3}, {1}),
     tracking |-> origin :> OnMain({}) @@ fork :> OnMain({}),
     upstream |-> main :> None @@ dev :> None,
     url |-> origin :> None @@ fork :> None,
     server |-> Servers0]

\* dev was pushed to origin, there is a fork too.
Shared ==
    [Cloned(dev) EXCEPT !.local[dev] = {1, 2}, !.tracking[origin][dev] = {1, 2},
                        !.upstream[dev] = [r |-> origin, b |-> dev],
                        !.url[fork] = theirs]

AllRepos == {Cloned(dev), Made, Shared}
=============================================================================
