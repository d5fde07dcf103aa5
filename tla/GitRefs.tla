------------------------------ MODULE GitRefs ------------------------------
(***************************************************************************)
(* What the ref commands of CliGitBackend (crates/git/src/lib.rs) do to    *)
(* one repository and to the servers of its remotes.                       *)
(*                                                                         *)
(* A ref is the set of commits it reaches: the empty set is a ref that     *)
(* does not exist, "\subseteq" is "is an ancestor of", and a branch that   *)
(* moves from T to T' is fast-forwarded iff T \subseteq T'.                *)
(*                                                                         *)
(* A state s is a record                                                   *)
(*   head     the branch that is checked out                               *)
(*   local    refs/heads                                                   *)
(*   tracking refs/remotes/<remote>/<branch>                               *)
(*   upstream what branch.<b>.remote and branch.<b>.merge say, or None     *)
(*   url      the address of each remote, None when there is no such remote*)
(*   server   the branches found behind each address                       *)
(*                                                                         *)
(* An operator of a command gives the set of states the command can leave: *)
(* no state when git refuses, and then the command has changed nothing.    *)
(***************************************************************************)
EXTENDS Naturals, Sequences, FiniteSets, SequencesExt

CONSTANTS
    Branches,       \* branch names
    MainBranches,   \* those of DEFAULT_MAIN_BRANCH_NAMES
    RemoteOrder,    \* the remote names, in the order "git remote" lists them
    Origin,         \* the name "origin"
    Urls,           \* addresses a remote may have
    MaxCommit,      \* bound: commits that are ever made
    None

Remotes == ToSet(RemoteOrder)
Commits == 1..MaxCommit
Tips == SUBSET Commits

ASSUME RefsAssumption ==
    /\ MainBranches \subseteq Branches
    /\ RemoteOrder \in Seq(Remotes)
    /\ Origin \in Remotes
    /\ None \notin Urls /\ None \notin [r : Remotes, b : Branches]
    /\ MaxCommit \in Nat

RemoteBranches == [r : Remotes, b : Branches]

Refs == [head : Branches,
         local : [Branches -> Tips],
         tracking : [Remotes -> [Branches -> Tips]],
         upstream : [Branches -> RemoteBranches \union {None}],
         url : [Remotes -> Urls \union {None}],
         server : [Urls -> [Branches -> Tips]]]

(***************************************************************************)
(* What git finds when it resolves a name.                                 *)
(***************************************************************************)
Exists(s, b) == s.local[b] # {}

Known(s, r) == s.url[r] # None

OnServer(s, r) == s.server[s.url[r]]

\* <b>@{upstream}: it resolves only while the tracking ref is there.
UpstreamTip(s, b) ==
    IF s.upstream[b] = None THEN {} ELSE s.tracking[s.upstream[b].r][s.upstream[b].b]

HasUpstream(s, b) == UpstreamTip(s, b) # {}

\* Where "git remote" lists the remotes there are.
Listed(s) == {i \in DOMAIN RemoteOrder : Known(s, RemoteOrder[i])}

DefaultRemote(s) ==
    IF Listed(s) = {} THEN None
    ELSE RemoteOrder[CHOOSE i \in Listed(s) : \A j \in Listed(s) : i <= j]

AllCommits(s) ==
    UNION ({s.local[b] : b \in Branches}
           \union {s.tracking[r][b] : r \in Remotes, b \in Branches}
           \union {s.server[u][b] : u \in Urls, b \in Branches})

Unused(s) == Commits \ AllCommits(s)

\* The next commit made: there is none once MaxCommit have been.
Fresh(s) == {c \in Unused(s) : \A d \in Unused(s) : c <= d}

(***************************************************************************)
(* Remotes.                                                                *)
(***************************************************************************)
AddRemote(s, c) ==
    IF Known(s, c.r) THEN {} ELSE {[s EXCEPT !.url[c.r] = c.u]}

RemoveRemote(s, c) ==
    IF ~Known(s, c.r) THEN {}
    ELSE {[s EXCEPT !.url[c.r] = None,
                    !.tracking[c.r] = [b \in Branches |-> {}],
                    !.upstream = [b \in Branches |->
                        IF @[b] # None /\ @[b].r = c.r THEN None ELSE @[b]]]}

\* The first git process of EditRemote: with the same name there is none.
RenameRemote(s, c) ==
    IF c.r = c.n THEN {s}
    ELSE IF ~Known(s, c.r) \/ Known(s, c.n) THEN {}
    ELSE {[s EXCEPT !.url[c.n] = s.url[c.r],
                    !.url[c.r] = None,
                    !.tracking[c.n] = s.tracking[c.r],
                    !.tracking[c.r] = [b \in Branches |-> {}],
                    !.upstream = [b \in Branches |->
                        IF @[b] # None /\ @[b].r = c.r THEN [@[b] EXCEPT !.r = c.n] ELSE @[b]]]}

\* The second one.
SetUrl(s, c) ==
    IF Known(s, c.n) THEN {[s EXCEPT !.url[c.n] = c.u]} ELSE {}

\* "git fetch" without --prune, by the refspec "+refs/heads/*:..." of a remote.
Fetch(s, r) ==
    IF ~Known(s, r) THEN {}
    ELSE {[s EXCEPT !.tracking[r] = [b \in Branches |->
            IF OnServer(s, r)[b] = {} THEN @[b] ELSE OnServer(s, r)[b]]]}

(***************************************************************************)
(* Branches.                                                               *)
(***************************************************************************)
CheckoutBranch(s, c) == IF Exists(s, c.b) THEN {[s EXCEPT !.head = c.b]} ELSE {}

CreateBranch(s, c) ==
    IF Exists(s, c.b) THEN {}
    ELSE {[s EXCEPT !.local[c.b] = s.local[s.head], !.head = c.b]}

\* "git branch --track|--no-track <b> <remote branch>": head stays where it is.
CreateBranchFromRef(s, c) ==
    LET start == s.tracking[c.from.r][c.from.b]
    IN  IF Exists(s, c.b) \/ start = {} THEN {}
        ELSE {[s EXCEPT !.local[c.b] = start,
                        !.upstream[c.b] = IF c.track THEN c.from ELSE @]}

CheckoutRemoteBranch(s, c) ==
    IF Exists(s, c.from.b)
    THEN CheckoutBranch(s, [b |-> c.from.b])
    ELSE {[t EXCEPT !.head = c.from.b] :
            t \in CreateBranchFromRef(s, [b |-> c.from.b, from |-> c.from, track |-> TRUE])}

RenameBranch(s, c) ==
    IF ~Exists(s, c.b) \/ Exists(s, c.n) THEN {}
    ELSE {[s EXCEPT !.local[c.n] = s.local[c.b],
                    !.local[c.b] = {},
                    !.upstream[c.n] = s.upstream[c.b],
                    !.upstream[c.b] = None,
                    !.head = IF @ = c.b THEN c.n ELSE @]}

\* "git branch -D": the branch that is checked out cannot be deleted.
DeleteBranch(s, c) ==
    IF ~Exists(s, c.b) \/ s.head = c.b THEN {}
    ELSE {[s EXCEPT !.local[c.b] = {}, !.upstream[c.b] = None]}

SetBranchUpstream(s, c) ==
    IF ~Exists(s, c.b) \/ s.tracking[c.from.r][c.from.b] = {} THEN {}
    ELSE {[s EXCEPT !.upstream[c.b] = c.from]}

UnsetBranchUpstream(s, c) ==
    IF s.upstream[c.b] = None THEN {} ELSE {[s EXCEPT !.upstream[c.b] = None]}

\* "git merge --ff-only <from>" into whatever branch is checked out.
FastForward(s, c) ==
    LET target == s.tracking[c.from.r][c.from.b]
        here == s.local[s.head]
    IN  IF target = {} \/ ~(here \subseteq target \/ target \subseteq here) THEN {}
        ELSE {[s EXCEPT !.local[s.head] = here \union target]}

\* "git merge <b>": a merge commit when the histories have diverged.
MergeRefIntoCurrent(s, c) ==
    LET target == s.local[c.b]
        here == s.local[s.head]
        both == here \union target
    IN  IF target = {} THEN {}
        ELSE IF both \in {here, target} THEN {[s EXCEPT !.local[s.head] = both]}
        ELSE {[s EXCEPT !.local[s.head] = both \union {new}] : new \in Fresh(s)}

(***************************************************************************)
(* Commands that talk to a server.                                         *)
(***************************************************************************)

\* The end of "git pull --ff-only": what the current branch followed when the
\* fetch began is merged into the branch that is current now.
MergePulled(s, plan) == UNION {FastForward(s, [from |-> rb]) : rb \in plan}

\* What run_push asks git to push the current branch to.
PushTarget(s) ==
    IF HasUpstream(s, s.head)
    THEN s.upstream[s.head]
    ELSE [r |-> IF DefaultRemote(s) = None THEN Origin ELSE DefaultRemote(s), b |-> s.head]

\* Mutant: "git push --force".
PushCurrentBranchForced(s, c) ==
    LET to == PushTarget(s)
        mine == s.local[s.head]
    IN  IF ~Known(s, to.r) \/ to.b # s.head THEN {}
        ELSE {[s EXCEPT !.server[s.url[to.r]][to.b] = mine,
                        !.tracking[to.r][to.b] = mine,
                        !.upstream[s.head] = to]}

\* A server takes only fast-forwards, and push.default=simple only the
\* upstream of the same name.
PushCurrentBranch(s, c) ==
    LET to == PushTarget(s)
        mine == s.local[s.head]
    IN  IF ~Known(s, to.r) \/ to.b # s.head \/ ~(OnServer(s, to.r)[to.b] \subseteq mine) THEN {}
        ELSE {[s EXCEPT !.server[s.url[to.r]][to.b] = mine,
                        !.tracking[to.r][to.b] = mine,
                        !.upstream[s.head] = to]}

DeleteRemoteBranch(s, c) ==
    IF ~Known(s, c.from.r) \/ OnServer(s, c.from.r)[c.from.b] = {} THEN {}
    ELSE {[s EXCEPT !.server[s.url[c.from.r]][c.from.b] = {},
                    !.tracking[c.from.r][c.from.b] = {}]}

(***************************************************************************)
(* is_branch_merged: no commit of the branch is missing from HEAD, from its*)
(* upstream and from the main branches, which are looked for as m@{u},     *)
(* origin/m and m.                                                         *)
(***************************************************************************)
MainRef(s, m) ==
    IF HasUpstream(s, m) THEN UpstreamTip(s, m)
    ELSE IF s.tracking[Origin][m] # {} THEN s.tracking[Origin][m]
    ELSE s.local[m]

IsMerged(s, b) ==
    s.local[b] \subseteq
        s.local[s.head] \union UpstreamTip(s, b) \union UNION {MainRef(s, m) : m \in MainBranches}

(***************************************************************************)
(* auto_forward_default_branches, which ends every fetch, in two parts. The*)
(* branches that are to be moved are chosen, each with the commit it was   *)
(* found at ...                                                            *)
(***************************************************************************)
\* Mutant: the branch that is checked out is not left out.
AutoForwardsHeadToo(s) ==
    {[b |-> b, old |-> s.local[b], to |-> s.upstream[b]] :
        b \in {m \in MainBranches :
                 /\ HasUpstream(s, m)
                 /\ Exists(s, m)
                 /\ s.local[m] \subseteq UpstreamTip(s, m)
                 /\ s.local[m] # UpstreamTip(s, m)}}

AutoForwards(s) ==
    {[b |-> b, old |-> s.local[b], to |-> s.upstream[b]] :
        b \in {m \in MainBranches \ {s.head} :
                 /\ HasUpstream(s, m)
                 /\ Exists(s, m)
                 /\ s.local[m] \subseteq UpstreamTip(s, m)
                 /\ s.local[m] # UpstreamTip(s, m)}}

\* ... and "git update-ref --stdin" moves them all, or none when one of them
\* is no longer at that commit.
UpdateBranchRefs(s, plan) ==
    IF \E p \in plan : s.local[p.b] # p.old \/ s.tracking[p.to.r][p.to.b] = {} THEN {}
    ELSE {[s EXCEPT !.local = [b \in Branches |->
            IF \E p \in plan : p.b = b
            THEN LET p == CHOOSE q \in plan : q.b = b IN s.tracking[p.to.r][p.to.b]
            ELSE @[b]]]}
=============================================================================
