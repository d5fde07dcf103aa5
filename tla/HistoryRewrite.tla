--------------------------- MODULE HistoryRewrite ---------------------------
(***************************************************************************)
(* Rewriting the history of the branch that is checked out, and checking   *)
(* out another: the commits and branches the user sees and what the        *)
(* reducer lets be done with each of them (core/src/reducer.rs), the git   *)
(* processes of the command, a rebase that stops half way and is           *)
(* continued, skipped or aborted, a bisect, and other programs in the same *)
(* working copy.                                                           *)
(*                                                                         *)
(* Requests are heard when no command runs and its detail has been loaded. *)
(***************************************************************************)
EXTENDS GitHistory

CONSTANTS
    InitialRepos,   \* the repositories the program may be opened on
    Views,          \* which histories the user looks at
    Commands,       \* the commands the user may ask for
    OutsideActs,    \* what others may do
    Loosely,        \* the edits others make
    MaxInputs,      \* bound: requests of the user
    MaxOutside,     \* bound: acts of others
    MaxFaults,      \* bound: git processes that fail though they could succeed
    None

ASSUME ReposAssumption == InitialRepos \subseteq Repositories
ASSUME LooselyAssumption == Loosely \subseteq Edits
ASSUME BoundsAssumption == MaxInputs \in Nat /\ MaxOutside \in Nat /\ MaxFaults \in Nat
ASSUME ViewsAssumption == Views \subseteq {"head", "branch", "graph", "reverse"}

VARIABLES
    git,        \* the repository
    view,       \* which history is on the screen
    detail,     \* the detail on the screen
    copied,     \* the commits copied for a cherry-pick
    modal,      \* the command a prompt or a confirmation is open for, or None
    job,        \* the command whose git processes are running, or None
    stale,      \* a command has ended and its LoadRepoDetail is due
    inputs, outside, faults

counters == <<inputs, outside, faults>>
vars == <<git, view, detail, copied, modal, job, stale, counters>>

(***************************************************************************)
(* What the screen shows.                                                  *)
(***************************************************************************)
\* The commits down to the root, the newest first.
Log(c) == [i \in 1..Len(c) |-> SubSeq(c, 1, Len(c) + 1 - i)]

\* Those of them none of the others has.
Beyond(c, others) == SubSeq(Log(c), 1, Len(c) - Max({Parting(c, d) : d \in others}))

\* read_commits: of HEAD, of another branch, or of all, in either order.
Commits(g, v) ==
    LET all == Log(g.head) \o Beyond(g.branch["main"], {g.head})
                 \o Beyond(g.branch["side"], {g.head, g.branch["main"]})
    IN  CASE v = "head" -> Log(g.head)
          [] v = "branch" -> Log(g.branch["side"])
          [] v = "graph" -> all
          [] v = "reverse" -> Reverse(all)

Detail(g, v) ==
    [commits |-> Commits(g, v), reflog |-> g.reflog, on |-> g.on, busy |-> g.op.kind,
     bisect |-> [active |-> g.bisect.active, next |-> g.bisect.next],
     staged |-> g.index # TreeOf(g.head), clean |-> Clean(g)]

(***************************************************************************)
(* What is asked for, of a commit, a branch or nothing in particular, and  *)
(* the git processes that do it.                                           *)
(***************************************************************************)
Listed == AllCommits \ {<<>>}

Questions ==
    [op : {"Edit", "ApplyFixups", "Squash", "Drop", "Reword", "Fixup", "CreateFixup",
           "AmendAttributes", "Revert", "CherryPick", "Soft", "Mixed", "Hard", "CheckoutCommit"},
     c : Listed]
    \union [op : {"MoveUp", "MoveDown"}, c : Listed, adjacent : Listed]
    \union [op : {"Restore"}, k : Nat, shown : AllCommits]
    \union [op : {"StartBisect", "MarkBisect"}, term : {"bad", "good", "skip"}, c : Listed]
    \union [op : {"Checkout", "ForceCheckout", "RebaseOnto"}, b : Branches]
    \union [op : {"ResetBisect", "Continue", "Skip", "Abort"}]
    \union [op : {"Paste"}, commits : Seq(Listed)]

Phases == {"begin", "fixup", "autosquash", "stopAt", "amend", "continue", "bisectStart", "mark",
           "all"}

Requests == [q : Questions, before : Repositories, alone : BOOLEAN]

Jobs == [q : Questions, left : Seq(Phases), before : Repositories, alone : BOOLEAN]

ASSUME NoneAssumption == None \notin Jobs

(***************************************************************************)
(* What may be asked for by it. History: "head", "shown" are what the user *)
(* saw when asking.                                                        *)
(***************************************************************************)
Ops(d, i) ==
    (IF i = 1 THEN {} ELSE {"Edit", "ApplyFixups", "Squash", "Drop", "Reword"})
    \union (IF i > 1 /\ d.staged THEN {"Fixup"} ELSE {})
    \union (IF d.staged THEN {"CreateFixup"} ELSE {})
    \union {"AmendAttributes", "Revert", "CherryPick", "Soft", "Mixed", "Hard",
            "CheckoutCommit"}

OnCommits(d) ==
    [op : {"Edit", "ApplyFixups", "Squash", "Drop", "Reword", "Fixup", "CreateFixup",
           "AmendAttributes", "Revert", "CherryPick", "Soft", "Mixed", "Hard", "CheckoutCommit"},
     c : ToSet(d.commits)]

Selected(d) == {q \in OnCommits(d) : \E i \in DOMAIN d.commits :
                    d.commits[i] = q.c /\ q.op \in Ops(d, i)}

Moves(d) ==
    UNION {{[op |-> "MoveUp", c |-> d.commits[i], adjacent |-> d.commits[i - 1]],
            [op |-> "MoveDown", c |-> d.commits[i - 1], adjacent |-> d.commits[i]]} :
               i \in 2..Len(d.commits)}

\* Mutant: a snapshot may be restored over what is not committed.
SnapshotsAlways(d) ==
    {[op |-> "Restore", k |-> k, shown |-> d.reflog[k]] : k \in 2..Len(d.reflog)}

\* selected_reflog_restore_target: not over what is not committed.
Snapshots(d) ==
    {[op |-> "Restore", k |-> k, shown |-> d.reflog[k]] :
        k \in IF d.clean THEN 2..Len(d.reflog) ELSE {}}

\* bisect_menu_entries, pending_bisect_target: the commit that is marked is the one
\* git has asked about, and the selected one while it has asked about none.
Bisects(d) ==
    LET asked == IF d.bisect.next = <<>> THEN ToSet(d.commits) ELSE {d.bisect.next}
    IN  IF ~d.bisect.active THEN [op : {"StartBisect"}, term : {"bad", "good"}, c : ToSet(d.commits)]
        ELSE [op : {"MarkBisect"}, term : {"bad", "good", "skip"}, c : asked]
             \union {[op |-> "ResetBisect"]}

\* selected_non_head_branch_ref. A rebase in progress blocks none of them.
OnBranches(d) ==
    [op : {"Checkout"}, b : Branches]
    \union [op : {"ForceCheckout", "RebaseOnto"}, b : Branches \ {d.on}]

\* history_action_block_reason, ensure_rebase_active. What has been copied may be
\* pasted at any time.
Asked(d) ==
    UNION {IF d.busy = "none"
           THEN Selected(d) \union Moves(d) \union Snapshots(d) \union Bisects(d) ELSE {},
           OnBranches(d),
           IF d.busy = "rebase" THEN [op : {"Continue", "Skip", "Abort"}] ELSE {},
           IF copied = <<>> THEN {} ELSE {[op |-> "Paste", commits |-> copied]}}

AtOnce ==
    {"CreateFixup", "AmendAttributes", "Continue", "Checkout", "CheckoutCommit",
     "StartBisect", "MarkBisect", "ResetBisect"}

Init ==
    /\ git \in InitialRepos
    /\ view \in Views
    /\ detail = Detail(git, view)
    /\ copied = <<>> /\ modal = None /\ job = None /\ stale = FALSE
    /\ inputs = 0 /\ outside = 0 /\ faults = 0

(***************************************************************************)
(* The user.                                                               *)
(***************************************************************************)
Idle == job = None /\ ~stale

\* History: the repository when the command was asked for, whether others have
\* left it alone since, and whether a process of it has failed.
Run(q) == [q |-> q.q, left |-> <<"begin">>, before |-> q.before, alone |-> q.alone]

Request(q) == [q |-> q, before |-> git, alone |-> Detail(git, view) = detail]

\* Mutant: a confirmation may be opened while another command runs.
InputWhileBusy ==
    /\ modal = None
    /\ inputs < MaxInputs
    /\ inputs' = inputs + 1
    /\ UNCHANGED <<git, view, detail, stale, outside, faults>>

Input ==
    /\ Idle /\ modal = None
    /\ inputs < MaxInputs
    /\ inputs' = inputs + 1
    /\ UNCHANGED <<git, view, detail, stale, outside, faults>>

Ask ==
    /\ Input
    /\ \E q \in {q \in Asked(detail) : q.op \in Commands} :
          IF q.op \in AtOnce
          THEN job' = Run(Request(q)) /\ UNCHANGED modal
          ELSE modal' = Request(q) /\ UNCHANGED job
    /\ UNCHANGED copied

\* A range of the list, in the order of the list.
CopySelectedCommitForCherryPick ==
    /\ Input
    /\ "Paste" \in Commands
    /\ \E i, j \in DOMAIN detail.commits :
          i <= j /\ copied' = SubSeq(detail.commits, i, j)
    /\ UNCHANGED <<modal, job>>

Submit ==
    /\ Idle /\ modal # None
    /\ job' = Run(modal)
    /\ modal' = None
    /\ UNCHANGED <<git, view, detail, copied, stale, counters>>

Cancel ==
    /\ Idle /\ modal # None
    /\ modal' = None
    /\ UNCHANGED <<git, view, detail, copied, job, stale, counters>>

(***************************************************************************)
(* The git processes of a command.                                         *)
(***************************************************************************)
\* Mutant: an older commit is amended in place of HEAD, without a rebase.
ProcessesAmendHead(q) ==
    CASE q.op = "Fixup" -> <<"fixup", "autosquash">>
      [] q.op = "AmendAttributes" -> <<"amend">>
      [] q.op = "StartBisect" -> <<"bisectStart", "mark">>
      [] OTHER -> <<"all">>

Processes(q) ==
    CASE q.op = "Fixup" -> <<"fixup", "autosquash">>
      [] q.op = "AmendAttributes" /\ q.c # git.head -> <<"stopAt", "amend", "continue">>
      [] q.op = "AmendAttributes" /\ q.c = git.head -> <<"amend">>
      [] q.op = "StartBisect" -> <<"bisectStart", "mark">>
      [] OTHER -> <<"all">>

\* start_commit_rebase
Rebase(g, q) ==
    CASE q.op = "Edit" -> ScriptedRebase(g, q.c, "edit", FALSE)
      [] q.op = "ApplyFixups" -> ScriptedRebase(g, q.c, "pick", TRUE)
      [] q.op = "Squash" ->
            IF Len(q.c) = 1 THEN Fails(g) ELSE ScriptedRebase(g, q.c, "squash", FALSE)
      [] q.op = "Drop" -> ScriptedRebase(g, q.c, "drop", FALSE)
      [] q.op = "Reword" -> ScriptedRebase(g, q.c, "reword", FALSE)
      [] q.op = "MoveUp" -> ReorderedRebase(g, q.c, q.adjacent)
      [] q.op = "MoveDown" -> ReorderedRebase(g, q.adjacent, q.c)

SingleProcess(g, q) ==
    CASE q.op \in {"Edit", "ApplyFixups", "Squash", "Drop", "Reword", "MoveUp", "MoveDown"} ->
            Rebase(g, q)
      [] q.op = "CreateFixup" -> CommitIndex(g, Last(q.c).subj, TRUE)
      [] q.op = "Revert" -> Revert(g, q.c)
      [] q.op = "CherryPick" -> CherryPick(g, <<q.c>>)
      [] q.op = "Paste" -> CherryPick(g, q.commits)
      [] q.op \in {"Soft", "Mixed", "Hard"} -> Reset(g, q.op, q.c)
      [] q.op = "Restore" -> Reset(g, "Hard", g.reflog[q.k])
      [] q.op = "Checkout" -> Checkout(g, g.branch[q.b], q.b)
      [] q.op = "ForceCheckout" -> ForceCheckout(g, q.b)
      [] q.op = "CheckoutCommit" -> Checkout(g, q.c, "none")
      [] q.op = "RebaseOnto" -> RebaseCurrentOnto(g, q.b)
      [] q.op = "MarkBisect" -> BisectMark(g, q.term, q.c)
      [] q.op = "ResetBisect" -> BisectReset(g)
      [] q.op = "Continue" -> ContinueRebase(g)
      [] q.op = "Skip" -> SkipRebase(g)
      [] q.op = "Abort" -> AbortRebase(g)

Outcomes ==
    CASE Head(job.left) = "begin" -> Done(git)
      [] Head(job.left) = "fixup" -> CommitIndex(git, Last(job.q.c).subj, TRUE)
      [] Head(job.left) = "autosquash" -> ScriptedRebase(git, job.q.c, "pick", TRUE)
      [] Head(job.left) = "stopAt" -> ScriptedRebase(git, job.q.c, "edit", FALSE)
      [] Head(job.left) = "amend" -> AmendAttributes(git)
      [] Head(job.left) = "continue" -> ContinueRebase(git)
      [] Head(job.left) = "bisectStart" -> BisectStart(git)
      [] Head(job.left) = "mark" -> BisectMark(git, job.q.term, job.q.c)
      [] Head(job.left) = "all" -> SingleProcess(git, job.q)

\* The command returns, and the reducer asks for the detail.
Ends == job' = None /\ stale' = TRUE

Begin ==
    /\ job # None /\ job.left = <<"begin">>
    /\ job' = [job EXCEPT !.left = Processes(job.q)]
    /\ UNCHANGED <<git, view, detail, copied, modal, stale, counters>>

Process ==
    /\ job # None /\ job.left # <<"begin">>
    /\ \E r \in Outcomes :
          /\ git' = r.g
          /\ IF ~r.ok \/ Len(job.left) = 1 THEN Ends
             ELSE job' = [job EXCEPT !.left = Tail(@)] /\ UNCHANGED stale
    /\ UNCHANGED <<view, detail, copied, modal, counters>>

ProcessFails ==
    /\ job # None /\ job.left # <<"begin">>
    /\ faults < MaxFaults /\ faults' = faults + 1
    /\ Ends
    /\ UNCHANGED <<git, view, detail, copied, modal, inputs, outside>>

\* WorkerEvent::RepoDetailLoaded
LoadRepoDetail ==
    /\ stale
    /\ detail' = Detail(git, view)
    /\ stale' = FALSE
    /\ UNCHANGED <<git, view, copied, modal, job, counters>>

\* The same, asked for by a timer or the watcher.
Refresh ==
    /\ Idle /\ detail # Detail(git, view)
    /\ detail' = Detail(git, view)
    /\ UNCHANGED <<git, view, copied, modal, job, stale, counters>>

(***************************************************************************)
(* Everybody else.                                                         *)
(***************************************************************************)
Edited(g) == {[g EXCEPT !.tree = @ \union {e}] : e \in Loosely}

Committed(g) ==
    IF g.op.stop = "conflict" THEN {} ELSE {r.g : r \in {r \in CommitIndex(g, "w", FALSE) : r.ok}}

\* The user resolves a conflict in an editor, or gives up a cherry-pick or revert
\* in a shell: the program has no command for either.
Settled(g) ==
    IF g.op.stop # "conflict" THEN {}
    ELSE IF g.op.kind = "rebase"
    THEN LET t == After(TreeOf(g.head), Last(Head(g.op.todo).of))
         IN  {[g EXCEPT !.index = t, !.tree = t, !.op.stop = "resolved"]}
    ELSE {[At(g, g.op.orig) EXCEPT !.op = NoOp]}

Acts(g) ==
    UNION {IF "edit" \in OutsideActs THEN Edited(g) ELSE {},
           IF "add" \in OutsideActs /\ g.op.stop # "conflict"
               THEN {[g EXCEPT !.index = g.tree]} ELSE {},
           IF "commit" \in OutsideActs THEN Committed(g) ELSE {},
           IF "settle" \in OutsideActs THEN Settled(g) ELSE {}}

Alone(q) == IF q = None THEN None ELSE [q EXCEPT !.alone = FALSE]

Outside ==
    /\ outside < MaxOutside
    /\ outside' = outside + 1
    /\ git' \in Acts(git) \ {git}
    /\ job' = Alone(job) /\ modal' = Alone(modal)
    /\ UNCHANGED <<view, detail, copied, stale, inputs, faults>>

(***************************************************************************)
(* Next.                                                                   *)
(***************************************************************************)
User == Ask \/ CopySelectedCommitForCherryPick \/ Submit \/ Cancel
Command == Begin \/ Process \/ ProcessFails
Next == User \/ Command \/ LoadRepoDetail \/ Refresh \/ Outside

Spec == Init /\ [][Next]_vars

(***************************************************************************)
(* Properties.                                                             *)
(***************************************************************************)
\* Every reachable state is well typed, and a command, a modal and a load that is
\* due exclude each other.
TypeOK ==
    /\ git \in Repositories
    /\ copied \in Seq(Listed)
    /\ modal # None => modal.q \in Questions /\ job = None /\ ~stale
    /\ job # None => job.q \in Questions /\ job.left \in Seq(Phases) \ {<<>>} /\ ~stale
    /\ inputs \in 0..MaxInputs /\ outside \in 0..MaxOutside /\ faults \in 0..MaxFaults

Ended == job # None /\ job' = None

Succeeds == Ended /\ faults' = faults /\ \E r \in Outcomes : r.ok /\ r.g = git'

Titles(s) == [i \in DOMAIN s |-> <<s[i].subj, s[i].fix>>]

\* A fixup of what is in the list goes into it, and is no commit of its own.
FoldedInto(list, title) ==
    IF title[2] /\ <<title[1], FALSE>> \in ToSet(list) THEN list ELSE Append(list, title)

WithoutFixups(titles) == FoldLeft(FoldedInto, <<>>, titles)

\* The titles of h without the fixups of what is at i or after it.
Folded(h, i) == Titles(SubSeq(h, 1, i - 1)) \o WithoutFixups(Titles(SubSeq(h, i, Len(h))))

\* Neither of two commits takes out what the other puts in.
Independent(c, d) == c.add \intersect d.del = {} /\ c.del \intersect d.add = {}

\* A fixup in h is independent of what it may be moved before.
Movable(h, i) ==
    \A j \in i..Len(h) : h[j].fix => \A k \in i..(j - 1) : Independent(h[k], h[j])

Swapped(s, i) == [s EXCEPT ![i] = s[i + 1], ![i + 1] = s[i]]

\* What the command q is for, when it leads from the repository g to v: h is the
\* history it rewrites, i the place of its commit, n the new history.
Meant(q, g, v) ==
    LET h == g.head
        n == v.head
        i == Len(q.c)
        same == TreeOf(n) = TreeOf(h)
    IN  CASE q.op = "Drop" -> Titles(n) = RemoveAt(Titles(h), i) /\ TreeOf(n) = TreeOf(RemoveAt(h, i))
          [] q.op = "Squash" ->
                /\ Titles(n) = RemoveAt(Titles(h), i) /\ same
                /\ TreeOf(SubSeq(n, 1, i - 1)) = TreeOf(q.c)
          [] q.op = "Reword" ->
                Titles(n) = [Titles(h) EXCEPT ![i] = <<"reworded", h[i].fix>>] /\ same
          [] q.op = "MoveUp" ->
                Titles(n) = Swapped(Titles(h), i) /\ (Independent(h[i], h[i + 1]) => same)
          [] q.op = "MoveDown" ->
                Titles(n) = Swapped(Titles(h), i - 1) /\ (Independent(h[i - 1], h[i]) => same)
          [] q.op = "ApplyFixups" -> Titles(n) = Folded(h, i) /\ (Movable(h, i) => same)
          [] q.op = "Fixup" ->
                LET folded == Folded(h, i)
                    t == TreeOf(h)
                    made == [add |-> g.index \ t, del |-> t \ g.index, subj |-> h[i].subj,
                             by |-> "us", fix |-> TRUE]
                IN  /\ IF h[i].fix THEN SubSeq(Titles(n), 1, Len(folded)) = folded
                       ELSE /\ Titles(n) = folded
                            /\ made.add \subseteq TreeOf(SubSeq(n, 1, i))
                    /\ Movable(Append(h, made), i) => TreeOf(n) = g.index
          [] q.op = "AmendAttributes" -> n = [h EXCEPT ![i].by = "us"]
          [] q.op = "Edit" -> n = q.c /\ v.op.stop = "edit" /\ v.op.orig = h
          [] q.op = "Revert" -> Front(n) = h /\ h[i].add \intersect TreeOf(n) = {}
          [] OTHER -> TRUE

\* The commits of h that onto has not, by what they change.
Missing(list, ch) ==
    IF <<ch.add, ch.del>> \in list.theirs THEN list ELSE [list EXCEPT !.own = Append(@, ch)]

Missed(s, theirs) == FoldLeft(Missing, [own |-> <<>>, theirs |-> theirs], s)

Own(h, onto) ==
    LET k == Parting(h, onto)
        theirs == {<<ch.add, ch.del>> : ch \in ToSet(SubSeq(onto, k + 1, Len(onto)))}
    IN  Missed(SubSeq(h, k + 1, Len(h)), theirs).own

\* The same of the commands that are not about a commit of HEAD's history. A rebase
\* goes back to its branch, unless another was checked out while it had stopped.
MeantOf(q, g, v) ==
    CASE q.op = "RebaseOnto" ->
            LET onto == g.branch[q.b]
                own == Own(g.head, onto)
                n == v.head
            IN  IF Ancestor(onto, g.head) THEN n = g.head
                ELSE /\ Ancestor(onto, n)
                     /\ ToSet(Titles(SubSeq(n, Len(onto) + 1, Len(n)))) \subseteq ToSet(Titles(own))
                     /\ TreeOf(n) = TreeOf(onto \o own)
      [] q.op \in {"Checkout", "ForceCheckout"} ->
            /\ v.on = q.b /\ v.branch = g.branch
            /\ q.op = "Checkout" => Uncommitted(v) = Uncommitted(g)
      [] q.op = "ResetBisect" ->
            v.on = g.bisect.on /\ v.branch = g.branch /\ Uncommitted(v) = Uncommitted(g)
      [] q.op \in {"Continue", "Skip", "Abort"} ->
            (v.op = NoOp /\ g.on = "none") =>
                /\ v.on = g.op.on
                /\ \A b \in Branches : b # g.op.on => v.branch[b] = g.branch[b]
      [] OTHER -> TRUE

\* HEAD stays on its branch, or will go back to it, and no other branch moves.
StaysPut(g, v) ==
    /\ IF v.op = NoOp THEN v.on = g.on ELSE v.op.on = g.on
    /\ \A b \in Branches : b # g.on => v.branch[b] = g.branch[b]

Rewriting == {"Drop", "Squash", "Reword", "MoveUp", "MoveDown", "ApplyFixups", "Fixup",
              "AmendAttributes", "Edit"}

\* A command on a commit of HEAD's history that reports success has done to it
\* what it is called, at that commit, and nothing else: the order, the subjects
\* and authors of all other commits, what the branch contains and the other
\* branches stay as they were. A rebase onto a branch keeps all of the own commits,
\* a checkout and the end of a bisect what is not committed.
RewritesAsAsked ==
    [][Succeeds /\ job.alone =>
         /\ /\ job.q.op \in Rewriting \union {"Revert"} /\ job.before.op = NoOp
            /\ Ancestor(job.q.c, job.before.head)
            => Meant(job.q, job.before, git') /\ StaysPut(job.before, git')
         /\ MeantOf(job.q, job.before, git')]_vars

\* What can be found in a commit HEAD has been at, in the index or in the tree.
Kept(g) ==
    (UNION {ch.add : ch \in UNION {ToSet(c) : c \in ToSet(g.reflog) \union Range(g.branch)}})
    \union g.index \union g.tree

\* No edit is lost that no commit has, whichever process fails and whatever
\* others do meanwhile, but by a hard reset, a forced checkout, a skip or an abort,
\* which ask, as does a mixed reset, which takes what only the index has. A snapshot
\* is restored over what others have edited since the question, which was asked only
\* because there was nothing to lose.
LosesOnlyConfirmed ==
    [][Kept(git) \ Kept(git') # {} /\ outside' = outside =>
         /\ job # None
         /\ \/ job.q.op \in {"Hard", "ForceCheckout", "Skip", "Abort"}
            \/ job.q.op = "Restore" /\ ~job.alone
            \/ job.q.op = "Mixed" /\ Kept(git) \ Kept(git') \subseteq git.index \ git.tree]_vars

\* A command that fails on a commit of HEAD's history leaves HEAD where it was, and
\* the branches, or in a state the user can see and give up; only a fixup whose rebase
\* does not start leaves its "fixup!" commit, and a paste what it has picked.
FailsWithoutTrace ==
    [][/\ Ended /\ ~Succeeds /\ job.alone /\ job.before.op = NoOp
       /\ job.q.op \in Rewriting => Ancestor(job.q.c, job.before.head)
       /\ job.q.op # "Paste"
       => \/ git'.head = job.before.head /\ git'.on = job.before.on
             /\ git'.branch = job.before.branch
          \/ git'.op # NoOp /\ Ancestor(job.before.head, git'.op.orig)
             /\ \A b \in Branches : b # job.before.on => git'.branch[b] = job.before.branch[b]
          \/ job.q.op = "Fixup" /\ Front(git'.head) = job.before.head]_vars
=============================================================================
