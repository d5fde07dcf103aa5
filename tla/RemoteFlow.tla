----------------------------- MODULE RemoteFlow -----------------------------
(***************************************************************************)
(* Branches and remotes of one repository: what the user asks for, the     *)
(* confirmations, the git processes each command runs, and the flow that   *)
(* goes on by itself after a remote is added: fetch it, then make a branch *)
(* that tracks the branch asked for (core/src/reducer.rs,                  *)
(* pending_remote_flow).                                                   *)
(*                                                                         *)
(* One call of AppRuntime::run (app/src/runtime.rs) reduces events and     *)
(* applies their effects until none is left; the user is heard only then.  *)
(* Other programs and other people do not wait: they act between any two   *)
(* steps.                                                                  *)
(***************************************************************************)
EXTENDS GitRefs

CONSTANTS
    InitialRefs,    \* the repositories the program may be opened on
    Unreachable,    \* addresses nobody answers at
    MaxInputs,      \* bound: requests of the user
    MaxOutside,     \* bound: acts of others
    MaxFaults       \* bound: git processes that fail though they could succeed

(***************************************************************************)
(* Commands, the flow that waits for them, and one that runs: the processes*)
(* left of it, and what the last one found for the next.                   *)
(***************************************************************************)
Command ==
    [op : {"FetchSelectedRepo", "PullCurrentBranch", "PushCurrentBranch"}]
    \union [op : {"FetchRemote", "RemoveRemote"}, r : Remotes]
    \union [op : {"AddRemote"}, r : Remotes, u : Urls, b : Branches \union {None}]
    \union [op : {"EditRemote"}, r : Remotes, n : Remotes, u : Urls]
    \union [op : {"CheckoutBranch", "CreateBranch", "DeleteBranch", "UnsetBranchUpstream",
                  "MergeRefIntoCurrent"}, b : Branches]
    \union [op : {"RenameBranch"}, b : Branches, n : Branches]
    \union [op : {"CreateBranchFromRef"}, b : Branches, from : RemoteBranches, track : BOOLEAN]
    \union [op : {"SetBranchUpstream"}, b : Branches, from : RemoteBranches]
    \union [op : {"DeleteRemoteBranch", "CheckoutRemoteBranch", "FastForward"},
            from : RemoteBranches]

Flow == [stage : {"add", "fetch", "branch"}, r : Remotes, b : Branches \union {None}]

ProcessNames == {"fetch", "collect", "update", "merge", "rename", "set-url", "all"}

Job ==
    [c : Command,
     left : Seq(ProcessNames),
     plan : SUBSET (RemoteBranches \union [b : Branches, old : Tips, to : RemoteBranches])]

ASSUME FlowAssumption ==
    /\ \A s \in InitialRefs : s \in Refs /\ s.local[s.head] # {}
    /\ None \notin Flow /\ None \notin Job
    /\ MaxInputs \in Nat /\ MaxOutside \in Nat /\ MaxFaults \in Nat

VARIABLES
    repo,       \* the repository and the servers
    detail,     \* repo_mode.detail, as far as the requests read it
    flow,       \* repo_mode.pending_remote_flow
    modal,      \* the command a confirmation or a prompt is open for, or None
    queue,      \* the events run() has still to reduce
    effects,    \* the effects of the last event still to be applied
    job,        \* the command whose git processes are running, or None
    goal,       \* history: the remote and branch an added remote was added for
    seen,       \* history: what has happened since the user's last request
    inputs, outside, faults

run == <<queue, effects, job>>
history == <<goal, seen>>
counters == <<inputs, outside, faults>>
vars == <<repo, detail, flow, modal, run, history, counters>>

(***************************************************************************)
(* What the screen shows of a repository.                                  *)
(***************************************************************************)
Detail(s) ==
    [head |-> s.head,
     branches |-> {b \in Branches : Exists(s, b)},
     remotes |-> {r \in Remotes : Known(s, r)},
     remoteBranches |-> {rb \in RemoteBranches : s.tracking[rb.r][rb.b] # {}},
     upstream |-> s.upstream]

(***************************************************************************)
(* Requests that open a confirmation, with the target the screen shows ... *)
(***************************************************************************)
Confirmations(d) ==
    {[op |-> "FetchSelectedRepo"], [op |-> "PullCurrentBranch"], [op |-> "PushCurrentBranch"]}
    \union {[op |-> o, r |-> r] : o \in {"FetchRemote", "RemoveRemote"}, r \in d.remotes}
    \union {[op |-> "DeleteRemoteBranch", from |-> rb] : rb \in d.remoteBranches}
    \union {[op |-> "FastForward", from |-> d.upstream[b]] :
                b \in {b \in d.branches \intersect {d.head} : d.upstream[b] # None}}
    \union {[op |-> "UnsetBranchUpstream", b |-> b] :
                b \in {b \in d.branches : d.upstream[b] # None}}
    \union {[op |-> "MergeRefIntoCurrent", b |-> b] : b \in d.branches \ {d.head}}

\* ... those that open a prompt, with what the user types ...
Prompts(d) ==
    [op : {"AddRemote"}, r : Remotes, u : Urls, b : Branches \union {None}]
    \union [op : {"EditRemote"}, r : d.remotes, n : Remotes, u : Urls]
    \union {[op |-> "CreateBranchFromRef", b |-> b, from |-> rb, track |-> b = rb.b] :
                b \in Branches, rb \in d.remoteBranches}
    \union [op : {"CreateBranch"}, b : Branches]
    \union [op : {"RenameBranch"}, b : d.branches, n : Branches]
    \union [op : {"SetBranchUpstream"}, b : d.branches, from : d.remoteBranches]

\* ... and those that are carried out at once.
Requests(d) ==
    [op : {"CheckoutBranch"}, b : d.branches]
    \union [op : {"CheckoutRemoteBranch"}, from : d.remoteBranches]
    \union [op : {"SetBranchUpstream"}, b : {d.head},
            from : d.remoteBranches \ {d.upstream[d.head]}]

Load == [do |-> "LoadRepoDetail"]
Git(c) == [do |-> "RunGitCommand", c |-> c]
CheckMerged(b) == [do |-> "CheckBranchMerged", b |-> b]
ForceDelete(b) == [op |-> "DeleteBranch", b |-> b]

Init ==
    /\ repo \in InitialRefs
    /\ detail = Detail(repo)
    /\ flow = None
    /\ modal = None
    /\ queue = <<>> /\ effects = <<>> /\ job = None
    /\ goal = None /\ seen = {}
    /\ inputs = 0 /\ outside = 0 /\ faults = 0

(***************************************************************************)
(* The user.                                                               *)
(***************************************************************************)
Idle == queue = <<>> /\ effects = <<>> /\ job = None

\* A new request: what comes of it is judged by what happens from now on.
Input ==
    /\ Idle /\ modal = None
    /\ inputs < MaxInputs
    /\ inputs' = inputs + 1
    /\ goal' = None
    /\ seen' = {}
    /\ UNCHANGED <<repo, detail, flow, queue, job, outside, faults>>

Ask ==
    /\ Input
    /\ modal' \in Confirmations(detail) \union Prompts(detail)
    /\ UNCHANGED effects

Request ==
    /\ Input
    /\ \E c \in Requests(detail) : effects' = <<Git(c)>>
    /\ UNCHANGED modal

DeleteSelectedBranch ==
    /\ Input
    /\ \E b \in detail.branches : effects' = <<CheckMerged(b)>>
    /\ UNCHANGED modal

\* History: what adding a remote is to lead to, the branch left out if it cannot
\* be made.
Goal(c) ==
    [r |-> c.r,
     b |-> IF c.b # None /\ (Exists(repo, c.b) \/ repo.server[c.u][c.b] = {}) THEN None ELSE c.b]

\* confirm_pending_operation and submit_input_prompt.
Submit ==
    /\ Idle /\ modal # None
    /\ modal' = None
    /\ effects' = <<Git(modal)>>
    /\ IF modal.op = "AddRemote"
       THEN /\ flow' = [stage |-> "add", r |-> modal.r, b |-> modal.b]
            /\ goal' = IF Known(repo, modal.r) THEN None ELSE Goal(modal)
       ELSE UNCHANGED <<flow, goal>>
    /\ seen' = seen \union {"confirmed"}
    /\ UNCHANGED <<repo, detail, queue, job, counters>>

Cancel ==
    /\ Idle /\ modal # None
    /\ modal' = None
    /\ UNCHANGED <<repo, detail, flow, run, history, counters>>

(***************************************************************************)
(* The git processes of a command, one after the other.                    *)
(***************************************************************************)
Processes(c) ==
    CASE c.op = "FetchRemote" -> <<"fetch", "collect", "update">>
      [] c.op = "FetchSelectedRepo" -> <<"fetch", "collect", "update">>
      [] c.op = "PullCurrentBranch" -> <<"fetch", "merge">>
      [] c.op = "EditRemote" -> <<"rename", "set-url">>
      [] OTHER -> <<"all">>

\* The remotes a fetch asks: with no remote, "--all" is none.
FetchFrom(s, c) ==
    CASE c.op = "FetchRemote" -> {c.r}
      [] c.op = "FetchSelectedRepo" -> {DefaultRemote(s)} \ {None}
      [] OTHER -> IF HasUpstream(s, s.head) THEN {s.upstream[s.head].r} ELSE {}

\* run_pull refuses a branch without upstream.
FetchOf(s, c) ==
    IF c.op = "PullCurrentBranch" /\ ~HasUpstream(s, s.head) THEN {}
    ELSE IF FetchFrom(s, c) = {} THEN {s}
    ELSE UNION {Fetch(s, r) : r \in FetchFrom(s, c)}

SingleProcess(s, c) ==
    CASE c.op = "AddRemote" -> AddRemote(s, c)
      [] c.op = "RemoveRemote" -> RemoveRemote(s, c)
      [] c.op = "DeleteRemoteBranch" -> DeleteRemoteBranch(s, c)
      [] c.op = "PushCurrentBranch" -> PushCurrentBranch(s, c)
      [] c.op = "CheckoutBranch" -> CheckoutBranch(s, c)
      [] c.op = "CheckoutRemoteBranch" -> CheckoutRemoteBranch(s, c)
      [] c.op = "CreateBranch" -> CreateBranch(s, c)
      [] c.op = "CreateBranchFromRef" -> CreateBranchFromRef(s, c)
      [] c.op = "RenameBranch" -> RenameBranch(s, c)
      [] c.op = "DeleteBranch" -> DeleteBranch(s, c)
      [] c.op = "SetBranchUpstream" -> SetBranchUpstream(s, c)
      [] c.op = "UnsetBranchUpstream" -> UnsetBranchUpstream(s, c)
      [] c.op = "FastForward" -> FastForward(s, c)
      [] c.op = "MergeRefIntoCurrent" -> MergeRefIntoCurrent(s, c)

\* The states the next process can leave.
Outcomes ==
    CASE Head(job.left) = "fetch" -> FetchOf(repo, job.c)
      [] Head(job.left) = "collect" -> {repo}
      [] Head(job.left) = "update" -> UpdateBranchRefs(repo, job.plan)
      [] Head(job.left) = "merge" -> MergePulled(repo, job.plan)
      [] Head(job.left) = "rename" -> RenameRemote(repo, job.c)
      [] Head(job.left) = "set-url" -> SetUrl(repo, job.c)
      [] Head(job.left) = "all" -> SingleProcess(repo, job.c)

\* What a process finds out for the one after it.
Plan ==
    CASE Head(job.left) = "collect" -> AutoForwards(repo)
      [] job.c.op = "PullCurrentBranch" -> {repo.upstream[repo.head]}
      [] OTHER -> {}

\* The servers the next process talks to.
Servers ==
    CASE Head(job.left) = "fetch" ->
            {repo.url[r] : r \in FetchFrom(repo, job.c) \intersect Remotes}
      [] job.c.op = "PushCurrentBranch" -> {repo.url[PushTarget(repo).r]}
      [] job.c.op = "DeleteRemoteBranch" -> {repo.url[job.c.from.r]}
      [] OTHER -> {}

Answers == Servers \intersect Unreachable = {}

\* The summary a command reports, as far as the flow tells summaries apart.
Summary(c) ==
    CASE c.op = "AddRemote" -> <<"Added remote", c.r>>
      [] c.op = "FetchRemote" -> <<"Fetched", c.r>>
      [] c.op = "CreateBranchFromRef" /\ c.track -> <<"Created tracking">>
      [] c.op = "CheckoutRemoteBranch" /\ ~Exists(repo, c.from.b) -> <<"Created tracking">>
      [] OTHER -> <<"Done">>

Completed(c) == [ev |-> "GitOperationCompleted", summary |-> Summary(c)]
Failed == [ev |-> "GitOperationFailed"]

StartCommand ==
    /\ job = None /\ effects # <<>> /\ Head(effects).do = "RunGitCommand"
    /\ LET c == Head(effects).c
       IN  job' = [c |-> c, left |-> Processes(c), plan |-> {}]
    /\ effects' = Tail(effects)
    /\ UNCHANGED <<repo, detail, flow, modal, queue, history, counters>>

Process ==
    /\ job # None /\ Answers
    /\ repo' \in Outcomes
    /\ IF Len(job.left) = 1
       THEN /\ job' = None
            /\ queue' = Append(queue, Completed(job.c))
       ELSE /\ job' = [job EXCEPT !.left = Tail(@),
                                  !.plan = Plan]
            /\ UNCHANGED queue
    /\ UNCHANGED <<detail, flow, modal, effects, history, counters>>

\* The first process that fails ends the command.
CommandFails ==
    /\ job' = None
    /\ queue' = Append(queue, Failed)
    /\ UNCHANGED <<repo, detail, flow, modal, effects, goal, inputs, outside>>

GitRefuses ==
    /\ job # None
    /\ ~Answers \/ Outcomes = {}
    /\ CommandFails
    /\ UNCHANGED <<seen, faults>>

ProcessFails ==
    /\ job # None
    /\ faults < MaxFaults
    /\ faults' = faults + 1
    /\ seen' = seen \union {Head(job.left)}
    /\ CommandFails

(***************************************************************************)
(* The other effects.                                                      *)
(***************************************************************************)
Apply(effect) ==
    /\ job = None /\ effects # <<>> /\ Head(effects).do = effect
    /\ effects' = Tail(effects)
    /\ UNCHANGED <<repo, detail, flow, modal, job, goal, inputs, outside>>

LoadRepoDetail ==
    /\ Apply("LoadRepoDetail")
    /\ queue' = Append(queue, [ev |-> "RepoDetailLoaded", detail |-> Detail(repo)])
    /\ UNCHANGED <<seen, faults>>

\* The result of a read that fails is dropped.
LoadRepoDetailFails ==
    /\ Apply("LoadRepoDetail")
    /\ faults < MaxFaults
    /\ faults' = faults + 1
    /\ seen' = seen \union {"detail"}
    /\ UNCHANGED queue

CheckBranchMerged ==
    /\ Apply("CheckBranchMerged")
    /\ LET b == Head(effects).b
       IN  queue' = Append(queue, [ev |-> IF ~Exists(repo, b) THEN "BranchMergeCheckFailed"
                                          ELSE "BranchMergeCheckCompleted",
                                   b |-> b, merged |-> IsMerged(repo, b)])
    /\ UNCHANGED <<seen, faults>>

(***************************************************************************)
(* The reducer, event by event.                                            *)
(***************************************************************************)
Reduce(event) ==
    /\ job = None /\ effects = <<>>
    /\ queue # <<>> /\ Head(queue).ev = event
    /\ queue' = Tail(queue)
    /\ UNCHANGED <<repo, job, history, counters>>

\* maybe_continue_pending_remote_flow.
ContinueFlow(summary) ==
    CASE flow # None /\ flow.stage = "add" /\ summary = <<"Added remote", flow.r>> ->
            [flow |-> [flow EXCEPT !.stage = "fetch"], more |-> <<>>]
      [] flow # None /\ flow.stage = "fetch" /\ summary = <<"Fetched", flow.r>> ->
            IF flow.b = None THEN [flow |-> None, more |-> <<>>]
            ELSE [flow |-> [flow EXCEPT !.stage = "branch"],
                  more |-> <<Git([op |-> "CreateBranchFromRef", b |-> flow.b,
                                  from |-> [r |-> flow.r, b |-> flow.b], track |-> TRUE])>>]
      [] flow # None /\ flow.stage = "branch" /\ summary = <<"Created tracking">> ->
            [flow |-> None, more |-> <<>>]
      [] OTHER -> [flow |-> flow, more |-> <<>>]

\* Mutant: the repository is read twice.
GitOperationCompletedLoadsTwice ==
    /\ Reduce("GitOperationCompleted")
    /\ LET next == ContinueFlow(Head(queue).summary)
       IN  /\ flow' = next.flow
           /\ effects' = next.more \o <<Load, Load>>
    /\ UNCHANGED <<detail, modal>>

GitOperationCompleted ==
    /\ Reduce("GitOperationCompleted")
    /\ LET next == ContinueFlow(Head(queue).summary)
       IN  /\ flow' = next.flow
           /\ effects' = Append(next.more, Load)
    /\ UNCHANGED <<detail, modal>>

\* Mutant: a failure ends the flow.
GitOperationFailedGivesUp ==
    /\ Reduce("GitOperationFailed")
    /\ effects' = <<Load>>
    /\ flow' = None
    /\ UNCHANGED <<detail, modal>>

GitOperationFailed ==
    /\ Reduce("GitOperationFailed")
    /\ effects' = <<Load>>
    /\ UNCHANGED <<detail, flow, modal>>

\* Mutant: the remote is fetched whatever the flow waits for.
RepoDetailLoadedFetchesAlways ==
    /\ Reduce("RepoDetailLoaded")
    /\ detail' = Head(queue).detail
    /\ effects' = IF flow # None /\ flow.r \in detail'.remotes
                  THEN <<Git([op |-> "FetchRemote", r |-> flow.r])>>
                  ELSE <<>>
    /\ UNCHANGED <<flow, modal>>

RepoDetailLoaded ==
    /\ Reduce("RepoDetailLoaded")
    /\ detail' = Head(queue).detail
    /\ effects' = IF flow # None /\ flow.stage = "fetch" /\ flow.r \in detail'.remotes
                  THEN <<Git([op |-> "FetchRemote", r |-> flow.r])>>
                  ELSE <<>>
    /\ UNCHANGED <<flow, modal>>

\* Mutant: a branch that is not merged is deleted without asking, too.
BranchMergeCheckCompletedNeverAsks ==
    /\ Reduce("BranchMergeCheckCompleted")
    /\ effects' = <<Git(ForceDelete(Head(queue).b))>>
    /\ UNCHANGED <<detail, flow, modal>>

\* A branch that is merged is deleted at once, another after a confirmation.
BranchMergeCheckCompleted ==
    /\ Reduce("BranchMergeCheckCompleted")
    /\ LET delete == ForceDelete(Head(queue).b)
       IN  IF Head(queue).merged
           THEN effects' = <<Git(delete)>> /\ UNCHANGED modal
           ELSE modal' = delete /\ UNCHANGED effects
    /\ UNCHANGED <<detail, flow>>

BranchMergeCheckFailed ==
    /\ Reduce("BranchMergeCheckFailed")
    /\ UNCHANGED <<detail, flow, modal, effects>>

(***************************************************************************)
(* Others: in this working copy, and at the servers.                       *)
(***************************************************************************)
Outside ==
    /\ outside < MaxOutside
    /\ outside' = outside + 1
    /\ seen' = seen \union {"outside"}
    /\ UNCHANGED <<detail, flow, modal, run, goal, inputs, faults>>

OutsideCommit ==
    /\ Outside
    /\ \E new \in Fresh(repo) : repo' = [repo EXCEPT !.local[repo.head] = @ \union {new}]

OutsideGit ==
    /\ Outside
    /\ \/ \E b \in Branches : repo' \in CheckoutBranch(repo, [b |-> b])
       \/ \E r \in Remotes : repo.url[r] \notin Unreachable /\ repo' \in Fetch(repo, r)

\* A colleague pushes, by force or not.
OutsidePush ==
    /\ Outside
    /\ \E u \in Urls, b \in Branches, new \in Fresh(repo) :
        \E kept \in {repo.server[u][b], {}} :
            repo' = [repo EXCEPT !.server[u][b] = kept \union {new}]

(***************************************************************************)
User == Ask \/ Request \/ DeleteSelectedBranch \/ Submit \/ Cancel

Commands == StartCommand \/ Process \/ GitRefuses \/ ProcessFails

Loads == LoadRepoDetail \/ LoadRepoDetailFails \/ CheckBranchMerged

Reducer ==
    \/ GitOperationCompleted \/ GitOperationFailed \/ RepoDetailLoaded
    \/ BranchMergeCheckCompleted \/ BranchMergeCheckFailed

Others == OutsideCommit \/ OutsideGit \/ OutsidePush

Next == User \/ Commands \/ Loads \/ Reducer \/ Others

Spec == Init /\ [][Next]_vars

\* run() is a loop in one thread, and git ends: it goes on while there is work.
FairSpec == Spec /\ WF_vars(Commands \/ Loads \/ Reducer)
-----------------------------------------------------------------------------
(***************************************************************************)
(* Properties.                                                             *)
(***************************************************************************)

RepoDetail ==
    [head : Branches,
     branches : SUBSET Branches,
     remotes : SUBSET Remotes,
     remoteBranches : SUBSET RemoteBranches,
     upstream : [Branches -> RemoteBranches \union {None}]]

Event ==
    [ev : {"GitOperationCompleted"},
     summary : ({"Added remote", "Fetched"} \X Remotes) \union {<<"Created tracking">>, <<"Done">>}]
    \union [ev : {"GitOperationFailed"}]
    \union [ev : {"RepoDetailLoaded"}, detail : RepoDetail]
    \union [ev : {"BranchMergeCheckCompleted", "BranchMergeCheckFailed"},
            b : Branches, merged : BOOLEAN]

Effect ==
    [do : {"LoadRepoDetail"}]
    \union [do : {"RunGitCommand"}, c : Command]
    \union [do : {"CheckBranchMerged"}, b : Branches]

\* Every variable has values of its type, the queue and the effects of one
\* run stay short, and no confirmation opens while a command runs.
TypeOK ==
    /\ repo \in Refs
    /\ repo.local[repo.head] # {}
    /\ detail \in RepoDetail
    /\ flow \in Flow \union {None}
    /\ modal \in Command \union {None}
    /\ queue \in Seq(Event) /\ Len(queue) <= 2
    /\ effects \in Seq(Effect) /\ Len(effects) <= 2
    /\ job # None =>
        /\ modal = None
        /\ job.c \in Command
        /\ job.left \in Seq(ProcessNames)
        /\ job.left # <<>>
    /\ goal \in [r : Remotes, b : Branches \union {None}] \union {None}
    /\ inputs \in 0..MaxInputs /\ outside \in 0..MaxOutside /\ faults \in 0..MaxFaults

Undisturbed(kinds) == seen \intersect kinds = {}

\* When run() returns after a remote was added, and nobody else acted and
\* neither the addition nor a read of the repository failed, the remote has
\* been fetched and the branch asked for follows it - however often the fetch
\* itself failed.
FlowCompletes ==
    Idle /\ goal # None /\ Undisturbed({"outside", "detail", "all"}) =>
        /\ flow = None \/ flow.stage = "branch"
        /\ \A b \in Branches : OnServer(repo, goal.r)[b] \subseteq repo.tracking[goal.r][b]
        /\ goal.b # None =>
            /\ flow = None
            /\ repo.upstream[goal.b] = [r |-> goal.r, b |-> goal.b]
            /\ repo.local[goal.b] = UpstreamTip(repo, goal.b)

ByProgram == outside' = outside

\* As long as nobody else acts, a branch of the repository that the program
\* moves is fast-forwarded, and a fetch leaves the branch alone that is checked
\* out: its files would no longer be those of its commit.
OnlyForwards ==
    [][ByProgram /\ Undisturbed({"outside"}) =>
        \A b \in Branches : repo.local[b] # {} /\ repo'.local[b] # {} =>
            /\ repo.local[b] \subseteq repo'.local[b]
            /\ job # None /\ Head(job.left) = "update" /\ b = repo.head =>
                 repo'.local[b] = repo.local[b]]_vars

LocalWork(s) == UNION {s.local[b] : b \in Branches}

Reachable(s) == LocalWork(s) \union UNION {s.tracking[r][b] : r \in Remotes, b \in Branches}

\* No step of the program loses a commit of a local branch unless the user has
\* confirmed something since the request: "destructive actions require
\* confirmation" (PLAN.md:426), and "d" is to "open delete-branch
\* confirmation" (docs/KEYBINDINGS.md:172).
KeepsWork ==
    [][ByProgram /\ Undisturbed({"confirmed"}) =>
        LocalWork(repo) \subseteq Reachable(repo')]_vars

\* The deletion of b is the user's: confirmed, or waved through by the check
\* that b is merged. The check compares a main branch with itself, and others
\* who act after it can undo what it saw.
MayDelete(b) == b \in MainBranches \/ ~Undisturbed({"confirmed", "outside"})

\* What the program itself can lose of the local branches, whatever fails and
\* whatever others do in between: the commits of one branch, when that branch
\* is deleted; and those of a main branch that a fetch moves forward to an
\* upstream which others have moved since it was compared.
OnlyDeletionLosesWork ==
    [][ByProgram =>
        \/ LocalWork(repo) \subseteq Reachable(repo')
        \/ /\ job.c.op = "DeleteBranch" /\ MayDelete(job.c.b)
           /\ LocalWork(repo) \subseteq Reachable(repo') \union repo.local[job.c.b]
        \/ Head(job.left) = "update" /\ ~Undisturbed({"outside"})]_vars

\* A server loses a commit of a branch only when the deletion of that branch
\* was confirmed: whatever the others push meanwhile, a push overwrites nothing.
KeepsOthersWork ==
    [][ByProgram =>
        \A u \in Urls, b \in Branches :
            \/ repo.server[u][b] \subseteq repo'.server[u][b]
            \/ job.c.op = "DeleteRemoteBranch" /\ "confirmed" \in seen /\ job.c.from.b = b]_vars

\* run() returns to the user.
RunReturns == []<>Idle
=============================================================================
