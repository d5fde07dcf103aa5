---------------------------- MODULE WorkingCopy ----------------------------
(***************************************************************************)
(* Staging, committing, stashing and discarding in one repository: what    *)
(* the user asks for by what the screen shows (core/src/reducer.rs), the   *)
(* git processes each command runs (git/src/lib.rs), and the other         *)
(* programs that use the same working copy between any two of them.        *)
(*                                                                         *)
(* Requests are heard when no command runs and its detail has been loaded: *)
(* RemoteFlow has the queue of run() behind that.                          *)
(***************************************************************************)
EXTENDS GitWorkTree

CONSTANTS
    InitialTrees,   \* the working copies the program may be opened on
    Commands,       \* the commands the user may ask for
    OutsideActs,    \* what others may do
    MaxInputs,      \* bound: requests of the user
    MaxOutside,     \* bound: acts of others
    MaxFaults,      \* bound: git processes that fail though they could succeed
    None

VARIABLES
    work,       \* the working copy
    oldGit,     \* git is older than 2.35, which has no "stash push --staged"
    detail,     \* the detail on the screen
    modal,      \* the command a prompt or a confirmation is open for, or None
    job,        \* the command whose git processes are running, or None
    stale,      \* a command has ended and its LoadRepoDetail is due
    inputs, outside, faults

ASSUME TreesAssumption == InitialTrees \subseteq WorkTrees

counters == <<inputs, outside, faults>>
vars == <<work, oldGit, detail, modal, job, stale, counters>>

(***************************************************************************)
(* What the screen shows, and what may be asked for by it.                 *)
(***************************************************************************)
Detail(w) ==
    [staged |-> Staged(w), unstaged |-> Unstaged(w), untracked |-> Untracked(w),
     stash |-> w.stash, log |-> w.log]

FilesOf(edits) == {FileOf[e] : e \in edits}

\* stash_mode_available
Available(d, mode) ==
    CASE mode = "Tracked" -> d.staged \union d.unstaged # {}
      [] mode = "KeepIndex" -> d.unstaged # {}
      [] mode = "IncludeUntracked" -> d.staged \union d.unstaged \union d.untracked # {}
      [] mode = "Staged" -> d.staged # {}
      [] mode = "Unstaged" -> d.unstaged # {}

Modes == {"Tracked", "KeepIndex", "IncludeUntracked", "Staged", "Unstaged"}

\* A prompt or a confirmation keeps the position of the entry.
Asked(d) ==
    {[op |-> "CreateStash", mode |-> m] : m \in {m \in Modes : Available(d, m)}}
    \union {[op |-> o, k |-> k] :
                o \in {"PopStash", "DropStash", "RenameStash", "CreateBranchFromStash"},
                k \in DOMAIN d.stash}
    \union [op : {"DiscardFile"}, f : FilesOf(d.staged \union d.unstaged \union d.untracked)]
    \union {[op |-> "NukeWorkingTree"]}

\* The files the n-th commit, from the root, has changed.
ChangedIn(log, n) ==
    {f \in Files : Of(log[n], f) # IF n = 1 THEN {} ELSE Of(log[n - 1], f)}

Immediate(d) ==
    {[op |-> "StageSelection"], [op |-> "UnstageSelection"]}
    \union [op : {"StageFile"}, f : FilesOf(d.unstaged \union d.untracked)]
    \union [op : {"UnstageFile"}, f : FilesOf(d.staged)]
    \union {[op |-> "StageLines", lines |-> l] :
                l \in {l \in SUBSET d.unstaged : l # {} /\ Cardinality(FilesOf(l)) = 1}}
    \union {[op |-> "UnstageLines", lines |-> l] :
                l \in {l \in SUBSET d.staged : l # {} /\ Cardinality(FilesOf(l)) = 1}}
    \union {c \in {[op |-> "CommitStaged"], [op |-> "AmendHead"]} :
                c.op = "CommitStaged" => d.staged # {}}
    \union {[op |-> "ApplyStash", k |-> k] : k \in DOMAIN d.stash}
    \union UNION {[op : {"CheckoutCommitFile"}, n : {n}, f : ChangedIn(d.log, n)] :
                     n \in DOMAIN d.log}

Requests ==
    [op : {"CreateStash"}, mode : Modes]
    \union [op : {"ApplyStash", "PopStash", "DropStash", "RenameStash", "CreateBranchFromStash"},
            k : Nat \ {0}]
    \union [op : {"StageFile", "UnstageFile", "DiscardFile"}, f : Files]
    \union [op : {"StageLines", "UnstageLines"}, lines : SUBSET Edits]
    \union [op : {"CheckoutCommitFile"}, n : Nat \ {0}, f : Files]
    \union [op : {"StageSelection", "UnstageSelection", "CommitStaged", "AmendHead",
                  "NukeWorkingTree"}]

\* What a process finds out for those after it.
Plans == (SUBSET Edits) \union Entries \union {"HEAD", "index", "untracked"}

\* What the git processes of a command are for.
Purposes ==
    {"begin", "all", "keepIndex", "push", "applyOlder", "show", "unapply", "dropOlder", "status",
     "unstage", "saveStaged", "removeStaged", "commit", "pushOrUndo", "undo", "revParse", "drop",
     "store", "known", "discard", "reset", "clean"}

Jobs == [c : Requests, left : Seq(Purposes), plan : Plans, undone : BOOLEAN,
         before : WorkTrees, alone : BOOLEAN]

ASSUME NoneAssumption == None \notin Jobs

Init ==
    /\ work \in InitialTrees
    /\ oldGit \in BOOLEAN
    /\ detail = Detail(work)
    /\ modal = None /\ job = None /\ stale = FALSE
    /\ inputs = 0 /\ outside = 0 /\ faults = 0

(***************************************************************************)
(* The user.                                                               *)
(***************************************************************************)
Idle == job = None /\ ~stale

\* History: how the working copy was when the command began, and whether its
\* processes were left alone since.
Run(c) == [c |-> c, left |-> <<"begin">>, plan |-> {}, undone |-> FALSE,
           before |-> work, alone |-> TRUE]

Input ==
    /\ Idle /\ modal = None
    /\ inputs < MaxInputs
    /\ inputs' = inputs + 1
    /\ UNCHANGED <<work, oldGit, detail, stale, outside, faults>>

Ask ==
    /\ Input
    /\ modal' \in {c \in Asked(detail) : c.op \in Commands}
    /\ UNCHANGED job

Request ==
    /\ Input
    /\ \E c \in {c \in Immediate(detail) : c.op \in Commands} : job' = Run(c)
    /\ UNCHANGED modal

Submit ==
    /\ Idle /\ modal # None
    /\ job' = Run(modal)
    /\ modal' = None
    /\ UNCHANGED <<work, oldGit, detail, stale, counters>>

Cancel ==
    /\ Idle /\ modal # None
    /\ modal' = None
    /\ UNCHANGED <<work, oldGit, detail, job, stale, counters>>

(***************************************************************************)
(* The git processes of a command.                                         *)
(***************************************************************************)
\* stash_staged_changes_legacy
LegacyStaged == <<"keepIndex", "push", "applyOlder", "show", "unapply", "dropOlder",
                  "status", "unstage">>

\* Mutant: the entry of everything is dropped before what it saved of the
\* unstaged changes is back.
ProcessesDropEarly(c) ==
    CASE c.op = "CreateStash" /\ c.mode = "Staged" ->
            IF oldGit THEN <<"keepIndex", "push", "show", "dropOlder">>
            ELSE <<"saveStaged", "removeStaged">>
      [] c.op = "CreateStash" /\ c.mode = "Unstaged" ->
            IF Staged(work) # {} THEN <<"commit", "pushOrUndo", "undo">> ELSE <<"push">>
      [] c.op = "RenameStash" -> <<"revParse", "drop", "store">>
      [] c.op = "DiscardFile" -> <<"known", "discard">>
      [] c.op = "NukeWorkingTree" -> <<"reset", "clean">>
      [] OTHER -> <<"all">>

Processes(c) ==
    CASE c.op = "CreateStash" /\ c.mode = "Staged" ->
            IF oldGit THEN LegacyStaged ELSE <<"saveStaged", "removeStaged">>
      [] c.op = "CreateStash" /\ c.mode = "Unstaged" ->
            IF Staged(work) # {} THEN <<"commit", "pushOrUndo", "undo">> ELSE <<"push">>
      [] c.op = "RenameStash" -> <<"revParse", "drop", "store">>
      [] c.op = "DiscardFile" -> <<"known", "discard">>
      [] c.op = "NukeWorkingTree" -> <<"reset", "clean">>
      [] OTHER -> <<"all">>

SingleProcess(w, c) ==
    CASE c.op = "StageSelection" -> StageSelection(w)
      [] c.op = "UnstageSelection" -> UnstageSelection(w)
      [] c.op = "StageFile" -> StageFile(w, c.f)
      [] c.op = "UnstageFile" -> UnstageFile(w, c.f)
      [] c.op = "StageLines" -> StageLines(w, c.lines)
      [] c.op = "UnstageLines" -> UnstageLines(w, c.lines)
      [] c.op = "CommitStaged" -> Commit(w)
      [] c.op = "AmendHead" -> AmendHead(w)
      [] c.op = "CheckoutCommitFile" -> CheckoutCommitFile(w, c.n, c.f)
      [] c.op = "ApplyStash" -> StashApply(w, c.k)
      [] c.op = "PopStash" -> StashPop(w, c.k)
      [] c.op = "DropStash" -> StashDrop(w, c.k)
      [] c.op = "CreateBranchFromStash" -> StashBranch(w, c.k)
      [] c.op = "CreateStash" ->
            CASE c.mode = "Tracked" -> StashPush(w)
              [] c.mode = "KeepIndex" -> StashKeepIndex(w)
              [] c.mode = "IncludeUntracked" -> StashAll(w)

\* Mutant: such files are left in the index.
AddedDeletedIgnored(w) == {}

\* The files cleanup_staged_added_deleted_entries finds: added, and deleted again.
AddedDeleted(w) == (w.index \intersect NewFiles) \ (HeadTree(w) \union w.tree)

Outcomes ==
    LET w == work
    IN  CASE Head(job.left) = "keepIndex" -> StashKeepIndex(w)
          [] Head(job.left) \in {"push", "pushOrUndo"} -> StashPush(w)
          [] Head(job.left) = "applyOlder" -> StashApply(w, 2)
          [] Head(job.left) = "show" -> IF w.stash = <<>> THEN {} ELSE {w}
          [] Head(job.left) = "unapply" -> Unapply(w, job.plan)
          [] Head(job.left) = "dropOlder" -> StashDrop(w, 2)
          [] Head(job.left) \in {"begin", "status", "known"} -> {w}
          [] Head(job.left) = "unstage" -> {[w EXCEPT !.index = @ \ job.plan]}
          [] Head(job.left) = "saveStaged" -> SaveStaged(w)
          [] Head(job.left) = "removeStaged" -> RemoveStaged(w, job.plan)
          [] Head(job.left) = "commit" -> Commit(w)
          [] Head(job.left) = "undo" -> UndoCommit(w)
          [] Head(job.left) = "revParse" -> IF job.c.k > Len(w.stash) THEN {} ELSE {w}
          [] Head(job.left) = "drop" -> StashDrop(w, job.c.k)
          [] Head(job.left) = "store" -> StashStore(w, job.plan)
          [] Head(job.left) = "discard" -> DiscardFile(w, job.c.f, job.plan)
          [] Head(job.left) = "reset" -> ResetHard(w)
          [] Head(job.left) = "clean" -> Clean(w)
          [] Head(job.left) = "all" -> SingleProcess(w, job.c)

\* What a process finds out for those after it.
Plan ==
    CASE Head(job.left) = "show" -> Patch(work.stash[1])
      [] Head(job.left) = "saveStaged" -> work.index \ HeadTree(work)
      [] Head(job.left) = "status" -> AddedDeleted(work)
      [] Head(job.left) = "revParse" -> work.stash[job.c.k]
      [] Head(job.left) = "known" -> KnownFrom(work, job.c.f)
      [] OTHER -> job.plan

\* The command returns, and the reducer asks for the detail.
Ends == job' = None /\ stale' = TRUE

Begin ==
    /\ job # None /\ job.left = <<"begin">>
    /\ job' = [job EXCEPT !.left = Processes(job.c)]
    /\ UNCHANGED <<work, oldGit, detail, modal, stale, counters>>

Process ==
    /\ job # None /\ job.left # <<"begin">>
    /\ work' \in Outcomes
    /\ IF Len(job.left) = 1 THEN Ends
       ELSE /\ job' = [job EXCEPT !.left = Tail(@), !.plan = Plan]
            /\ UNCHANGED stale
    /\ UNCHANGED <<oldGit, detail, modal, counters>>

\* Mutant: a push that fails leaves the temporary commit where it is.
FailsWithoutUndo ==
    /\ job # None /\ job.left # <<"begin">>
    /\ \/ Outcomes = {} /\ UNCHANGED faults
       \/ faults < MaxFaults /\ faults' = faults + 1
    /\ Ends
    /\ UNCHANGED <<work, oldGit, detail, modal, inputs, outside>>

\* The first process that fails ends the command; only a push on top of the
\* temporary commit has something to undo, and whether that works is ignored.
Fails ==
    /\ job # None /\ job.left # <<"begin">>
    /\ \/ Outcomes = {} /\ UNCHANGED faults
       \/ faults < MaxFaults /\ faults' = faults + 1
    /\ IF Head(job.left) = "pushOrUndo"
       THEN /\ job' = [job EXCEPT !.left = <<"undo">>, !.undone = TRUE]
            /\ UNCHANGED stale
       ELSE Ends
    /\ UNCHANGED <<work, oldGit, detail, modal, inputs, outside>>

\* WorkerEvent::RepoDetailLoaded
LoadRepoDetail ==
    /\ stale
    /\ detail' = Detail(work)
    /\ stale' = FALSE
    /\ UNCHANGED <<work, oldGit, modal, job, counters>>

\* A timer or the watcher has the detail loaded again while nothing runs; a
\* modal keeps what it was opened for.
Refresh ==
    /\ Idle /\ detail # Detail(work)
    /\ detail' = Detail(work)
    /\ UNCHANGED <<work, oldGit, modal, job, stale, counters>>

(***************************************************************************)
(* Everybody else.                                                         *)
(***************************************************************************)
Acts(w) ==
    UNION {{[w EXCEPT !.tree = @ \union {e}] : e \in IF "edit" \in OutsideActs THEN Edits ELSE {}},
           IF "stash" \in OutsideActs THEN StashPush(w) ELSE {},
           IF "add" \in OutsideActs THEN UNION {StageFile(w, f) : f \in Files} ELSE {},
           IF "reset" \in OutsideActs THEN UnstageSelection(w) ELSE {},
           IF "commit" \in OutsideActs THEN Commit(w) ELSE {}}

Outside ==
    /\ outside < MaxOutside
    /\ outside' = outside + 1
    /\ work' \in Acts(work) \ {work}
    /\ job' = IF job = None THEN None ELSE [job EXCEPT !.alone = FALSE]
    /\ UNCHANGED <<oldGit, detail, modal, stale, inputs, faults>>

(***************************************************************************)
(* Next.                                                                   *)
(***************************************************************************)
User == Ask \/ Request \/ Submit \/ Cancel
Command == Begin \/ Process \/ Fails
Next == User \/ Command \/ LoadRepoDetail \/ Refresh \/ Outside

Spec == Init /\ [][Next]_vars

(***************************************************************************)
(* Properties.                                                             *)
(***************************************************************************)
\* What one step takes out of the working copy and the index.
Lost == Kept(work) \ (Kept(work') \union work'.index)

\* Whichever process fails and whatever others do between two of them, a command
\* takes away only what it is for, of the file it names: discarding a file or
\* checking it out takes no other with it, amending takes only what is staged
\* for removal. It does not say who was asked: a checkout of a file asks nobody.
\* Three take more. Renaming has the entry nowhere between dropping and storing
\* it. Only if others interfere, stashing what is staged with an old git drops
\* the entry they have moved to the position it counts on, and taking back the
\* temporary commit drops what only the index had before and they took out of it.
LosesOnlyWhatItIsFor ==
    [][Lost # {} /\ outside' = outside =>
         /\ job # None
         /\ \/ job.c.op \in {"DropStash", "NukeWorkingTree"}
            \/ job.c.op \in {"DiscardFile", "CheckoutCommitFile"} /\ FilesOf(Lost) = {job.c.f}
            \/ job.c.op = "RenameStash" /\ Head(job.left) = "drop"
            \/ Head(job.left) = "dropOlder" /\ ~job.alone
            \/ Head(job.left) = "undo" /\ ~job.alone
               /\ Lost \subseteq job.before.index \ Kept(job.before)
            \/ job.c.op = "AmendHead" /\ Lost \subseteq HeadTree(work) \ work.index]_vars

\* What a stash of each mode is for: from w it leads to v.
Promised(mode, w, v) ==
    LET saved == CASE mode \in {"Tracked", "KeepIndex", "IncludeUntracked"} -> Tracked(w) \ HeadTree(w)
                   [] mode = "Staged" -> Staged(w)
                   [] mode = "Unstaged" -> Tracked(w) \ w.index
        left == CASE mode \in {"Tracked", "IncludeUntracked"} -> HeadTree(w)
                  [] mode \in {"KeepIndex", "Unstaged"} -> w.index
                  [] mode = "Staged" -> Tracked(w) \ Staged(w)
    IN  /\ Len(v.stash) = Len(w.stash) + 1 /\ Tail(v.stash) = w.stash
        /\ Patch(Head(v.stash)) = saved
        /\ Head(v.stash).untracked = IF mode = "IncludeUntracked" THEN Untracked(w) ELSE {}
        /\ v.log = w.log
        /\ v.index = IF mode \in {"KeepIndex", "Unstaged"} THEN w.index ELSE HeadTree(w)
        /\ v.tree = left \union (Untracked(w) \ Head(v.stash).untracked)

\* Renaming moves the entry to the top, and changes no other (the model does not
\* tell two entries with the same contents apart).
Renamed(k, w, v) == Head(v.stash) = w.stash[k] /\ ToSet(v.stash) = ToSet(w.stash)

\* Nothing that is committed has been taken out again: the promises are about
\* what was added.
Plain(w) == HeadTree(w) \subseteq w.index /\ HeadTree(w) \subseteq w.tree

\* A stash that reports success, of changes that were still there when it began,
\* has saved exactly the changes of its mode, in one entry, and left all others
\* where they were; an entry that is renamed is still there: also what is put
\* together from several git processes does what it is for when left alone.
KeepsPromise ==
    [][/\ job # None /\ job' = None /\ faults' = faults
       /\ job.alone /\ ~job.undone /\ Outcomes # {}
       => /\ job.c.op = "CreateStash" /\ Plain(job.before)
                     /\ Available(Detail(job.before), job.c.mode)
                => Promised(job.c.mode, job.before, work')
          /\ job.c.op = "RenameStash" => Renamed(job.c.k, job.before, work')]_vars

\* A stash leaves the commits alone: the temporary one of the unstaged mode is
\* gone when the command ends, also when the stash failed, unless it is its
\* removal that fails.
CommitsAlone ==
    [][/\ job # None /\ job' = None
       /\ job.c.op = "CreateStash" /\ job.alone
       /\ ~(Head(job.left) = "undo" /\ faults' # faults)
       => work'.log = job.before.log]_vars
=============================================================================
