# A TLA+ model of super_lazygit_rust

super_lazygit (`slg`) is a terminal git client for many repositories at once: a
workspace list with a summary of every repository under a root, and a
repository mode for one of them, with panes for its files, branches, commits,
stashes, remotes and so on. This directory holds TLA+ modules for the parts of
it whose behaviour depends on the order of events, on what other programs do in
the same repository meanwhile, or on arithmetic that a test hardly covers; TLC
configurations that check them on small instances; and TLAPS proofs that hold
for every instance. Paths are relative to the repository root, and lines are
those of `crates/core/src/reducer.rs` (RD), `crates/git/src/lib.rs` (GT),
`crates/tui/src/lib.rs` (TU), `crates/app/src/runtime.rs` (RT) where a letter
pair stands for the file.

## The system

| component | code | state | operations |
|---|---|---|---|
| Event loop | `crates/app/src/runtime.rs` | the event queue of the current `run()`, `watcher_debounce_scheduled`, the worker threads of the current refresh | `bootstrap`, `run`, `apply_effects`, `configure_watcher`, `drain_watcher_events`, `refresh_repo_summaries` |
| Reducer | `crates/core/src/reducer.rs` | none: `reduce(state, event)` gives the next `AppState` and a list of effects | one handler per `Event` |
| Application state | `crates/core/src/state.rs` | workspace (repositories, summaries, scan status, watcher health, pending invalidations), repository mode (detail, selections, filters, pending flows), jobs, modal stack | |
| Registry and cache | `crates/workspace/src/lib.rs` | paths of repositories; the cache file | `load_cache`, `persist_cache`, `register_*` |
| Watcher backend | `crates/app/src/watcher.rs` | registrations, undelivered events | `configure`, `drain` |
| Terminal loop | `crates/app/src/terminal.rs`, `main.rs` | three timers | waits 50 ms for input, calls `run()` for it and for the timers that are due |
| Git facade | `crates/git/src/lib.rs` | none kept: it is in the repository | reads summaries and details, runs commands as one or several git processes |
| User interface | `crates/tui/src/lib.rs` | caches of the layout | draws the state, turns keys and clicks into actions |
| Configuration | `crates/config/src/*.rs` | read once | |
| Ported lazygit packages | most of `crates/app/src/*/` | | compiled, not reached from `main.rs` |

Everything happens on one thread except the summary workers and the readers of
a child's output. The terminal loop calls `run(events)`; `run` pops an event,
gives it to the reducer, applies the effects **synchronously** (a scan, a git
command or a batch of summary reads ends before the next event is dispatched),
appends the follow-up events they produce, then whatever the watcher reported
meanwhile, and stops when the queue is empty. A debounced flush of watcher
invalidations is pushed when the queue would otherwise be empty.

A command of the user goes through the same loop: a key becomes an action (TU),
the action becomes a confirmation, a prompt, a menu or a job (RD), the job
becomes git processes (GT), and its end becomes events that reload the detail
the next key is about. Other programs work in the same repository all the time.

What is hard about it:

* the decision to flush invalidations is split between a flag in the reducer's
  state and a flag in the runtime, set and cleared in different steps;
* what an effect read is applied many events later, behind events that were
  queued before it and ahead of watcher events that report newer changes;
* "fresh", "live" and "scanning" are claims about a world that changes between
  any two steps, and some of them outlive the process in the cache file;
* follow-ups cause follow-ups: nothing but the handlers keeps `run` finite;
* a command of several git processes may fail, or be overtaken, between two of
  them, and names stash entries, lines and todo items by their position;
* what is confirmed was looked up before the question, and is not looked up
  again after the answer;
* what a command acts on is found by the reducer, what the screen marks is found
  by the terminal, from the same indices, filters and orders, in separate code;
* lines of a diff are selected by number in one diff and staged from another;
* the process may be killed anywhere.

What makes each component correct, in a line: the loop returns and leaves
nothing half done; the reducer never shows an older summary over a newer one,
nor something stale as fresh; the cache holds what was shown; a job starts, then
ends; a key acts on what is marked and does what it is called; nothing the user
or somebody else has made is lost unless the user has confirmed it; what fails
leaves what it found, or something the user can see and undo.

## Modules

Every component has a module whose variables are its state and whose actions are
its operations; the modules with a git repository rest on a second one that
holds, as operators without state, what git does. An `MC` module gives each its
small instance.

| module | models | rests on | instance |
|---|---|---|---|
| `WorkspaceRuntime` | event loop, workspace half of the reducer, cache, watcher, timers | | `MCWorkspaceRuntime` |
| `SummaryRefreshPool` | the threads and the channel of one refresh | `SummaryBatch`, which it implements | `MCSummaryRefreshPool` |
| `ModalFocus` | key routing, modes, panes, modals | | `MCModalFocus` |
| `RemoteFlow` | branches and remotes, the flow of an added remote | `GitRefs` | `MCRemoteFlow` |
| `WorkingCopy` | staging, committing, stashing, discarding | `GitWorkTree` | `MCWorkingCopy` |
| `HistoryRewrite` | rebase, cherry-pick, revert, reset, checkout, bisect | `GitHistory` | `MCHistoryRewrite` |
| `ListSelection` | the lists and file panes of repository mode | `StatusTree` | `MCListSelection` |
| `PatchStaging` | staging hunks and lines | `GitPatch` | `MCPatchStaging` |

### `WorkspaceRuntime`

* **Data.** The contents of a repository are a version (`disk[r]`); a summary
  is the version read, its freshness and whether the last refresh failed.
  `present` is the set of repositories under the root. Events and effects are
  records with a `kind`, and keep the names they have in the code.
* **Reducer.** `ReduceX(e)` is the handler of event `X`: it gives the next
  state and `effects'`, the list of effects in the order the handler pushes
  them. `Reduce` is their disjunction.
* **Loop.** `Dispatch` pops an event and reduces it. `ApplyEffect` is one
  effect (or one worker's start or answer, for a refresh). `EndIteration`
  appends follow-ups, then drained watcher events, then possibly the flush.
  `phase` says which of them is next; `idle` is the terminal loop waiting for
  input between two calls of `run`, `down` is no process at all.
* **Process.** `Boot` is `bootstrap` followed by the `RefreshVisibleRepos`
  that `main` dispatches; `UserInput` and `Tick` are calls of `run`; `Stop`
  ends the process in any phase, even in the middle of writing the cache.
* **Environment.** Repositories change, appear and disappear at any moment.
* **Watcher.** `watcher.backend` is the backend the process was built with, one of
  `Backends`. `NullWatcherBackend` ("null"), which `main.rs` installs, takes every
  registration, so that the program calls itself healthy, and never reports a
  change. A "reporting" one reports every change of what it watches, may refuse a
  registration, fail and recover: `ScriptedWatcherBackend` of the tests emits
  all of these events, and they are what the reducer is written for. Both are
  behaviours of `loop`. What is true of any backend is stated for any; what is
  shown as fresh is stated for one that reports (`Reporting` is a conjunct of the
  property), since of a silent one it is false: see the observations.

Abstractions. The list of repositories is a set: sorting, filtering and
searching do not influence what is refreshed, only in which order, and the one
order that matters (the repository in repository mode first in a flush) is
kept. Repository ids are canonical. A cache document for another root or
schema is the same as none, as `load_cache` returns `None` for both; its age is
a choice. The git, patch and shell commands of repository mode have one shape,
`GitAction`: a queued job and the effect that runs it. The one that has no
effect, the detaching of a worktree (RD 3228), is `DetachSelectedWorktree`. A worker's read is placed where its answer is received: between
the two nothing happens but reads and answers of other workers. Notifications,
rendering and diagnostics are left out.

### `SummaryBatch` and `SummaryRefreshPool`

One `RefreshRepoSummaries` effect. `SummaryBatch` is what the event loop may
rely on: the log of follow-up events, with jobs started and answered.
`SummaryRefreshPool` is how `refresh_repo_summaries` does it: the main thread's
loops (`pc`, `taken` for what was popped from `pending`, `activeWorkers`), a thread per
job (`worker`, `read`), and the `channel`. `Batch` is the refinement mapping: the
log is `follow_up_events`, and the batch has returned when the main thread has.
`asked` is a history variable in both, the version a repository had when its job
was started. `WorkspaceRuntime` models the same effect with the read placed at
the receipt of the answer, which is one of the behaviours of `SummaryBatch`; a
change between a read and its receipt is seen there as a change after both, and
nothing but the loop itself, standing still meanwhile, could tell them apart.
`Stuck` are the jobs whose read hangs or panics.

### `ModalFocus`

Which handler the next key or click reaches, and what it makes of modes,
panes, filters, commit box and modals: the key and mouse routing of
`crates/tui/src/lib.rs` and the reducer's handlers of the actions it yields.

* **State.** `ui` is the part of `AppState` that decides where a key goes, with
  the names of the code (`parents` is the length of `parent_repo_ids`,
  `contexts` the `return_context_stack`, `confirmation`, `menu` and `prompt` what
  is pending for a modal, of which the return focus and the kind are kept).
  `asked` is a lookup (is the branch merged? what is the message? which commit
  does the fixup belong to?) whose answer will open a modal.
* **Handlers** are operators from an interface to the next one, since they call
  each other: `SubmitMenu` ends in `OpenPrompt`, `CloseTopModal` in
  `RestoreContext`. Where the outcome depends on what is selected, listed or
  typed, they give the set of outcomes.
* **Actions** are inputs. `KeyEsc` is the key with a meaning in every state; the
  others are the keys of the top modal, the commit box, the search, the filter,
  the panes. One input is handled to the end, effects and follow-ups included,
  before the next is read, so a lookup blocks inputs. `DetailLoaded` may come
  at any moment, from a timer or the watcher.

Abstractions. Prompts are of three kinds: those that run a command, those that
open a second prompt, those whose text must parse. Menus are of four kinds, by
what a submission may lead to. The attach registry of the mouse is empty, as in
`main.rs`.

### `GitRefs` and `RemoteFlow`

Branches, remotes, and the one flow that goes on by itself: a remote is added,
then fetched when the next detail is loaded, then a branch that tracks the one
asked for is made when the fetch is over (`pending_remote_flow`).

A ref is the set of commits it reaches, so that "is an ancestor of" is
inclusion and a merge is a union. A repository has its branches, its tracking
refs, upstreams, the address of each remote, and the servers behind the
addresses. `RemoteFlow` has the queue and the effects of one `run()`, in the
order of the code: a command's processes one by one (`fetch` is the fetch
itself, the reading of what may be moved forward, and the `update-ref` script),
the reload that follows it, the events both leave. Somebody else commits,
fetches or pushes between any two steps; a git process fails where
`MaxFaults` allows.

### `GitWorkTree` and `WorkingCopy`

Staging, unstaging, committing, amending, the stash in each of its modes, its
renaming, branching from it, discarding a file, nuking the working tree,
checking out a file from a commit. The unit is an *edit*: one hunk of a file or
a whole new file. HEAD, the index, the tree and a stash entry are sets of edits;
what must not be lost is an edit. `job.left` is what is left of a command, a git
process per step, and `undo` the reset that takes back the temporary commit of
"stash what is not staged", also when the stash itself failed. Both generations of git are there: with `stash push --staged`, and
before 2.35 where four processes stand for it.

### `GitHistory` and `HistoryRewrite`

A change is what a commit adds to and takes from its parent, its subject, its
author and whether it is a "fixup!"; a commit is the sequence of changes from
the root to it, as its hash says. A repository has HEAD, on a branch or
detached, two branches, the index, the tree, a reflog, the rebase, cherry-pick
or revert that has stopped, and a bisect.

`HistoryRewrite` has every command on a selected commit: edit, drop, squash,
reword, move, fix up, create a fixup, apply fixups, amend attributes, revert, copy
and paste, the three resets, checkout; on a reflog entry: restore a snapshot; on
the other branch: checkout, forced checkout, rebase onto it; continue, skip and
abort; and bisect: start, mark, skip, reset. The list a commit is picked from is one of `Views`,
since the code lets a commit be picked from a history that is not HEAD's. The
scripted rebase is what `run_scripted_rebase` makes of it: a base some commits
back, a todo list written by git, and a sed-like edit of one of its lines.
Commits that become empty or conflict stop it as they stop git.

### `StatusTree` and `ListSelection`

The eleven lists of repository mode, with filter, order and selection, and the
two file panes with their tree of directories. `repo_mode` is the part of
`RepoModeState` that says which entry is selected; a load replaces the lists by
what the repository holds then, and repositories go through a few versions.
There are two views: `Target` and `SelectedEntry` are what the reducer's
`selected_*_item` finds for a command, `UnderCursor` and `MarkedEntry` the entry of
the row the terminal's `*_lines` draw the cursor on, and `Highlighted` the entry
that the words of that row are about. The last two differ for commits, whose rows are
counted in the filtered list and worded from the whole one. Histories replace each other in one
list: HEAD's, a branch's, the graph, the reflog's, with a target commit to open
at. `StatusTree` builds the rows: chains of single directories are joined,
collapsed ones hide what is beneath them, and the filter comes before both.

### `GitPatch` and `PatchStaging`

Staging and unstaging of a hunk or a range of lines. `GitPatch` is `git diff`
(with and without context), the parser's hunks, the transformation of header
and body for what is selected, and `git apply` in both directions. A file is a
sequence of lines. `PatchStaging` is what surrounds them: the diff on the
screen, a cursor and an anchor in it, the job with its line numbers, and its two
processes, `git diff -U0` and `git apply --cached`, with other programs saving,
staging or unstaging the file before, between and after.

### Proof modules

`WorkspaceRuntimeProofs`, `ModalFocusProofs`, `RemoteFlowProofs`,
`WorkingCopyProofs`, `HistoryRewriteProofs` and `ListSelectionProofs` extend the
module they are named for, the first `SummaryRefreshPool` as well, whose
specification is therefore `PoolSpec` and its invariant `PoolInv`; and
`RewritesAsAskedProofs` extends `HistoryRewriteProofs`. See below. `Induction` has
induction over the numbers and what a fold of a sequence makes of one more
element, for a property and a step of one's own; the last three take instances of
it, and prove what it rests on (`WellOrdered`) from the library.

## Runs

| run | module | what it asks | bounds |
|---|---|---|---|
| `loop` | `WorkspaceRuntime` | With every input and fault, under a backend that reports and under the silent one: `TypeOK`, with no more workers than the limit; is nothing left running or pending when `run` has returned, but the detaching of a worktree (`SettledWhenIdle`); does a job start before it ends and end once (`JobLifecycle`); does a summary ever go back (`SummariesNeverGoBack`)? | one environment step, fault or crash; one worker |
| `liveness` | `WorkspaceRuntime` | With a backend that reports: do the two debounce flags agree (`DebounceCoupled`); whenever `run` has returned, is what is shown fresh current (`NeverFalselyFresh`), is the detail in repository mode (`DetailCurrentWhenIdle`), does the cache hold what is shown (`CacheMatchesWhenIdle`)? Does `run` return (`RunReturns`), is every change of a watched repository shown (`WatchedChangesShown`), does polling replace a degraded watcher (`DegradedMeansPolled`)? | two changes, moves, crashes, or failing scans, reads or registrations; four workers |
| `modals` | `ModalFocus` | With every key and every gesture: `TypeOK`; is what the top modal is about pending (`ModalAnswerable`), is there one modal at most and do its two ways back agree (`ReturnPathsAgree`), does only a double click beneath a modal take the focus out of the panes of the mode (`FocusFitsMode`), does esc back out of everything (`EscBacksOut`)? | six subviews, one nested submodule, two return contexts |
| `pool` | `SummaryRefreshPool` | Do the threads and the channel implement the batch (`ImplementsBatch`)? Is every slot used (`PoolIsFull`), does the effect end (`Returns`)? | three repositories, two workers, one change per repository, any read may fail |
| `remotes` | `RemoteFlow` | `TypeOK`; does the flow of an added remote end where it should whatever fails (`FlowCompletes`), are branches only moved forward (`OnlyForwards`), is a commit of the user lost otherwise than with the branch that is deleted (`OnlyDeletionLosesWork`), is one of a server lost unconfirmed (`KeepsOthersWork`), does `run` return (`RunReturns`)? | three repositories, two requests, one act of somebody else, one failing process |
| `remote_loop` | `RemoteFlow` | `RunReturns` when the server of the added remote does not answer. **No.** | one request |
| `unasked_deletion` | `RemoteFlow` | `KeepsWork`: is no commit of a local branch lost that nobody was asked about? **No.** | one request, nobody else, no failure |
| `working_copy` | `WorkingCopy` | Does a command ever take away an edit it is not for, or of another file (`LosesOnlyWhatItIsFor`)? Does a stash that reports success hold what its mode says, once, and leave the rest (`KeepsPromise`)? Is the temporary commit gone when a stash ends (`CommitsAlone`)? | three working copies, with the new git and the old, two requests, two acts of others, one failing process |
| `history` | `HistoryRewrite` | `TypeOK`; does every command that reports success do what it is called, to that commit, and nothing else (`RewritesAsAsked`)? Is an edit lost that no commit has (`LosesOnlyConfirmed`)? Does one that fails leave HEAD and the branches, or something to abort (`FailsWithoutTrace`)? | six repositories, one in a rebase, one in a bisect, two requests, one act of others, one failing process |
| `lists` | `ListSelection` | Does a command act on the marked entry (`ActsOnTheMarked`, `PromptsForTheMarked`)? Does the tree show every file once, at its place (`TreeShowsTheFiles`)? Does a step go to the next row (`StepsToTheNextRow`), a history open at its target (`OpensAtTheEntry`)? | seven repositories of two or three versions, nine entries, one query beside the empty one |
| `patches` | `PatchStaging` | `TypeOK`, with cursor and anchor in the selected hunk; do exactly the selected lines move (`MovesTheSelected`); with a screen however old, does staging only bring the index nearer to the working tree (`StagesAPart`)? | eleven files of up to five lines, two jobs, two acts of others |
| `unstage_elsewhere` | `PatchStaging` | `UnstagesTheSelected`: the same for unstaging, whatever stays staged above. **No.** | the same, alone |

Why the bounds are enough.

* The runs of `WorkspaceRuntime` have two repositories, so that one can overtake
  the other. `WorkerLimit` is the code's 4 in `liveness`, where a batch of two is
  fully parallel; it is 1 in `loop`, where a batch of two meets the limit, and
  `pool` has both at once. `MaxEnv` bounds the changes, moves, faults and crashes of a
  behaviour; inputs and ticks are unbounded, and versions are bounded by the
  changes. Two steps are a change before, during or after a refresh of either
  repository with a fault before or behind it. Three are not run: a crash, a scan that
  fails after it and a change it then misses are left to the theorem
  `DetailCurrentHolds`, which has no bound. The safety properties of both runs are
  theorems for every limit and number of steps. `Inputs` and `Faults` split the
  product of inputs and faults into instances TLC finishes, each with the events
  its question is about. The repositories are interchangeable: `loop` uses that
  symmetry, `liveness` does not.
* `modals` has one subview without a filter (`Compare`), one whose detail enters
  a repository with a parent (`Submodules`) and one without (`Worktrees`), the
  one a rebase brings (`Rebase`), the one it leaves for (`Commits`) and the one
  esc treats on its own (`Status`); filters that are cleared and filters that
  are not are among them, and the others behave like one of these. The return
  contexts a submission leaves on the stack are only ever covered, so two of
  them are one more than any handler looks at.
* `pool` has one repository more than workers, so that a slot is given back and
  taken again in every behaviour; one change of a repository tells a read before
  it from a read after it.
* `remotes` has a clone nothing was fetched into since, with a commit of its
  own; a repository made here whose two branches have parted; and one with a
  fork beside its origin. Two remotes and two branches are what it takes to
  confuse one with the other. A second request meets what the first has left,
  in the flow of a remote as in the branch it made.
* `working_copy` has a file with two edits, of which one may be staged, a new
  file, staged or not, and a stash with or without an entry: each mode of the
  stash has something to take and something to leave. Two acts of others are
  needed, as one that moves the stash is harmless until another commits or
  overwrites.
* `history` has three commits on HEAD, one more on the other branch; in the six
  repositories the last commit depends on the one before, is a fixup of the
  first, takes out what the second adds, is followed by changes that are not
  committed, or is what a rebase or a bisect has stopped at. Dropping, moving and
  squashing then meet a conflict, an empty commit and an independent one.
  The second request is what a stopped rebase needs: continue, skip or abort.
* `lists` has a repository for each kind of list, whose next version adds,
  removes and moves entries; the queries match some of them.
* `patches` begins with files where lines are added, removed and replaced,
  adjacent and apart, at the beginning and at the end; an empty file and a
  deleted one; and two jobs, so that the second meets the diff the first has
  left. With one line of context, hunks join and stay apart within five lines.

Deadlock is checked except in `pool`, `remotes`, `working_copy` and `history` (and
`remote_loop` and `unasked_deletion`), which end: the effect returns, or the requests are used up.

Fairness. In the pool, the operating system runs every thread: `WF` of each. In
the runtime, the loop never blocks while it has work: `WF` of its steps; the
terminal loop serves a due timer after every poll, whatever the user does, and
timers fall due again and again: `SF` of the ticks, since `idle` comes and goes.
In `RemoteFlow`, `run` is a loop in one thread and git processes end, well or not:
`WF` of commands, loads and reducer together. Reads are not assumed to succeed,
the environment need not move, and nobody need start the program.

### What the runs of the code show against its documents

* **A server that does not answer keeps the program busy for ever**
  (`remote_loop`). The flow of an added remote stays pending when the fetch
  fails (RD 3730), and the detail loaded after the failure asks for the fetch
  again. `PLAN.md:375` says that the UI must stay responsive during git
  commands.
* **The main branch is deleted without a question** (`unasked_deletion`). A branch
  found merged is deleted by force, unasked (RD 3881); the check compares the main
  branch with itself (GT 3285), so that with another branch checked out, `d` on it
  loses what only it has. `docs/KEYBINDINGS.md:172` says that `d` opens the
  delete-branch confirmation, `PLAN.md:426` that destructive actions require one.
* **Unstaging puts a line back at another place** (`unstage_elsewhere`). The
  headers of the patch count only the selected lines (GT 7320), which is right
  for a patch that is applied forwards. Applied in reverse, staged lines further up
  that are not selected have already moved the text, and git, told not to look
  at context, does not notice. `MovesTheSelected` holds when the lines that stay
  staged above add as many as they remove. `docs/KEYBINDINGS.md:139` promises the
  selected hunk.

One more contradiction has no run of its own. Checking out a file from a commit
(`CheckoutSelectedCommitFile`, RD 685, GT 1480) overwrites what is not committed of it
and asks nobody, where `PLAN.md:384` and `:426` want destructive actions
confirmed. It is one step of one actor: `CheckoutCommitFile` of `WorkingCopy`
does it, and `LosesOnlyWhatItIsFor`, which says what each command may take away and
not who was asked, allows it to lose edits of that file and of no other.

## Observations

Met while modelling; no run has them as its question, since no document says
otherwise. Where the property of a run would be false because of one, its text
names the case.

History.

* A branch can be checked out, and forced, while a rebase has stopped, since
  only commands on a commit are blocked (RD 2504, 9011). *Continue* then puts the
  rest of the todo list on the other branch, moves the branch that was being
  rebased there, without the commits replayed already, and reports success.
  `MeantOf` leaves this case out of `RewritesAsAsked`.
* `MarkBisect` takes `BISECT_EXPECTED_REV` for the current commit, which git
  records before it checks the commit out. After a checkout that was refused
  because of local changes, or after the user has checked out another commit, the
  commit marked is not the one in the working tree (RD 9641, GT 6771).
* A scripted rebase from a list that is not HEAD's finds no todo line to edit, but
  still rebases HEAD's branch onto the parent of the foreign commit and
  reports success (GT 4425). `RewritesAsAsked` is about commits of HEAD's
  history. Amending attributes there rewrites HEAD and fails afterwards.
* A fixup with unstaged changes leaves its "fixup!" commit when the rebase is
  refused. A copied range is pasted in reverse order (RD 847). Restoring a reflog
  snapshot is refused when the tree is dirty, but looks before the question
  only (RD 9481), and names its target by position. A cherry-pick or revert that
  conflicts has neither continue nor abort in the interface, and what pasting makes of
  the copied commits has no postcondition in `MeantOf`. Starting a bisect is
  two processes; a failing second leaves it started, visibly.

Working copy.

* A confirmation about `stash@{n}` keeps the position, not the entry. Renaming
  loses the entry if `stash store` fails, and drops another's if somebody stashes
  in between.
* Stashing what is not staged makes a temporary commit and takes it back by a reset.
  If others have changed the index in between, what only the index has is lost.
* With git before 2.35, stashing what is staged with nothing staged works on an
  older entry, and two stashes of others in between can lose an edit. With a
  newer git, `stash push --staged` saves and then fails for a file that is added and
  deleted. Nuking is several processes, of which the first may be the only one.

Remotes.

* A branch whose upstream is gone is pushed to the first remote git lists
  (GT 2196). Editing a remote is two processes, of which the first may be the only one.
* What others do between the check that a branch is merged and its deletion, or
  between the comparison of a fetch and its `update-ref` script, can cost a commit
  that was safe when the program looked; `OnlyDeletionLosesWork` names both.

Lists.

* A selection is an index: a reload that shifts the list shifts what is marked,
  and what is acted on with it. Stashes are filtered by the file whose diff is
  shown (GT 1041, 5984), so any move in the file panes may do that. The filter compares
  the beginnings of paths; `Touching` takes paths none of which begins another.
* The diff in the detail pane does not follow the marked file when a directory is
  collapsed, the filter changes, the focus moves or a load removes rows; enter
  then focuses the diff of another file.
* A click below the last row of a side panel selects no row (TU 1680); keys then
  act on the first.
* With a filter on the commits the cursor is drawn at a position among the matches,
  on a row worded from the unfiltered list (TU 9030, `presentation/commits.rs:96`): the
  row that is marked names another commit than the one a key acts on as soon as the
  filter leaves out one further up. `ActsOnTheMarked` names the case
  (`FilteredAbove`). Prompts look their
  entry up in the unfiltered one (TU 3070, 4379), and the click window of the
  detail pane differs from what is drawn (TU 2107).
* A step in the status pane loads HEAD's history over a branch's or the graph
  (RD 8176); so does the end of a rebase that was begun in one.
* In repository mode `r` and `R` refresh the repository selected in the workspace
  (RD 2004), which a background update may have moved to another when the one that is open is
  filtered out; leaving repository mode then marks no row. The score that orders
  the workspace adds up, so that other states together outrank a conflict, which
  `PLAN.md:1682` puts first.

Modals and keys.

* The filters of status, remotes and submodules keep the keys when the focus
  leaves their panel (RD 4573). A prompt that does not parse is popped before it is
  parsed, and stays pending with no modal (RD 5684). A double click enters a
  repository beneath a modal, which then returns to a pane of the workspace
  (TU 1473): the gesture is part of `modals`, and `FocusFitsMode` names it.

Loop.

* The tick announces a scan that nobody starts (RD 4028). A repository that reports
  in every iteration keeps the flush from being pushed (RT 105). One read that
  never ends keeps the whole program waiting (RT 550): `Returns` is checked without.
* The watcher that is installed accepts every registration and never reports
  (`watcher.rs:23`): the program calls itself healthy, does not poll, and shows a
  repository as fresh, and its detail, after they have changed on disk, until a key
  or another event refreshes them. `NeverFalselyFresh`, `DetailCurrentWhenIdle` and
  `WatchedChangesShown` promise nothing for it.
* With a backend that reports: `WatcherRecovered` starts no refresh; the cached
  health outlives the process; a repository moved away and back is not noticed.
  `NeverFalselyFresh` is about a watch that was kept. After a restart from the cache
  whose scan fails, a repository can be entered that nothing watches; the next scan
  watches it, but does not reload its detail (RD 3642), so that a change before it
  is not shown.
* Detaching a worktree enqueues a job without an effect (RD 3228): nothing ever runs
  it, and it stays queued. `SettledWhenIdle` names it.

Patches.

* Lines that begin with "-- " or "++ " are taken for file headers, the marker "\ No
  newline at end of file" shifts the cursor, and a carriage return is lost. A
  new file that is unstaged stays in the index, empty. The diff shown may ignore
  white space, the one staged from does not. A stale screen may stage other
  lines than were selected; `StagesAPart` bounds the harm.

## Proofs

Every theorem holds for every value of the constants that the assumptions in
the modules allow. The assumptions say of what kind a constant is (a bound is a
number, what a program is opened on is a repository, `Needs` is a function on
edits) and that `None` is nothing else; those that say more are justified by the
code or by git: `RefsAssumption` (the main branches are branches, `origin` is a
remote), `EditsAssumption` (a new file is one edit), `SubjectsAssumption` (the
subjects the program itself gives are subjects), `DirOfAssumption` (finitely many
files). TLC evaluates all of them.

`WorkspaceRuntimeProofs` proves, for every finite set of repositories, every
worker limit, configuration, set of inputs and faults and every bound:

* `TypeCorrect`: `Spec => []TypeOK`. `TypeOK` is inductive. Its content is
  that every event queued anywhere has the fields its handler reads.
  `ReduceTypes` is the lemma about the handlers, `ApplyEffectTypes` the one
  about the effects.
* `DebounceFlagsAgree`: `Spec => []DebounceCoupled`. `DebounceCoupled` alone is
  not inductive: it says nothing of a flush event that has been collected but
  not queued, of a second `ScheduleWatcherDebounce` behind the first, or of
  effects left over while the queue is popped. `FlushDiscipline` rules these
  out, and `DebounceInv`, the conjunction with `TypeOK`, is inductive.
* `SettledHolds` and `JobLifecycleHolds`, whatever the inputs, the faults and the
  backend. The invariant `JobInv` is about the
  `Line`: the events the current `run()` has still to dispatch, in their order,
  wherever they wait (queue, follow-ups, effects, workers). Along the line the
  starts and ends of each job take turns (`JobsInTurn`), a job that is queued has
  an effect or a start behind it, or detaches a worktree (`QueuedForReason`), and there is one git command
  at most. When the line is empty, nothing is left to be settled.
* `SummariesNeverGoBackHolds`: the versions along the line rise for each
  repository (`VersionsRise`), from the one shown to the one on disk.
* `CacheMatchesHolds`: as long as no write of the cache has failed, it holds what is
  shown, or a write of it is among the effects (`CacheInv`).
* `NeverFalselyFreshHolds`: while a backend that reports has not lost what it
  watches, of every repository discovered a refresh is on its way, or the last
  thing the line tells of it is how it is now (`FreshInv`).
* `DetailCurrentHolds`, under a backend that reports, until something has happened
  that leaves an old detail behind (`WatchKept`: no watch was lost or refused, no
  detail failed to be read, no repository moved, and no process both crashed and
  missed its scan). The last part is a gap in the code, described above. TLC finds a
  counterexample for each part of the condition that is left out.

The conditions are part of the properties and look at what has happened so far
(`env.suffered`) and at the backend that is installed; the theorems assume nothing
of `Faults`, `Inputs` or `Backends`.

`ModalFocusProofs` proves, for every set of subviews and gestures and every
bound (`ModalAssumption`):

* `InterfaceTyped`: `Spec => []TypeOK`.
* `ModalsAnswerable` and `ModalsReturn`: `ModalAnswerable` and `ReturnPathsAgree`,
  of which at most one modal is a part. Together they are almost inductive
  (`ModalInv`). What is missing is that a lookup is answered only over no modal, or
  it would open a second one, and that a menu belongs to a repository, or the
  subview it moves to would be one of the workspace: `IInv` adds both.
* `FocusFitsHolds`: `FocusFitsMode`, from `IInv`: the focus fits at the start, and each
  step keeps it so or is a repository entered beneath a modal. `DoubleClickStep`
  shows that this double click breaks nothing else.
* `EscLeadsBack`: `[]EscBacksOut`, for repositories nested to any depth. Each press
  of esc leaves less to close (`Left`), and a number of presses is counted by a
  recursive function, so this is an induction, in the form that there is no least
  counterexample.

The argument is about handlers, not actions: `Keeps` says what a handler that
leaves the modals alone promises, `Carries` what every handler promises, and
`CarriesOn` composes them as the handlers call each other. `InputStep` then
lifts a set of outcomes to a step.

About `SummaryRefreshPool`, `WorkspaceRuntimeProofs` proves, for every number of
repositories, every limit and every set of stuck reads (`PoolAssumption`):

* `PoolImplementsBatch`: `PoolSpec => ImplementsBatch`. A step of `Fill` or `Refill` that
  spawns maps to `Start`, `Receive` to `Finish`, `Return` to `Return`, everything else
  to a stutter or a change.
* `SlotsAreUsed`: `PoolIsFull`. `PoolTyped` and `SomebodyAlwaysAnswers` are about
  `PoolTypeOK` and `SomebodyAnswers`, which no run needs to check any more.

The invariant `PoolInv` behind them says where each job is (`ThreadsInv`, `ChannelInv`:
not taken, in its thread, once in the channel, or answered), that `activeWorkers` is the
number of jobs announced and not answered (`SlotsInv`), and what the main thread
knows in each loop (`PhaseInv`). That `Return` answers every job follows only from
all of them: no active worker means no running job, and the recv loop is never
entered with a slot free and a repository pending.

`RemoteFlowProofs` proves, for every set of branches, remotes, servers and
commits and every repository:

* `TypesHold`: `Spec => []TypeOK`, with the shape of what is left of a job, and that
  `run` does one thing at a time (`LittleToDo`).
* `KeepsOthersWorkHolds`, `OnlyForwardsHolds` and `OnlyDeletionHolds`, from what the
  program still knows when it acts (`KInv`): a deletion was confirmed, the branch
  to be deleted was merged when it was asked about, the branches to be moved
  forward are still behind. Branches only move forward until somebody else acts, as
  the property says; what a deletion or the script of a fetch may lose is said
  whatever others do.
* `FlowCompletesHolds`: while a flow is watched it is in one of four phases
  (`Adding`, `Fetching`, `Branching`, `Finished`), and `run` can return only in the
  last.

`WorkingCopyProofs` proves, for every set of edits and files and every working
copy, with the new git and the old:

* `SafeHolds`: what is left of a stash or a renaming relies only on what is there,
  whatever others have done: the commit it takes back is its own, the entry it
  drops is below the one it has stored.
* `LosesHolds`: `LosesOnlyWhatItIsFor`, from `Safe`.
* `OnCourseHolds`: while nobody interferes, the working copy is a function of the one
  the command began with, one for each process (`OnWay`). `PromiseHolds`
  (`KeepsPromise`) and `CommitsHolds` (`CommitsAlone`) follow. What the proof brought
  to light: others who act between the temporary commit and its undoing can lose
  an edit that only the index has; `LosesOnlyWhatItIsFor` names the case.

`HistoryRewriteProofs` and, on top of it, `RewritesAsAskedProofs` (`RewritesHold`)
prove, for every set of edits and dependencies between them, every list and every
repository:

* `TypesHold`: `Spec => []TypeOK`: no command, failing process or other program
  leaves anything but a repository, that is, commits that take away only what is
  there, HEAD in step with its branch and in the reflog, todo lists of commits
  that the reflog has.
* `LosesHold` (`LosesOnlyConfirmed`) and `FailsHold` (`FailsWithoutTrace`).
* `RewritesHold` (`RewritesAsAsked`): a command that reports success has done what it
  is called, for a history of any length, at any commit of it, and whatever the
  commits change: dropped, squashed, reworded, moved, edited, amended, reverted, or
  given its fixups; so has a rebase onto a branch, a checkout, and the end of a bisect
  or of a rebase.

Commits, todo lists, autosquash and cherry-picks are folds over sequences; each has
an instance of `Induction`, and on it one lemma says what is left of a repository
by every git command. The invariant `Inv` is `Typed`, `Waiting` (what a question is
about is still so) and `Running`, where `Stage` says for each process of a command
what the ones before it have made of the repository. The proof found cases the
instances do not reach: a squash into the root, an amendment where there is no
commit, a mixed reset that loses what only the index has. The model or the
property's exceptions name them now.

`RewritesHold` is about what a todo list makes. A rebase that reports success has
run its list to the end or stops where it was asked to (`Led` are the titles that
come of a list, `Lasts` the changes it makes); picking what is above a commit on
another one with the same tree gives the same changes again, so that everything
above the place of a command stays as it was. For `--autosquash` the invariant of the
fold (`Squares`) ties the list so far to the picks it comes from: the same titles
without the fixups, and the same tree. That is so only if a fixup is independent of
each commit it is moved before, those it is moved along with included. The property
used to ask less, and is false then: with a commit that adds `a`, one that removes it
and a fixup of the first that adds it again, the fixup is applied where it does
nothing, and the tree loses `a`; `Movable` says it now. What the command's earlier
processes have left is invariant too (`Courses`): the rebase stopped at the commit
to be amended with the rest of the list still to do (`Paused`), the "fixup!" commit
with exactly what was staged (`Staged`), and a bisect that is ended has begun
(`Fair`).

`ListSelectionProofs` proves, for every set of entries and directories and
every repository and its versions:

* `ActsHolds` (`ActsOnTheMarked`): what the reducer looks up and what the marked
  row stands for agree for any index (`SameEntry`), and the words of the row agree
  with both unless a commit above it is filtered out (`RowSaysIt`), so that no invariant about the index
  is needed for the lists; the panes need that a cursor is on a row.
* `PromptsHold` (`PromptsForTheMarked`): lists a load brings back have their index
  within what they show.
* `TreeHolds` (`TreeShowsTheFiles`). `ShowsFiles` strengthens it to any directory
  of the tree, and says in addition that what is beneath a directory row follows it
  and that siblings keep apart; it is proved by induction over the depth that is
  left, and for joined chains likewise.
* `StepsHold` (`StepsToTheNextRow`) and `OpensHold` (`OpensAtTheEntry`).

The invariant (`InvHolds`) is `Typed`, `InRows` and `InLists` (the cursors are on
what is shown), and `Opening` (what a history was opened for is looked for until
the history is there). A load brings nine lists back one after the other, a fold
again (`SyncFold`). A sorted list is a set in the order of a relation (`Sorted`),
of which `SortedPlaces` says that every member has one place.

Only model-checked:

* liveness (`RunReturns`, `WatchedChangesShown`, `DegradedMeansPolled`, `Returns`):
  the prover does neither fairness nor `ENABLED`;
* what `PatchStaging` is asked (`TypeOK`, `MovesTheSelected`, `StagesAPart`): hunks are
  filtered with `SelectSeq`, of which the prover knows the definition only as a
  function applied to an operator, and has no instance for. The last two, moreover,
  compare the diffs before and after a job, and where lines repeat there may be
  several as short: the files of `patches` have no line twice.

## Not modelled, and why

* **Other commands of a repository:** tags, worktrees, submodules, squash merges,
  git-flow, custom and shell commands, the editor. Each is one git process on
  names and directories the modules above do not have; they hold no state
  between two steps.
* **Merges in a history.** `HistoryRewrite` has sequences of commits; merges occur in
  `RemoteFlow` only, where a ref is a set of commits. Bisecting with chosen terms.
* **The order, search and selection of the workspace list.** `WorkspaceRuntime`
  has the set of repositories: the selection there is a repository and not an
  index, and decides only which one a key is about.
* **Readers and builders of git's output and arguments**, the colours and words of
  every panel, scrolling and the cached layout, configuration and key maps: no
  state that another actor can disturb.
* **The runner that answers a child's prompts** (`terminal.rs:297`): only tests
  call it.
* **Ported packages** (controllers, contexts, merge conflicts, patch explorer,
  commit graph, custom patches, snake): compiled, not reached from `main.rs`, or,
  as the commit graph, only drawn.

The components and their status are in `PROJECT.json`.

## Plan

What would come next, the most important first.

1. Theorems of `PatchStaging`: `TypeOK`, whose lemmas say that the hunks of a diff
   are where their headers say, then `StagesAPart`. They begin with a filter of
   sequences the prover can reason about.
2. The runtime with a watcher that loses and finds what it watches, once there is
   one in the code.
3. The workspace's own list; tags and worktrees in `RemoteFlow`.
