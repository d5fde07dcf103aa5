-------------------------- MODULE WorkspaceRuntime --------------------------
(***************************************************************************)
(* The event loop of super_lazygit_rust: AppRuntime (crates/app/src/       *)
(* runtime.rs) popping events, the reducer's workspace, worker, watcher    *)
(* and timer handlers (crates/core/src/reducer.rs), the effects they ask   *)
(* for, and the workspace cache that survives a restart                    *)
(* (crates/workspace/src/lib.rs).                                          *)
(*                                                                         *)
(* A repository's contents are a version number.  Ordering inside the      *)
(* workspace list, the panes and the modals are the business of other      *)
(* modules: here discovered repositories form a set.                       *)
(***************************************************************************)
EXTENDS Naturals, Sequences, FiniteSets

CONSTANTS
    Repos,        \* the repositories that may exist under the workspace root
    None,         \* no repository, no summary, no cache document
    WorkerLimit,  \* SUMMARY_REFRESH_WORKER_LIMIT
    AutoRefresh,  \* background.auto_refresh of the configuration
    AutoFetch,    \* background.auto_fetch of the configuration
    Inputs,       \* the user's actions and timers a behaviour may contain
    Faults,       \* the faults a behaviour may contain
    Backends,     \* the watcher backends a process may be built with
    MaxEnv        \* bound: steps the environment and the faults may take

InputKinds == {"RefreshVisibleRepos", "RefreshSelectedRepo",
               "RefreshSelectedRepoDeep", "EnterRepoMode", "LeaveRepoMode",
               "GitAction", "DetachSelectedWorktree", "PeriodicRefreshTick",
               "PeriodicFetchTick"}
FaultKinds == {"scan", "read", "detail", "configure", "backend", "persist", "crash",
               "move", "touch"}

\* NullWatcherBackend, the one main.rs installs, takes every registration and
\* reports nothing.  A reporting one is any other backend of the
\* WatcherBackend trait, as ScriptedWatcherBackend is in the tests.
BackendKinds == {"null", "reporting"}

ASSUME RuntimeAssumption ==
    /\ IsFiniteSet(Repos) /\ None \notin Repos
    /\ WorkerLimit \in Nat \ {0}
    /\ AutoRefresh \in BOOLEAN /\ AutoFetch \in BOOLEAN
    /\ Inputs \subseteq InputKinds
    /\ Faults \subseteq FaultKinds
    /\ Backends \subseteq BackendKinds
    /\ MaxEnv \in Nat

VARIABLES
    \* The environment.
    present,    \* repositories now under the workspace root
    disk,       \* disk[r]: the version of r's working tree and refs
    env,        \* the steps it has left (bound), the faults met so far
    \* The watcher backend, reached through the WatcherBackend trait.
    watcher,    \* the backend installed, what it watches, whether it works
    backendQ,   \* events the next drain() returns
    \* AppRuntime.
    phase,      \* where the process is: see Phases
    queue,      \* events of the current run() still to be dispatched
    effects,    \* effects of the dispatched event still to be applied
    followUps,  \* events apply_effects has collected so far
    debounceScheduled,   \* watcher_debounce_scheduled
    \* AppState.
    ws,         \* state.workspace
    jobs,       \* background_jobs
    active,     \* repo_mode.current_repo_id, None in workspace mode
    detail,     \* version shown by repo_mode.detail, 0 when none is loaded
    \* The cache file.
    cache       \* None when absent or unreadable

envVars == <<present, disk, env>>
backendVars == <<watcher, backendQ>>
loopVars == <<phase, queue, effects, followUps, debounceScheduled>>
stateVars == <<ws, jobs, active, detail>>
vars == <<envVars, backendVars, loopVars, stateVars, cache>>

-----------------------------------------------------------------------------
(* Data.                                                                   *)

\* down: no process.  idle: terminal::run waits for input between two calls
\* of run().  dispatch: about to pop the queue.  effects: applying effects.
Phases == {"down", "idle", "dispatch", "effects"}

Freshness == {"Fresh", "Stale"}
Summary == [ver: Nat, fresh: Freshness, error: BOOLEAN]
ScanStatuses == {"Idle", "Scanning", "Complete", "Failed"}
Healths == {"Unknown", "Healthy", "Degraded"}

Environments == [left: 0..MaxEnv, suffered: SUBSET Faults]
Watchers == [backend: Backends, configured: BOOLEAN, paths: SUBSET Repos, up: BOOLEAN]

\* What the cache file holds.
Document == [discovered: SUBSET Repos,
             summaries: [Repos -> Summary \cup {None}],
             scanStatus: ScanStatuses,
             health: Healths]

\* None stands for the absence of both.
ASSUME OptionAssumption == None \notin Summary /\ None \notin Document

Workspace == [discovered: SUBSET Repos,
              summaries: [Repos -> Summary \cup {None}],
              scanStatus: ScanStatuses,
              health: Healths,
              invalidations: SUBSET Repos,
              debouncePending: BOOLEAN]

\* WorkspaceState::default().
EmptyWorkspace == [discovered |-> {},
                   summaries |-> [r \in Repos |-> None],
                   scanStatus |-> "Idle",
                   health |-> "Unknown",
                   invalidations |-> {},
                   debouncePending |-> FALSE]

JobKinds == {"summary-refresh", "git", "detach-worktree"}
JobStates == {"none", "Queued", "Running", "Succeeded", "Failed"}

PlainEvents == {"RefreshVisibleRepos", "LeaveRepoMode", "GitAction",
                "DetachSelectedWorktree", "PeriodicRefreshTick",
                "PeriodicFetchTick", "ToastExpiryTick", "WatcherDebounceFlush",
                "RepoScanFailed", "WatcherDegraded", "WatcherRecovered"}
RepoEvents == {"RefreshSelectedRepo", "RefreshSelectedRepoDeep",
               "EnterRepoMode", "RepoInvalidated",
               "RepoSummaryRefreshStarted", "RepoSummaryRefreshFailed",
               "GitOperationStarted", "GitOperationCompleted",
               "GitOperationFailed"}
ReadEvents == {"RepoSummaryUpdated", "RepoDetailLoaded"}

Event == [kind: PlainEvents]
           \cup [kind: RepoEvents, repo: Repos]
           \cup [kind: ReadEvents, repo: Repos, ver: Nat]
           \cup [kind: {"RepoScanCompleted"}, repos: SUBSET Repos]

\* What the threads of one refresh may be reading at a time.
Workers == {rs \in SUBSET Repos : Cardinality(rs) <= WorkerLimit}

Effect == [kind: {"StartRepoScan", "ScheduleWatcherDebounce", "PersistCache"}]
            \cup [kind: {"LoadRepoDetail", "RunGitCommand"}, repo: Repos]
            \cup [kind: {"ConfigureWatcher"}, repos: SUBSET Repos]
            \cup [kind: {"RefreshRepoSummaries"}, pending: SUBSET Repos,
                  running: Workers]

Plain(k) == [kind |-> k]
About(k, r) == [kind |-> k, repo |-> r]
Pool(pending, running) ==
    [kind |-> "RefreshRepoSummaries", pending |-> pending, running |-> running]
Refresh(rs) == Pool(rs, {})
Watch(rs) == [kind |-> "ConfigureWatcher", repos |-> rs]
LoadDetail(r) == About("LoadRepoDetail", r)
PersistCache == Plain("PersistCache")

\* load_repo_detail_effect for the repository in repo mode, if there is one.
LoadActiveDetail == IF active = None THEN <<>> ELSE <<LoadDetail(active)>>

-----------------------------------------------------------------------------
(* The reducer: one handler per event e, giving the next AppState and the  *)
(* effects to apply.  Rendering and notifications are left out.            *)

\* complete_job: only a job that was recorded changes state.
CompleteJob(k, r, s) ==
    jobs' = [jobs EXCEPT ![<<k, r>>] = IF @ = "none" THEN @ ELSE s]

ReduceRefreshVisibleRepos(e) ==
    /\ e.kind = "RefreshVisibleRepos"
    /\ ws' = [ws EXCEPT !.scanStatus = "Scanning"]
    /\ effects' = <<Plain("StartRepoScan")>>
    /\ UNCHANGED <<jobs, active, detail>>

\* The selected repository is e.repo; its detail is reloaded in repo mode,
\* whether or not it is the repository on the screen.
ReduceRefreshSelectedRepo(e) ==
    /\ e.kind = "RefreshSelectedRepo"
    /\ effects' = <<Refresh({e.repo})>>
                    \o (IF active = None THEN <<>> ELSE <<LoadDetail(e.repo)>>)
    /\ UNCHANGED <<ws, jobs, active, detail>>

ReduceRefreshSelectedRepoDeep(e) ==
    /\ e.kind = "RefreshSelectedRepoDeep"
    /\ effects' = <<Refresh({e.repo}), Plain("StartRepoScan")>>
                    \o (IF active = None THEN <<>> ELSE <<LoadDetail(e.repo)>>)
    /\ UNCHANGED <<ws, jobs, active, detail>>

\* enter_repo_mode_with_parents: a fresh RepoModeState without a detail.
ReduceEnterRepoMode(e) ==
    /\ e.kind = "EnterRepoMode"
    /\ active' = e.repo /\ detail' = 0
    /\ effects' = <<LoadDetail(e.repo)>>
    /\ UNCHANGED <<ws, jobs>>

\* Leaving a nested repository re-enters its parent, which is the step above.
ReduceLeaveRepoMode(e) ==
    /\ e.kind = "LeaveRepoMode"
    /\ active' = None /\ detail' = 0
    /\ effects' = <<>>
    /\ UNCHANGED <<ws, jobs>>

\* git_job, enqueue_git_job and Effect::RunGitCommand, as in every arm that
\* runs a git command on the repository in repo mode: all but the next.
EnqueueGitJob ==
    IF active = None
    THEN effects' = <<>> /\ UNCHANGED <<ws, jobs, active, detail>>
    ELSE /\ jobs' = [jobs EXCEPT ![<<"git", active>>] = "Queued"]
         /\ effects' = <<About("RunGitCommand", active)>>
         /\ UNCHANGED <<ws, active, detail>>

ReduceGitAction(e) == e.kind = "GitAction" /\ EnqueueGitJob

\* The one arm that enqueues its job and asks for no effect.
ReduceDetachSelectedWorktree(e) ==
    /\ e.kind = "DetachSelectedWorktree"
    /\ jobs' = IF active = None THEN jobs
               ELSE [jobs EXCEPT ![<<"detach-worktree", active>>] = "Queued"]
    /\ effects' = <<>>
    /\ UNCHANGED <<ws, active, detail>>

ReducePeriodicFetchTick(e) ==
    /\ e.kind = "PeriodicFetchTick"
    /\ IF AutoFetch
       THEN EnqueueGitJob
       ELSE effects' = <<>> /\ UNCHANGED stateVars

ReduceRepoScanFailed(e) ==
    /\ e.kind = "RepoScanFailed"
    /\ ws' = [ws EXCEPT !.scanStatus = "Failed"]
    /\ effects' = <<>>
    /\ UNCHANGED <<jobs, active, detail>>

\* A mutant: the refresh before the watch.
RefreshThenWatch(rs) == <<Refresh(rs), Watch(rs), PersistCache>>

ScanEffects(rs) == <<Watch(rs), Refresh(rs), PersistCache>>

ReduceRepoScanCompleted(e) ==
    /\ e.kind = "RepoScanCompleted"
    /\ ws' = [ws EXCEPT !.discovered = e.repos, !.scanStatus = "Complete"]
    /\ effects' = ScanEffects(e.repos)
    /\ UNCHANGED <<jobs, active, detail>>

ReduceRepoSummaryRefreshStarted(e) ==
    /\ e.kind = "RepoSummaryRefreshStarted"
    /\ jobs' = [jobs EXCEPT ![<<"summary-refresh", e.repo>>] = "Running"]
    /\ effects' = <<>>
    /\ UNCHANGED <<ws, active, detail>>

\* Mutant: the new summary is not persisted.
NoPersistOnUpdate == <<>>

UpdatedEffects == <<PersistCache>>

\* The summary comes from read_repo_summary, which always says Fresh.
ReduceRepoSummaryUpdated(e) ==
    /\ e.kind = "RepoSummaryUpdated"
    /\ CompleteJob("summary-refresh", e.repo, "Succeeded")
    /\ ws' = [ws EXCEPT !.summaries[e.repo] =
                [ver |-> e.ver, fresh |-> "Fresh", error |-> FALSE]]
    /\ effects' = UpdatedEffects
    /\ UNCHANGED <<active, detail>>

\* Mutant: a failed refresh is retried at once.
RetryFailedRefresh(r) == <<Refresh({r})>>

RefreshFailedEffects(r) == <<>>

\* last_error is set on the summary, or on a stale placeholder; freshness
\* stays as it was.
ReduceRepoSummaryRefreshFailed(e) ==
    /\ e.kind = "RepoSummaryRefreshFailed"
    /\ CompleteJob("summary-refresh", e.repo, "Failed")
    /\ ws' = [ws EXCEPT !.summaries[e.repo] =
                IF @ = None THEN [ver |-> 0, fresh |-> "Stale", error |-> TRUE]
                ELSE [@ EXCEPT !.error = TRUE]]
    /\ effects' = RefreshFailedEffects(e.repo)
    /\ UNCHANGED <<active, detail>>

ReduceRepoDetailLoaded(e) ==
    /\ e.kind = "RepoDetailLoaded"
    /\ detail' = IF e.repo = active THEN e.ver ELSE detail
    /\ effects' = <<>>
    /\ UNCHANGED <<ws, jobs, active>>

ReduceGitOperationStarted(e) ==
    /\ e.kind = "GitOperationStarted"
    /\ jobs' = [jobs EXCEPT ![<<"git", e.repo>>] = "Running"]
    /\ effects' = <<>>
    /\ UNCHANGED <<ws, active, detail>>

ReduceGitOperationDone(e) ==
    /\ e.kind \in {"GitOperationCompleted", "GitOperationFailed"}
    /\ CompleteJob("git", e.repo, IF e.kind = "GitOperationCompleted"
                                  THEN "Succeeded" ELSE "Failed")
    /\ effects' = <<Refresh({e.repo}), LoadDetail(e.repo)>>
    /\ UNCHANGED <<ws, active, detail>>

\* Mutant: every invalidation asks for a debounce of its own.
ScheduleAlways == <<Plain("ScheduleWatcherDebounce")>>

InvalidationEffects ==
    IF ws.debouncePending THEN <<>> ELSE <<Plain("ScheduleWatcherDebounce")>>

ReduceRepoInvalidated(e) ==
    /\ e.kind = "RepoInvalidated"
    /\ ws' = [ws EXCEPT !.invalidations = @ \cup {e.repo},
                        !.debouncePending = TRUE]
    /\ effects' = InvalidationEffects
    /\ UNCHANGED <<jobs, active, detail>>

ReduceWatcherDegraded(e) ==
    /\ e.kind = "WatcherDegraded"
    /\ ws' = [ws EXCEPT !.health = "Degraded",
                !.summaries = [r \in Repos |-> IF @[r] = None THEN None
                                ELSE [@[r] EXCEPT !.fresh = "Stale"]]]
    /\ effects' = <<>>
    /\ UNCHANGED <<jobs, active, detail>>

ReduceWatcherRecovered(e) ==
    /\ e.kind = "WatcherRecovered"
    /\ ws' = [ws EXCEPT !.health = "Healthy"]
    /\ effects' = <<>>
    /\ UNCHANGED <<jobs, active, detail>>

\* Mutant: the tick polls under a live watch instead of a degraded one.
PollWhenHealthy ==
    IF ws.health = "Degraded" THEN <<>>
    ELSE IF ws.discovered = {} THEN <<Plain("StartRepoScan")>>
    ELSE <<Refresh(ws.discovered)>> \o LoadActiveDetail

PollEffects ==
    IF ws.health # "Degraded" THEN <<>>
    ELSE IF ws.discovered = {} THEN <<Plain("StartRepoScan")>>
    ELSE <<Refresh(ws.discovered)>> \o LoadActiveDetail

\* The tick announces a scan; only a degraded watcher makes it do any work.
ReducePeriodicRefreshTick(e) ==
    /\ e.kind = "PeriodicRefreshTick"
    /\ ws' = IF AutoRefresh /\ ws.scanStatus \in {"Idle", "Complete"}
             THEN [ws EXCEPT !.scanStatus = "Scanning"] ELSE ws
    /\ effects' = IF AutoRefresh THEN PollEffects ELSE <<>>
    /\ UNCHANGED <<jobs, active, detail>>

Orders(S) ==
    {s \in [1..Cardinality(S) -> S] :
        \A i, j \in 1..Cardinality(S) : s[i] = s[j] => i = j}

\* Mutant: the flush leaves the detail of the active repository alone.
FlushSummaryOnly(r) == <<Refresh({r})>>

FlushActive(r) == <<Refresh({r}), LoadDetail(r)>>

\* prioritized_repo_ids puts the repository in repo mode first.
ReduceWatcherDebounceFlush(e) ==
    /\ e.kind = "WatcherDebounceFlush"
    /\ \E others \in Orders(ws.invalidations \ {active}) :
        effects' = (IF active \in ws.invalidations THEN FlushActive(active) ELSE <<>>)
                   \o [i \in DOMAIN others |-> Refresh({others[i]})]
    /\ ws' = [ws EXCEPT !.invalidations = {}, !.debouncePending = FALSE]
    /\ UNCHANGED <<jobs, active, detail>>

\* Notifications are not modelled, so this only turns the loop.
ReduceToastExpiryTick(e) ==
    /\ e.kind = "ToastExpiryTick"
    /\ effects' = <<>>
    /\ UNCHANGED stateVars

Reduce(e) ==
    \/ ReduceRefreshVisibleRepos(e)
    \/ ReduceRefreshSelectedRepo(e)
    \/ ReduceRefreshSelectedRepoDeep(e)
    \/ ReduceEnterRepoMode(e)
    \/ ReduceLeaveRepoMode(e)
    \/ ReduceGitAction(e)
    \/ ReduceDetachSelectedWorktree(e)
    \/ ReducePeriodicFetchTick(e)
    \/ ReduceRepoScanFailed(e)
    \/ ReduceRepoScanCompleted(e)
    \/ ReduceRepoSummaryRefreshStarted(e)
    \/ ReduceRepoSummaryUpdated(e)
    \/ ReduceRepoSummaryRefreshFailed(e)
    \/ ReduceRepoDetailLoaded(e)
    \/ ReduceGitOperationStarted(e)
    \/ ReduceGitOperationDone(e)
    \/ ReduceRepoInvalidated(e)
    \/ ReduceWatcherDegraded(e)
    \/ ReduceWatcherRecovered(e)
    \/ ReducePeriodicRefreshTick(e)
    \/ ReduceWatcherDebounceFlush(e)
    \/ ReduceToastExpiryTick(e)

-----------------------------------------------------------------------------
(* The environment and the watcher backend.  The null backend is           *)
(* configured and silent; the events below are a reporting one's.          *)

Reporting == watcher.backend = "reporting"

\* A change of r would be reported.
Watching(r) ==
    Reporting /\ watcher.configured /\ watcher.up /\ r \in watcher.paths

Notify(r) ==
    backendQ' = IF Watching(r) THEN Append(backendQ, About("RepoInvalidated", r))
                ELSE backendQ

Spend == env.left > 0 /\ env' = [env EXCEPT !.left = @ - 1]
Fault(f) ==
    /\ f \in Faults /\ env.left > 0
    /\ env' = [left |-> env.left - 1, suffered |-> env.suffered \cup {f}]

\* An editor, a build or another git process writes in r.
ChangeRepo(r) ==
    /\ r \in present /\ Spend
    /\ disk' = [disk EXCEPT ![r] = @ + 1]
    /\ Notify(r)
    /\ UNCHANGED <<present, watcher, loopVars, stateVars, cache>>

\* r is deleted or moved away.
RemoveRepo(r) ==
    /\ r \in present /\ Fault("move")
    /\ present' = present \ {r}
    /\ Notify(r)
    /\ UNCHANGED <<disk, watcher, loopVars, stateVars, cache>>

\* r is cloned under the root: nobody watched the place it appears in.
AddRepo(r) ==
    /\ r \notin present /\ Fault("move")
    /\ present' = present \cup {r}
    /\ disk' = [disk EXCEPT ![r] = @ + 1]
    /\ UNCHANGED <<backendVars, loopVars, stateVars, cache>>

\* A notification that brings no change.
TouchRepo(r) ==
    /\ Watching(r) /\ Fault("touch")
    /\ Notify(r)
    /\ UNCHANGED <<present, disk, watcher, loopVars, stateVars, cache>>

BackendFails ==
    /\ Reporting /\ watcher.configured /\ watcher.up /\ Fault("backend")
    /\ watcher' = [watcher EXCEPT !.up = FALSE]
    /\ backendQ' = Append(backendQ, Plain("WatcherDegraded"))
    /\ UNCHANGED <<present, disk, loopVars, stateVars, cache>>

BackendRecovers ==
    /\ watcher.configured /\ ~watcher.up
    /\ watcher' = [watcher EXCEPT !.up = TRUE]
    /\ backendQ' = Append(backendQ, Plain("WatcherRecovered"))
    /\ UNCHANGED <<envVars, loopVars, stateVars, cache>>

Environment ==
    \/ \E r \in Repos : ChangeRepo(r) \/ RemoveRepo(r) \/ AddRepo(r) \/ TouchRepo(r)
    \/ BackendFails
    \/ BackendRecovers

-----------------------------------------------------------------------------
(* The loop of AppRuntime::run.                                            *)

Dispatch ==
    /\ phase = "dispatch" /\ queue # <<>>
    /\ Reduce(Head(queue))
    /\ queue' = Tail(queue)
    /\ followUps' = <<>>
    /\ phase' = "effects"
    /\ UNCHANGED <<debounceScheduled, envVars, backendVars, cache>>

\* Mutants: each follow-up is pushed to the front; the watcher's events are
\* lost.
PushedToFront ==
    [i \in DOMAIN followUps |-> followUps[Len(followUps) + 1 - i]] \o queue \o backendQ
DrainLost == queue \o followUps

\* Follow-ups go to the back, what the watcher reported behind them.
Remaining == queue \o followUps \o backendQ

\* Mutant: the loop ends without the flush of a scheduled debounce.
NoFlush == <<>>

Flush == IF debounceScheduled THEN <<Plain("WatcherDebounceFlush")>> ELSE <<>>

\* The flush is pushed only when the queue would otherwise be empty.
EndIteration ==
    /\ phase = "effects" /\ effects = <<>>
    /\ queue' = IF Remaining = <<>> THEN Flush ELSE Remaining
    /\ debounceScheduled' = (debounceScheduled /\ Remaining # <<>>)
    /\ phase' = IF queue' = <<>> THEN "idle" ELSE "dispatch"
    /\ followUps' = <<>> /\ backendQ' = <<>>
    /\ UNCHANGED <<effects, envVars, watcher, stateVars, cache>>

-----------------------------------------------------------------------------
(* AppRuntime::apply_effects, one effect or worker step at a time.         *)

Applying(k) == phase = "effects" /\ effects # <<>> /\ Head(effects).kind = k
EffectDone == effects' = Tail(effects)
FollowUp(e) == followUps' = Append(followUps, e)
PoolBecomes(pending, running) ==
    effects' = <<Pool(pending, running)>> \o Tail(effects)

StartRepoScan ==
    /\ Applying("StartRepoScan")
    /\ EffectDone
    /\ \/ /\ FollowUp([kind |-> "RepoScanCompleted", repos |-> present])
          /\ UNCHANGED env
       \/ /\ Fault("scan")
          /\ FollowUp(Plain("RepoScanFailed"))
    /\ UNCHANGED <<present, disk, backendVars, phase, queue, debounceScheduled,
                   stateVars, cache>>

ConfigureWatcher ==
    /\ Applying("ConfigureWatcher")
    /\ EffectDone
    /\ \/ /\ watcher' = [watcher EXCEPT !.configured = TRUE, !.up = TRUE,
                                       !.paths = Head(effects).repos]
          /\ FollowUp(Plain("WatcherRecovered"))
          /\ UNCHANGED env
       \/ /\ Reporting /\ Fault("configure")
          /\ FollowUp(Plain("WatcherDegraded"))
          /\ UNCHANGED watcher
    /\ UNCHANGED <<present, disk, backendQ, phase, queue, debounceScheduled,
                   stateVars, cache>>

ScheduleWatcherDebounce ==
    /\ Applying("ScheduleWatcherDebounce")
    /\ EffectDone
    /\ debounceScheduled' = TRUE
    /\ UNCHANGED <<envVars, backendVars, phase, queue, followUps, stateVars, cache>>

\* Mutant: the limit is off by one.
OneWorkerMore(running) == Cardinality(running) <= WorkerLimit

WorkerFree(running) == Cardinality(running) < WorkerLimit

\* refresh_repo_summaries fills the pool up to the limit before it waits.
SpawnSummaryWorker ==
    /\ Applying("RefreshRepoSummaries")
    /\ WorkerFree(Head(effects).running)
    /\ \E r \in Head(effects).pending :
        /\ PoolBecomes(Head(effects).pending \ {r}, Head(effects).running \cup {r})
        /\ FollowUp(About("RepoSummaryRefreshStarted", r))
    /\ UNCHANGED <<envVars, backendVars, phase, queue, debounceScheduled,
                   stateVars, cache>>

\* Outcomes arrive in any order.  The read is placed at the receipt: nothing
\* but other workers' receipts lies between the two.
ReceiveSummary ==
    /\ Applying("RefreshRepoSummaries")
    /\ \/ Head(effects).pending = {}
       \/ ~WorkerFree(Head(effects).running)
    /\ \E r \in Head(effects).running :
        /\ PoolBecomes(Head(effects).pending, Head(effects).running \ {r})
        /\ \/ /\ r \in present
              /\ FollowUp([kind |-> "RepoSummaryUpdated", repo |-> r,
                           ver |-> disk[r]])
              /\ UNCHANGED env
           \/ /\ IF r \in present THEN Fault("read") ELSE UNCHANGED env
              /\ FollowUp(About("RepoSummaryRefreshFailed", r))
    /\ UNCHANGED <<present, disk, backendVars, phase, queue, debounceScheduled,
                   stateVars, cache>>

RefreshDone ==
    /\ Applying("RefreshRepoSummaries")
    /\ Head(effects).pending = {} /\ Head(effects).running = {}
    /\ EffectDone
    /\ UNCHANGED <<envVars, backendVars, phase, queue, followUps,
                   debounceScheduled, stateVars, cache>>

\* A detail that cannot be read sends no event at all.
LoadRepoDetail ==
    /\ Applying("LoadRepoDetail")
    /\ EffectDone
    /\ LET r == Head(effects).repo
       IN \/ /\ r \in present
             /\ FollowUp([kind |-> "RepoDetailLoaded", repo |-> r, ver |-> disk[r]])
             /\ UNCHANGED env
          \/ /\ IF r \in present THEN Fault("detail") ELSE UNCHANGED env
             /\ UNCHANGED followUps
    /\ UNCHANGED <<present, disk, backendVars, phase, queue, debounceScheduled,
                   stateVars, cache>>

\* Mutant: the outcome is reported before the start.
OutcomeFirst(r, k) == <<About(k, r), About("GitOperationStarted", r)>>

GitEvents(r, k) == <<About("GitOperationStarted", r), About(k, r)>>

\* Started and the outcome are both collected before any of them is
\* dispatched; a command may change the repository and still fail.
RunGitCommand ==
    /\ Applying("RunGitCommand")
    /\ EffectDone
    /\ LET r == Head(effects).repo
       IN /\ \E k \in {"GitOperationCompleted", "GitOperationFailed"} :
                /\ r \in present \/ k = "GitOperationFailed"
                /\ followUps' = followUps \o GitEvents(r, k)
          /\ \/ UNCHANGED <<disk, env, backendQ>>
             \/ /\ r \in present /\ Spend
                /\ disk' = [disk EXCEPT ![r] = @ + 1]
                /\ Notify(r)
    /\ UNCHANGED <<present, watcher, phase, queue, debounceScheduled,
                   stateVars, cache>>

\* persist_cache: what serde writes of state.workspace.
CacheDocument == [discovered |-> ws.discovered, summaries |-> ws.summaries,
                  scanStatus |-> ws.scanStatus, health |-> ws.health]

\* fs::write replaces the file in place; its error is ignored, and a failed
\* write leaves the old document or one load_cache cannot parse.
PersistCacheStep ==
    /\ Applying("PersistCache")
    /\ EffectDone
    /\ \/ cache' = CacheDocument /\ UNCHANGED env
       \/ Fault("persist") /\ cache' \in {cache, None}
    /\ UNCHANGED <<present, disk, backendVars, phase, queue, followUps,
                   debounceScheduled, stateVars>>

ApplyEffect ==
    \/ StartRepoScan
    \/ ConfigureWatcher
    \/ ScheduleWatcherDebounce
    \/ SpawnSummaryWorker
    \/ ReceiveSummary
    \/ RefreshDone
    \/ LoadRepoDetail
    \/ RunGitCommand
    \/ PersistCacheStep

-----------------------------------------------------------------------------
(* The process: start, wait for input, end.                                *)

\* bootstrap() loads the cache, main() then runs RefreshVisibleRepos.  A
\* document older than STALE_CACHE_AGE_SECS has its summaries marked stale.
LoadedWorkspace(stale) ==
    [discovered |-> cache.discovered,
     summaries |-> [r \in Repos |-> IF cache.summaries[r] # None /\ stale
                                    THEN [cache.summaries[r] EXCEPT !.fresh = "Stale"]
                                    ELSE cache.summaries[r]],
     scanStatus |-> cache.scanStatus,
     health |-> cache.health,
     invalidations |-> {},
     debouncePending |-> FALSE]

Boot ==
    /\ phase = "down"
    /\ IF cache = None THEN ws' = EmptyWorkspace
       ELSE \E stale \in BOOLEAN : ws' = LoadedWorkspace(stale)
    /\ queue' = <<Plain("RefreshVisibleRepos")>>
    /\ phase' = "dispatch"
    /\ UNCHANGED <<envVars, backendVars, effects, followUps, debounceScheduled,
                   jobs, active, detail, cache>>

\* run(): the seed events, then what the watcher reported meanwhile.
Run(seed) ==
    /\ phase = "idle"
    /\ queue' = seed \o backendQ
    /\ backendQ' = <<>>
    /\ phase' = "dispatch"
    /\ UNCHANGED <<envVars, watcher, effects, followUps, debounceScheduled,
                   stateVars, cache>>

UserActions ==
    {Plain("RefreshVisibleRepos")}
      \cup [kind: {"RefreshSelectedRepo", "RefreshSelectedRepoDeep",
                   "EnterRepoMode"}, repo: ws.discovered]
      \cup (IF active = None THEN {}
            ELSE [kind: {"LeaveRepoMode", "GitAction", "DetachSelectedWorktree"}])

UserInput == \E e \in UserActions : e.kind \in Inputs /\ Run(<<e>>)

\* terminal::run collects the timers that are due, in this order.
DueTimers(refresh, fetch, toast) ==
    (IF refresh THEN <<Plain("PeriodicRefreshTick")>> ELSE <<>>)
      \o (IF fetch THEN <<Plain("PeriodicFetchTick")>> ELSE <<>>)
      \o (IF toast THEN <<Plain("ToastExpiryTick")>> ELSE <<>>)

Tick(refresh) ==
    \E fetch, toast \in BOOLEAN :
        /\ refresh \/ fetch \/ toast
        /\ refresh => "PeriodicRefreshTick" \in Inputs
        /\ fetch => "PeriodicFetchTick" \in Inputs
        /\ Run(DueTimers(refresh, fetch, toast))

Unconfigured(b) == [backend |-> b, configured |-> FALSE, paths |-> {}, up |-> FALSE]

\* The process quits or is killed; everything but the cache file is lost,
\* and a cache write that was under way may leave an unreadable file.
Stop ==
    /\ phase # "down" /\ Fault("crash")
    /\ phase' = "down"
    /\ queue' = <<>> /\ effects' = <<>> /\ followUps' = <<>>
    /\ debounceScheduled' = FALSE
    /\ ws' = EmptyWorkspace
    /\ jobs' = [j \in JobKinds \X Repos |-> "none"]
    /\ active' = None /\ detail' = 0
    /\ watcher' = Unconfigured(watcher.backend)
    /\ backendQ' = <<>>
    /\ cache' \in IF Applying("PersistCache") THEN {cache, None} ELSE {cache}
    /\ UNCHANGED <<present, disk>>

Init ==
    /\ present \in SUBSET Repos
    /\ disk = [r \in Repos |-> 1]
    /\ env = [left |-> MaxEnv, suffered |-> {}]
    /\ \E b \in Backends : watcher = Unconfigured(b)
    /\ backendQ = <<>>
    /\ phase = "down"
    /\ queue = <<>> /\ effects = <<>> /\ followUps = <<>>
    /\ debounceScheduled = FALSE
    /\ ws = EmptyWorkspace
    /\ jobs = [j \in JobKinds \X Repos |-> "none"]
    /\ active = None /\ detail = 0
    /\ cache = None

Loop == Dispatch \/ EndIteration \/ ApplyEffect

Next ==
    \/ Environment
    \/ Loop
    \/ Boot
    \/ UserInput
    \/ \E refresh \in BOOLEAN : Tick(refresh)
    \/ Stop

Spec == Init /\ [][Next]_vars

\* run() never blocks while it has work.  Each timer falls due again and
\* again and terminal::run serves it after every poll, whatever the user
\* does: strong fairness, since idle comes and goes.  Reads are not assumed
\* to succeed, and nothing obliges anyone to start the process.
FairSpec ==
    /\ Spec
    /\ WF_vars(Loop)
    /\ SF_vars(Tick(TRUE))
    /\ SF_vars(Tick(FALSE))

-----------------------------------------------------------------------------
(* Properties.                                                             *)

\* Every variable keeps its type, and a refresh its number of workers.
TypeOK ==
    /\ present \in SUBSET Repos
    /\ disk \in [Repos -> Nat]
    /\ env \in Environments
    /\ watcher \in Watchers
    /\ backendQ \in Seq(Event)
    /\ phase \in Phases
    /\ queue \in Seq(Event)
    /\ effects \in Seq(Effect)
    /\ followUps \in Seq(Event)
    /\ debounceScheduled \in BOOLEAN
    /\ ws \in Workspace
    /\ jobs \in [JobKinds \X Repos -> JobStates]
    /\ active \in Repos \cup {None}
    /\ detail \in Nat
    /\ cache \in Document \cup {None}

\* The reducer's watcher_debounce_pending and the runtime's
\* watcher_debounce_scheduled are two flags for one fact, kept by different
\* crates: a debounce is pending exactly while its flush is asked for,
\* scheduled or queued, in one of these places only, and it is pending
\* exactly while an invalidation waits for it.
ScheduleAsked == \E i \in DOMAIN effects : effects[i].kind = "ScheduleWatcherDebounce"
FlushQueued == \E i \in DOMAIN queue : queue[i].kind = "WatcherDebounceFlush"

DebounceCoupled ==
    /\ ws.debouncePending <=> ScheduleAsked \/ debounceScheduled \/ FlushQueued
    /\ ~(ScheduleAsked /\ debounceScheduled)
    /\ FlushQueued => ~ScheduleAsked /\ ~debounceScheduled /\ Len(queue) = 1
    /\ ws.debouncePending <=> ws.invalidations # {}

\* When run() returns nothing is left half done: no invalidation waits, no
\* debounce is armed, no background job is still queued or running but the
\* detaching of a worktree, which is queued and never run: its command is
\* the only one that nobody asks to be run.
SettledWhenIdle ==
    phase = "idle" =>
        /\ ws.invalidations = {} /\ ~ws.debouncePending /\ ~debounceScheduled
        /\ \A j \in DOMAIN jobs :
            /\ jobs[j] # "Running"
            /\ jobs[j] = "Queued" => j[1] = "detach-worktree"

\* A job never starts while it runs and never ends without having run: the
\* Started event of a refresh or a command precedes its outcome, and the
\* outcomes of two refreshes of one repository are not mixed up.
JobLifecycle ==
    [][phase' # "down" =>
        \A j \in DOMAIN jobs :
            jobs'[j] # jobs[j] =>
                \/ jobs[j] \in {"none", "Succeeded", "Failed"} /\ jobs'[j] = "Queued"
                \/ jobs[j] \in {"none", "Queued", "Succeeded", "Failed"}
                   /\ jobs'[j] = "Running"
                \/ jobs[j] = "Running" /\ jobs'[j] \in {"Succeeded", "Failed"}]_vars

\* Under a reporting backend that has not failed, when nothing is under way
\* and nothing is left to drain, a listed repository shown fresh under a live
\* watch is shown as it is on disk.  The null backend promises nothing.
NeverFalselyFresh ==
    /\ phase = "idle" /\ backendQ = <<>>
    /\ Reporting /\ watcher.configured /\ ws.health = "Healthy"
    /\ "backend" \notin env.suffered
    =>  \A r \in ws.discovered \cap present :
            LET s == ws.summaries[r]
            IN s # None /\ (s.fresh = "Fresh" /\ ~s.error => s.ver = disk[r])

\* The same for the repository in repo mode: every flush that refreshes its
\* summary also reloads its detail.  A failed watch, a failed read of the
\* detail, a repository moved, or a failed scan over a list that a cache
\* brought in may each leave an old detail on the screen.
WatchKept ==
    /\ {"backend", "configure", "detail", "move"} \cap env.suffered = {}
    /\ ~({"crash", "scan"} \subseteq env.suffered)

DetailCurrentWhenIdle ==
    /\ phase = "idle" /\ backendQ = <<>> /\ active # None
    /\ Reporting /\ WatchKept
    => detail = disk[active]

\* Refreshes of a repository are shown in the order they were read: a later
\* step of one process never shows an older version.
SummariesNeverGoBack ==
    [][phase # "down" /\ phase' # "down" =>
        \A r \in Repos :
            ws.summaries[r] # None =>
                ws'.summaries[r] # None
                /\ ws'.summaries[r].ver >= ws.summaries[r].ver]_vars

\* Unless a write of it failed, the cache a crash would fall back on is,
\* whenever run() has returned, the list and the versions on the screen.
CacheMatchesWhenIdle ==
    phase = "idle" /\ ws.discovered # {} /\ "persist" \notin env.suffered =>
        /\ cache # None /\ cache.discovered = ws.discovered
        /\ \A r \in Repos :
            ws.summaries[r] # None /\ ws.summaries[r].ver > 0 =>
                cache.summaries[r] # None
                /\ cache.summaries[r].ver = ws.summaries[r].ver

Outdated(r) == ws.summaries[r] = None \/ ws.summaries[r].ver # disk[r]
ReadFailed(r) == ws.summaries[r] # None /\ ws.summaries[r].error

\* run() returns: the follow-ups of follow-ups come to an end.
RunReturns == phase \in {"dispatch", "effects"} ~> phase \in {"idle", "down"}

\* A change to a watched repository reaches its summary, or a read error does.
WatchedChangesShown ==
    \A r \in Repos :
        Watching(r) /\ r \in present /\ Outdated(r)
            ~> ~Watching(r) \/ r \notin present \/ ~Outdated(r) \/ ReadFailed(r)

\* While the watcher is degraded the periodic refresh takes its place.
DegradedMeansPolled ==
    \A r \in Repos :
        ws.health = "Degraded" /\ r \in ws.discovered \cap present /\ Outdated(r)
            ~> \/ ws.health # "Degraded" \/ r \notin ws.discovered \cap present
               \/ ~Outdated(r) \/ ReadFailed(r)

=============================================================================
