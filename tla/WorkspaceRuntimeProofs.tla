----------------------- MODULE WorkspaceRuntimeProofs -----------------------
(***************************************************************************)
(* Proofs about WorkspaceRuntime, for every set of repositories, every     *)
(* configuration, every set of inputs and faults and every bound: first    *)
(* the types and the debounce flags, then what run() leaves behind when it *)
(* returns.  Background jobs have started and ended in turn, versions      *)
(* never go back, the cache holds what is shown, and what is shown fresh   *)
(* is so.                                                                  *)
(*                                                                         *)
(* The last part is about SummaryRefreshPool, the threads behind one of    *)
(* the loop's effects: for every size of the batch, every limit and every  *)
(* set of stuck reads, the pool implements SummaryBatch and never waits    *)
(* for nobody.                                                             *)
(***************************************************************************)
EXTENDS WorkspaceRuntime, SummaryRefreshPool, FiniteSetTheorems, SequenceTheorems, TLAPS

-----------------------------------------------------------------------------
(* Events and effects: what the kind of a record says of its fields.       *)

LEMMA EventFields ==
    ASSUME NEW e \in Event
    PROVE  /\ e.kind \in RepoEvents => e.repo \in Repos
           /\ e.kind \in ReadEvents => e.repo \in Repos /\ e.ver \in Nat
           /\ e.kind = "RepoScanCompleted" => e.repos \in SUBSET Repos
    BY DEF Event, PlainEvents, RepoEvents, ReadEvents

LEMMA EventForms ==
    /\ \A k \in PlainEvents : Plain(k) \in Event /\ Plain(k).kind = k
    /\ \A k \in RepoEvents, r \in Repos :
        About(k, r) \in Event /\ About(k, r).kind = k
    /\ \A k \in ReadEvents, r \in Repos, v \in Nat :
        [kind |-> k, repo |-> r, ver |-> v] \in Event
    /\ \A rs \in SUBSET Repos : [kind |-> "RepoScanCompleted", repos |-> rs] \in Event
    BY DEF Event, Plain, About

LEMMA EffectFields ==
    ASSUME NEW f \in Effect
    PROVE  /\ f.kind \in {"LoadRepoDetail", "RunGitCommand"} => f.repo \in Repos
           /\ f.kind = "ConfigureWatcher" => f.repos \in SUBSET Repos
           /\ f.kind = "RefreshRepoSummaries" =>
                /\ f.pending \in SUBSET Repos /\ f.running \in SUBSET Repos
                /\ f.running \in Workers
                /\ f = [kind |-> "RefreshRepoSummaries", pending |-> f.pending,
                        running |-> f.running]
    BY DEF Effect, Workers

LEMMA EffectForms ==
    /\ Plain("StartRepoScan") \in Effect
    /\ Plain("ScheduleWatcherDebounce") \in Effect
    /\ PersistCache \in Effect
    /\ \A r \in Repos : LoadDetail(r) \in Effect /\ About("RunGitCommand", r) \in Effect
    /\ \A rs \in SUBSET Repos : Watch(rs) \in Effect /\ Refresh(rs) \in Effect
<1>1. {} \in Workers BY RuntimeAssumption, FS_EmptySet DEF RuntimeAssumption, Workers
<1> QED BY <1>1 DEF Effect, Plain, About, PersistCache, LoadDetail, Watch, Refresh, Pool

\* The flush orders the pending invalidations: each order is a sequence.
LEMMA OrdersAreSequences ==
    ASSUME NEW S \in SUBSET Repos, NEW s \in Orders(S)
    PROVE  s \in Seq(Repos)
<1> DEFINE n == Cardinality(S)
<1>1. n \in Nat
    BY RuntimeAssumption, FS_Subset, FS_CardinalityType DEF RuntimeAssumption
<1>2. s \in [1..n -> S] BY DEF Orders
<1> HIDE DEF n
<1>3. s \in [1..n -> Repos] BY <1>2
<1> QED BY <1>1, <1>3

\* One refresh per repository of an order is a sequence of effects.
LEMMA RefreshEach ==
    ASSUME NEW S \in SUBSET Repos, NEW s \in Orders(S)
    PROVE  [i \in DOMAIN s |-> Refresh({s[i]})] \in Seq(Effect)
<1> DEFINE R(i) == Refresh({s[i]})
<1>1. s \in Seq(Repos) BY OrdersAreSequences
<1>2. Len(s) \in Nat /\ DOMAIN s = 1..Len(s) BY <1>1
<1>3. \A i \in 1..Len(s) : R(i) \in Effect BY <1>1, <1>2, EffectForms
<1> HIDE DEF R
<1>4. [i \in 1..Len(s) |-> R(i)] \in Seq(Effect) BY <1>2, <1>3
<1> QED BY <1>2, <1>4 DEF R

\* The effects of a flush: the repository in repo mode first, then one
\* refresh for each of the others.
LEMMA FlushEffects ==
    ASSUME TypeOK, NEW e, ReduceWatcherDebounceFlush(e)
    PROVE  \E rest \in Seq(Effect) :
             /\ \A i \in DOMAIN rest : rest[i].kind = "RefreshRepoSummaries"
             /\ effects' = (IF active \in ws.invalidations
                            THEN FlushActive(active) ELSE <<>>) \o rest
<1>1. PICK others \in Orders(ws.invalidations \ {active}) :
        effects' = (IF active \in ws.invalidations THEN FlushActive(active) ELSE <<>>)
                   \o [i \in DOMAIN others |-> Refresh({others[i]})]
    BY DEF ReduceWatcherDebounceFlush
<1>2. ws.invalidations \ {active} \in SUBSET Repos BY DEF TypeOK, Workspace
<1>3. [i \in DOMAIN others |-> Refresh({others[i]})] \in Seq(Effect)
    BY <1>1, <1>2, RefreshEach
<1>4. \A i \in DOMAIN others : Refresh({others[i]}).kind = "RefreshRepoSummaries"
    BY DEF Refresh, Pool
<1> QED BY <1>1, <1>3, <1>4

-----------------------------------------------------------------------------
(* One step of the reducer.                                                *)

\* The reducer keeps the types of its state and asks for well-formed effects.
LEMMA ReduceTypes ==
    ASSUME TypeOK, NEW e \in Event, Reduce(e)
    PROVE  /\ ws' \in Workspace
           /\ jobs' \in [JobKinds \X Repos -> JobStates]
           /\ active' \in Repos \cup {None}
           /\ detail' \in Nat
           /\ effects' \in Seq(Effect)
<1> DEFINE Goal == /\ ws' \in Workspace
                   /\ jobs' \in [JobKinds \X Repos -> JobStates]
                   /\ active' \in Repos \cup {None}
                   /\ detail' \in Nat
                   /\ effects' \in Seq(Effect)
<1>1. /\ ws \in Workspace /\ jobs \in [JobKinds \X Repos -> JobStates]
      /\ active \in Repos \cup {None} /\ detail \in Nat
    BY DEF TypeOK
<1>2. CASE ReduceRefreshVisibleRepos(e)
    BY <1>1, <1>2, EffectForms DEF ReduceRefreshVisibleRepos, Workspace, ScanStatuses
<1>3. CASE ReduceRefreshSelectedRepo(e)
  <2>1. e.repo \in Repos BY <1>3, EventFields DEF ReduceRefreshSelectedRepo, RepoEvents
  <2> QED BY <1>1, <1>3, <2>1, EffectForms DEF ReduceRefreshSelectedRepo
<1>4. CASE ReduceRefreshSelectedRepoDeep(e)
  <2>1. e.repo \in Repos BY <1>4, EventFields DEF ReduceRefreshSelectedRepoDeep, RepoEvents
  <2> QED BY <1>1, <1>4, <2>1, EffectForms DEF ReduceRefreshSelectedRepoDeep
<1>5. CASE ReduceEnterRepoMode(e)
  <2>1. e.repo \in Repos BY <1>5, EventFields DEF ReduceEnterRepoMode, RepoEvents
  <2> QED BY <1>1, <1>5, <2>1, EffectForms DEF ReduceEnterRepoMode
<1>6. CASE ReduceLeaveRepoMode(e)
    BY <1>1, <1>6 DEF ReduceLeaveRepoMode
<1>7. ASSUME EnqueueGitJob PROVE Goal
  <2>1. CASE active = None BY <1>1, <1>7, <2>1 DEF EnqueueGitJob
  <2>2. CASE active # None
    <3>1. active \in Repos /\ <<"git", active>> \in JobKinds \X Repos
        BY <1>1, <2>2 DEF JobKinds
    <3>2. /\ jobs' = [jobs EXCEPT ![<<"git", active>>] = "Queued"]
          /\ effects' = <<About("RunGitCommand", active)>>
          /\ UNCHANGED <<ws, active, detail>>
        BY <1>7, <2>2 DEF EnqueueGitJob
    <3>3. jobs' \in [JobKinds \X Repos -> JobStates] BY <1>1, <3>1, <3>2 DEF JobStates
    <3>4. About("RunGitCommand", active) \in Effect BY <3>1, EffectForms
    <3>5. effects' \in Seq(Effect) BY <3>2, <3>4
    <3> QED BY <1>1, <3>2, <3>3, <3>5
  <2> QED BY <2>1, <2>2
<1>8. CASE ReduceGitAction(e) BY <1>7, <1>8 DEF ReduceGitAction
<1>9. CASE ReducePeriodicFetchTick(e)
  <2>1. CASE EnqueueGitJob BY <1>7, <2>1
  <2>2. CASE effects' = <<>> /\ UNCHANGED stateVars BY <1>1, <2>2 DEF stateVars
  <2> QED BY <1>9, <2>1, <2>2 DEF ReducePeriodicFetchTick
<1>25. CASE ReduceDetachSelectedWorktree(e)
  <2>1. jobs' \in [JobKinds \X Repos -> JobStates]
    <3>1. CASE active = None BY <1>1, <1>25, <3>1 DEF ReduceDetachSelectedWorktree
    <3>2. CASE active # None
      <4>1. <<"detach-worktree", active>> \in JobKinds \X Repos BY <1>1, <3>2 DEF JobKinds
      <4> QED BY <1>1, <1>25, <3>2, <4>1 DEF ReduceDetachSelectedWorktree, JobStates
    <3> QED BY <3>1, <3>2
  <2> QED BY <1>1, <1>25, <2>1 DEF ReduceDetachSelectedWorktree
<1>10. CASE ReduceRepoScanFailed(e)
    BY <1>1, <1>10 DEF ReduceRepoScanFailed, Workspace, ScanStatuses
<1>11. CASE ReduceRepoScanCompleted(e)
  <2>1. e.repos \in SUBSET Repos BY <1>11, EventFields DEF ReduceRepoScanCompleted
  <2>2. effects' \in Seq(Effect)
      BY <1>11, <2>1, EffectForms DEF ReduceRepoScanCompleted, ScanEffects
  <2>3. ws' \in Workspace
      BY <1>1, <1>11, <2>1 DEF ReduceRepoScanCompleted, Workspace, ScanStatuses
  <2> QED BY <1>1, <1>11, <2>2, <2>3 DEF ReduceRepoScanCompleted
<1>12. CASE ReduceRepoSummaryRefreshStarted(e)
  <2>1. <<"summary-refresh", e.repo>> \in JobKinds \X Repos
      BY <1>12, EventFields DEF ReduceRepoSummaryRefreshStarted, RepoEvents, JobKinds
  <2> QED BY <1>1, <1>12, <2>1 DEF ReduceRepoSummaryRefreshStarted, JobStates
<1>13. ASSUME NEW k \in JobKinds, NEW r \in Repos, NEW s \in JobStates, CompleteJob(k, r, s)
       PROVE jobs' \in [JobKinds \X Repos -> JobStates]
    BY <1>1, <1>13 DEF CompleteJob
<1>14. CASE ReduceRepoSummaryUpdated(e)
  <2>1. e.repo \in Repos /\ e.ver \in Nat
      BY <1>14, EventFields DEF ReduceRepoSummaryUpdated, ReadEvents
  <2>2. [ver |-> e.ver, fresh |-> "Fresh", error |-> FALSE] \in Summary
      BY <2>1 DEF Summary, Freshness
  <2>3. ws' \in Workspace
      BY <1>1, <1>14, <2>1, <2>2 DEF ReduceRepoSummaryUpdated, Workspace
  <2>4. jobs' \in [JobKinds \X Repos -> JobStates]
      BY <1>13, <1>14, <2>1 DEF ReduceRepoSummaryUpdated, JobKinds, JobStates
  <2> QED BY <1>1, <1>14, <2>3, <2>4, EffectForms DEF ReduceRepoSummaryUpdated, UpdatedEffects
<1>15. CASE ReduceRepoSummaryRefreshFailed(e)
  <2>1. e.repo \in Repos
      BY <1>15, EventFields DEF ReduceRepoSummaryRefreshFailed, RepoEvents
  <2>2. \A s \in Summary : [s EXCEPT !.error = TRUE] \in Summary
      BY DEF Summary
  <2>3. [ver |-> 0, fresh |-> "Stale", error |-> TRUE] \in Summary
      BY DEF Summary, Freshness
  <2>4. ws' \in Workspace
      BY <1>1, <1>15, <2>1, <2>2, <2>3 DEF ReduceRepoSummaryRefreshFailed, Workspace
  <2>5. jobs' \in [JobKinds \X Repos -> JobStates]
      BY <1>13, <1>15, <2>1 DEF ReduceRepoSummaryRefreshFailed, JobKinds, JobStates
  <2> QED BY <1>1, <1>15, <2>4, <2>5
          DEF ReduceRepoSummaryRefreshFailed, RefreshFailedEffects
<1>16. CASE ReduceRepoDetailLoaded(e)
  <2>1. e.ver \in Nat BY <1>16, EventFields DEF ReduceRepoDetailLoaded, ReadEvents
  <2> QED BY <1>1, <1>16, <2>1 DEF ReduceRepoDetailLoaded
<1>17. CASE ReduceGitOperationStarted(e)
  <2>1. <<"git", e.repo>> \in JobKinds \X Repos
      BY <1>17, EventFields DEF ReduceGitOperationStarted, RepoEvents, JobKinds
  <2> QED BY <1>1, <1>17, <2>1 DEF ReduceGitOperationStarted, JobStates
<1>18. CASE ReduceGitOperationDone(e)
  <2>1. e.repo \in Repos BY <1>18, EventFields DEF ReduceGitOperationDone, RepoEvents
  <2>2. jobs' \in [JobKinds \X Repos -> JobStates]
      BY <1>13, <1>18, <2>1 DEF ReduceGitOperationDone, JobKinds, JobStates
  <2> QED BY <1>1, <1>18, <2>1, <2>2, EffectForms DEF ReduceGitOperationDone
<1>19. CASE ReduceRepoInvalidated(e)
  <2>1. e.repo \in Repos BY <1>19, EventFields DEF ReduceRepoInvalidated, RepoEvents
  <2>2. ws' \in Workspace
      BY <1>1, <1>19, <2>1 DEF ReduceRepoInvalidated, Workspace
  <2> QED BY <1>1, <1>19, <2>2, EffectForms DEF ReduceRepoInvalidated, InvalidationEffects
<1>20. CASE ReduceWatcherDegraded(e)
  <2>1. \A s \in Summary : [s EXCEPT !.fresh = "Stale"] \in Summary
      BY DEF Summary, Freshness
  <2> DEFINE marked == [r \in Repos |-> IF ws.summaries[r] = None THEN None
                                       ELSE [ws.summaries[r] EXCEPT !.fresh = "Stale"]]
  <2>2. marked \in [Repos -> Summary \cup {None}] BY <1>1, <2>1 DEF Workspace
  <2>3. ws' = [ws EXCEPT !.health = "Degraded", !.summaries = marked]
      BY <1>20 DEF ReduceWatcherDegraded
  <2>4. ws' \in Workspace
    <3> HIDE DEF marked
    <3> QED BY <1>1, <2>2, <2>3 DEF Workspace, Healths
  <2> QED BY <1>1, <1>20, <2>4 DEF ReduceWatcherDegraded
<1>21. CASE ReduceWatcherRecovered(e)
    BY <1>1, <1>21 DEF ReduceWatcherRecovered, Workspace, Healths
<1>22. CASE ReducePeriodicRefreshTick(e)
  <2>1. ws' \in Workspace
      BY <1>1, <1>22 DEF ReducePeriodicRefreshTick, Workspace, ScanStatuses
  <2>2. ws.discovered \in SUBSET Repos BY <1>1 DEF Workspace
  <2>3. LoadActiveDetail \in Seq(Effect)
      BY <1>1, EffectForms DEF LoadActiveDetail
  <2>4. PollEffects \in Seq(Effect)
      BY <2>2, <2>3, EffectForms DEF PollEffects
  <2> QED BY <1>1, <1>22, <2>1, <2>4 DEF ReducePeriodicRefreshTick
<1>23. CASE ReduceWatcherDebounceFlush(e)
  <2>1. ws.invalidations \in SUBSET Repos BY <1>1 DEF Workspace
  <2>2. PICK rest \in Seq(Effect) :
          effects' = (IF active \in ws.invalidations THEN FlushActive(active) ELSE <<>>)
                     \o rest
      BY <1>23, FlushEffects
  <2>6. (IF active \in ws.invalidations THEN FlushActive(active) ELSE <<>>) \in Seq(Effect)
      BY <2>1, EffectForms DEF FlushActive
  <2>7. effects' \in Seq(Effect) BY <2>2, <2>6
  <2>8. ws' \in Workspace BY <1>1, <1>23 DEF ReduceWatcherDebounceFlush, Workspace
  <2> QED BY <1>1, <1>23, <2>7, <2>8 DEF ReduceWatcherDebounceFlush
<1>24. CASE ReduceToastExpiryTick(e)
    BY <1>1, <1>24 DEF ReduceToastExpiryTick, stateVars
<1> QED BY <1>2, <1>3, <1>4, <1>5, <1>6, <1>8, <1>9, <1>10, <1>11, <1>12, <1>14,
           <1>15, <1>16, <1>17, <1>18, <1>19, <1>20, <1>21, <1>22, <1>23, <1>24, <1>25
        DEF Reduce

-----------------------------------------------------------------------------
(* Type correctness.                                                       *)

LEMMA InitTypes == Init => TypeOK
<1> SUFFICES ASSUME Init PROVE TypeOK
    OBVIOUS
<1>1. ws \in Workspace
    BY DEF Init, EmptyWorkspace, Workspace, ScanStatuses, Healths
<1>2. jobs \in [JobKinds \X Repos -> JobStates] BY DEF Init, JobStates
<1>3. watcher \in Watchers BY DEF Init, Watchers, Unconfigured
<1>4. env \in Environments
    BY RuntimeAssumption DEF RuntimeAssumption, Init, Environments
<1>5. disk \in [Repos -> Nat] BY DEF Init
<1>6. /\ queue \in Seq(Event) /\ followUps \in Seq(Event) /\ backendQ \in Seq(Event)
      /\ effects \in Seq(Effect)
    BY DEF Init
<1>7. phase \in Phases /\ present \in SUBSET Repos BY DEF Init, Phases
<1>8. debounceScheduled \in BOOLEAN BY DEF Init
<1>9. active \in Repos \cup {None} /\ detail \in Nat /\ cache = None BY DEF Init
<1> QED BY <1>1, <1>2, <1>3, <1>4, <1>5, <1>6, <1>7, <1>8, <1>9 DEF TypeOK

LEMMA SpendTypes ==
    ASSUME TypeOK, Spend \/ \E f \in FaultKinds : Fault(f)
    PROVE  env' \in Environments
<1>1. /\ MaxEnv \in Nat /\ env.left \in 0..MaxEnv /\ env.suffered \in SUBSET Faults
      /\ env = [left |-> env.left, suffered |-> env.suffered]
    BY RuntimeAssumption DEF RuntimeAssumption, TypeOK, Environments
<1>2. CASE Spend BY <1>1, <1>2 DEF Spend, Environments
<1>3. ASSUME NEW f, Fault(f) PROVE env' \in Environments
    BY <1>1, <1>3 DEF Fault, Environments
<1> QED BY <1>2, <1>3

LEMMA NotifyTypes ==
    ASSUME TypeOK, NEW r \in Repos, Notify(r)
    PROVE  backendQ' \in Seq(Event)
<1>1. About("RepoInvalidated", r) \in Event BY EventForms DEF RepoEvents
<1> QED BY <1>1 DEF Notify, TypeOK

\* Steps of the environment and of the watcher backend.
LEMMA EnvironmentTypes == TypeOK /\ Environment => TypeOK'
<1> SUFFICES ASSUME TypeOK, Environment PROVE TypeOK'
    OBVIOUS
<1> USE DEF loopVars, stateVars, envVars, backendVars
<1>1. ASSUME NEW r \in Repos, ChangeRepo(r) PROVE TypeOK'
  <2>1. env' \in Environments BY <1>1, SpendTypes DEF ChangeRepo
  <2>2. backendQ' \in Seq(Event) BY <1>1, NotifyTypes DEF ChangeRepo
  <2>3. disk' \in [Repos -> Nat] BY <1>1 DEF ChangeRepo, TypeOK
  <2> QED BY <1>1, <2>1, <2>2, <2>3 DEF ChangeRepo, TypeOK
<1>2. ASSUME NEW r \in Repos, RemoveRepo(r) PROVE TypeOK'
  <2>1. env' \in Environments BY <1>2, SpendTypes DEF RemoveRepo, FaultKinds
  <2>2. backendQ' \in Seq(Event) BY <1>2, NotifyTypes DEF RemoveRepo
  <2> QED BY <1>2, <2>1, <2>2 DEF RemoveRepo, TypeOK
<1>3. ASSUME NEW r \in Repos, AddRepo(r) PROVE TypeOK'
  <2>1. env' \in Environments BY <1>3, SpendTypes DEF AddRepo, FaultKinds
  <2>2. disk' \in [Repos -> Nat] BY <1>3 DEF AddRepo, TypeOK
  <2> QED BY <1>3, <2>1, <2>2 DEF AddRepo, TypeOK
<1>4. ASSUME NEW r \in Repos, TouchRepo(r) PROVE TypeOK'
  <2>1. env' \in Environments BY <1>4, SpendTypes DEF TouchRepo, FaultKinds
  <2>2. backendQ' \in Seq(Event) BY <1>4, NotifyTypes DEF TouchRepo
  <2> QED BY <1>4, <2>1, <2>2 DEF TouchRepo, TypeOK
<1>5. \A k \in {"WatcherDegraded", "WatcherRecovered"} :
        Append(backendQ, Plain(k)) \in Seq(Event)
  <2>1. \A k \in {"WatcherDegraded", "WatcherRecovered"} : Plain(k) \in Event
      BY EventForms DEF PlainEvents
  <2> QED BY <2>1 DEF TypeOK
<1>6. CASE BackendFails
  <2>1. env' \in Environments BY <1>6, SpendTypes DEF BackendFails, FaultKinds
  <2>2. backendQ' \in Seq(Event) BY <1>5, <1>6 DEF BackendFails
  <2>3. watcher' \in Watchers
      BY <1>6 DEF BackendFails, TypeOK, Watchers
  <2> QED BY <1>6, <2>1, <2>2, <2>3 DEF BackendFails, TypeOK
<1>7. CASE BackendRecovers
  <2>1. backendQ' \in Seq(Event) BY <1>5, <1>7 DEF BackendRecovers
  <2>2. watcher' \in Watchers
      BY <1>7 DEF BackendRecovers, TypeOK, Watchers
  <2> QED BY <1>7, <2>1, <2>2 DEF BackendRecovers, TypeOK
<1> QED BY <1>1, <1>2, <1>3, <1>4, <1>6, <1>7 DEF Environment

\* Popping an event, and the end of an iteration.
LEMMA LoopTypes == TypeOK /\ (Dispatch \/ EndIteration) => TypeOK'
<1> SUFFICES ASSUME TypeOK, Dispatch \/ EndIteration PROVE TypeOK'
    OBVIOUS
<1> USE DEF envVars, backendVars, stateVars
<1>1. CASE Dispatch
  <2>1. Head(queue) \in Event /\ Tail(queue) \in Seq(Event)
      BY <1>1 DEF Dispatch, TypeOK
  <2>2. Reduce(Head(queue)) BY <1>1 DEF Dispatch
  <2>3. /\ ws' \in Workspace /\ jobs' \in [JobKinds \X Repos -> JobStates]
        /\ active' \in Repos \cup {None} /\ detail' \in Nat
        /\ effects' \in Seq(Effect)
      BY <2>1, <2>2, ReduceTypes
  <2> QED BY <1>1, <2>1, <2>3 DEF Dispatch, TypeOK, Phases
<1>2. CASE EndIteration
  <2>1. Remaining \in Seq(Event) BY DEF Remaining, TypeOK
  <2>2. Flush \in Seq(Event)
      BY EventForms DEF Flush, PlainEvents
  <2>3. debounceScheduled' \in BOOLEAN BY <1>2 DEF EndIteration
  <2>4. queue' \in Seq(Event) BY <1>2, <2>1, <2>2 DEF EndIteration
  <2>5. phase' \in Phases BY <1>2 DEF EndIteration, Phases
  <2> QED BY <1>2, <2>3, <2>4, <2>5 DEF EndIteration, TypeOK
<1> QED BY <1>1, <1>2

\* A worker starts while one is free, and ends.
LEMMA WorkersMove ==
    ASSUME NEW rs \in Workers, NEW r \in Repos
    PROVE  /\ WorkerFree(rs) => rs \cup {r} \in Workers
           /\ rs \ {r} \in Workers
<1>1. rs \in SUBSET Repos /\ Cardinality(rs) <= WorkerLimit BY DEF Workers
<1>2. IsFiniteSet(rs) /\ WorkerLimit \in Nat
    BY <1>1, RuntimeAssumption, FS_Subset DEF RuntimeAssumption
<1>3. Cardinality(rs) \in Nat BY <1>2, FS_CardinalityType
<1>4. /\ Cardinality(rs \cup {r}) = IF r \in rs THEN Cardinality(rs) ELSE Cardinality(rs) + 1
      /\ Cardinality(rs \ {r}) = IF r \in rs THEN Cardinality(rs) - 1 ELSE Cardinality(rs)
    BY <1>2, FS_AddElement, FS_RemoveElement
<1>5. ASSUME WorkerFree(rs) PROVE Cardinality(rs \cup {r}) <= WorkerLimit
    BY <1>2, <1>3, <1>4, <1>5 DEF WorkerFree
<1>6. Cardinality(rs \ {r}) <= WorkerLimit BY <1>1, <1>2, <1>3, <1>4
<1>7. rs \cup {r} \in SUBSET Repos /\ rs \ {r} \in SUBSET Repos BY <1>1
<1> QED BY <1>5, <1>6, <1>7 DEF Workers

\* Applying an effect: what each of them appends to the follow-ups.
LEMMA ApplyEffectTypes == TypeOK /\ ApplyEffect => TypeOK'
<1> SUFFICES ASSUME TypeOK, ApplyEffect PROVE TypeOK'
    OBVIOUS
<1> USE DEF envVars, backendVars, stateVars, FollowUp
<1>1. ASSUME EffectDone, effects # <<>> PROVE effects' \in Seq(Effect)
    BY <1>1 DEF EffectDone, TypeOK
<1>2. effects # <<>> => Head(effects) \in Effect
    BY DEF TypeOK
<1>3. \A e \in Event : Append(followUps, e) \in Seq(Event)
    BY DEF TypeOK
<1>4. CASE StartRepoScan
  <2>1. [kind |-> "RepoScanCompleted", repos |-> present] \in Event
      BY EventForms DEF TypeOK
  <2>2. Plain("RepoScanFailed") \in Event BY EventForms DEF PlainEvents
  <2>3. followUps' \in Seq(Event) BY <1>3, <1>4, <2>1, <2>2 DEF StartRepoScan
  <2>4. env' \in Environments BY <1>4, SpendTypes DEF StartRepoScan, FaultKinds, TypeOK
  <2> QED BY <1>1, <1>4, <2>3, <2>4 DEF StartRepoScan, Applying, TypeOK
<1>5. CASE ConfigureWatcher
  <2>1. Head(effects).repos \in SUBSET Repos
      BY <1>2, <1>5, EffectFields DEF ConfigureWatcher, Applying
  <2>2. Plain("WatcherRecovered") \in Event /\ Plain("WatcherDegraded") \in Event
      BY EventForms DEF PlainEvents
  <2>3. followUps' \in Seq(Event) BY <1>3, <1>5, <2>2 DEF ConfigureWatcher
  <2>4. env' \in Environments BY <1>5, SpendTypes DEF ConfigureWatcher, FaultKinds, TypeOK
  <2>5. CASE watcher' = [watcher EXCEPT !.configured = TRUE, !.up = TRUE,
                                        !.paths = Head(effects).repos]
    <3>1. watcher' \in Watchers BY <2>1, <2>5 DEF TypeOK, Watchers
    <3> QED BY <1>1, <1>5, <2>3, <2>4, <3>1 DEF ConfigureWatcher, Applying, TypeOK
  <2>6. CASE UNCHANGED watcher
      BY <1>1, <1>5, <2>3, <2>4, <2>6 DEF ConfigureWatcher, Applying, TypeOK
  <2> QED BY <1>5, <2>5, <2>6 DEF ConfigureWatcher
<1>6. CASE ScheduleWatcherDebounce
    BY <1>1, <1>6 DEF ScheduleWatcherDebounce, Applying, TypeOK
<1>7. ASSUME NEW p \in SUBSET Repos, NEW n \in Workers,
             effects # <<>>, PoolBecomes(p, n)
      PROVE  effects' \in Seq(Effect)
  <2>1. Pool(p, n) \in Effect BY DEF Pool, Effect
  <2> QED BY <1>7, <2>1 DEF PoolBecomes, TypeOK
<1>8. Applying("RefreshRepoSummaries") =>
        /\ effects # <<>>
        /\ Head(effects).pending \in SUBSET Repos
        /\ Head(effects).running \in Workers
    BY <1>2, EffectFields DEF Applying
<1>9. CASE SpawnSummaryWorker
  <2>1. PICK r \in Head(effects).pending :
          /\ PoolBecomes(Head(effects).pending \ {r}, Head(effects).running \cup {r})
          /\ FollowUp(About("RepoSummaryRefreshStarted", r))
      BY <1>9 DEF SpawnSummaryWorker
  <2>2. r \in Repos BY <1>8, <1>9 DEF SpawnSummaryWorker
  <2>3. /\ Head(effects).pending \ {r} \in SUBSET Repos
        /\ Head(effects).running \cup {r} \in Workers
      BY <1>8, <1>9, <2>2, WorkersMove DEF SpawnSummaryWorker
  <2>4. effects' \in Seq(Effect) BY <1>7, <1>8, <1>9, <2>1, <2>3 DEF SpawnSummaryWorker
  <2>5. About("RepoSummaryRefreshStarted", r) \in Event
      BY <2>2, EventForms DEF RepoEvents
  <2>6. followUps' \in Seq(Event) BY <1>3, <2>1, <2>5
  <2> QED BY <1>9, <2>4, <2>6 DEF SpawnSummaryWorker, TypeOK
<1>10. CASE ReceiveSummary
  <2>1. PICK r \in Head(effects).running :
          /\ PoolBecomes(Head(effects).pending, Head(effects).running \ {r})
          /\ \/ /\ r \in present
                /\ FollowUp([kind |-> "RepoSummaryUpdated", repo |-> r,
                             ver |-> disk[r]])
                /\ UNCHANGED env
             \/ /\ IF r \in present THEN Fault("read") ELSE UNCHANGED env
                /\ FollowUp(About("RepoSummaryRefreshFailed", r))
      BY <1>10 DEF ReceiveSummary
  <2>2. r \in Repos BY <1>8, <1>10 DEF ReceiveSummary, Workers
  <2>3. Head(effects).running \ {r} \in Workers
      BY <1>8, <1>10, <2>1, <2>2, WorkersMove DEF ReceiveSummary
  <2>4. effects' \in Seq(Effect) BY <1>7, <1>8, <1>10, <2>1, <2>3 DEF ReceiveSummary
  <2>5. [kind |-> "RepoSummaryUpdated", repo |-> r, ver |-> disk[r]] \in Event
      BY <2>2, EventForms DEF ReadEvents, TypeOK
  <2>6. About("RepoSummaryRefreshFailed", r) \in Event
      BY <2>2, EventForms DEF RepoEvents
  <2>7. followUps' \in Seq(Event) BY <1>3, <2>1, <2>5, <2>6
  <2>8. env' \in Environments BY <2>1, SpendTypes DEF FaultKinds, TypeOK
  <2> QED BY <1>10, <2>4, <2>7, <2>8 DEF ReceiveSummary, TypeOK
<1>11. CASE RefreshDone BY <1>1, <1>11 DEF RefreshDone, Applying, TypeOK
<1>12. CASE LoadRepoDetail
  <2>1. Head(effects).repo \in Repos
      BY <1>2, <1>12, EffectFields DEF LoadRepoDetail, Applying
  <2>2. [kind |-> "RepoDetailLoaded", repo |-> Head(effects).repo,
         ver |-> disk[Head(effects).repo]] \in Event
      BY <2>1, EventForms DEF ReadEvents, TypeOK
  <2>3. followUps' \in Seq(Event) BY <1>3, <1>12, <2>2 DEF LoadRepoDetail, TypeOK
  <2>4. env' \in Environments BY <1>12, SpendTypes DEF LoadRepoDetail, FaultKinds, TypeOK
  <2> QED BY <1>1, <1>12, <2>3, <2>4 DEF LoadRepoDetail, Applying, TypeOK
<1>13. CASE RunGitCommand
  <2> DEFINE r == Head(effects).repo
  <2>1. r \in Repos
      BY <1>2, <1>13, EffectFields DEF RunGitCommand, Applying
  <2>2. PICK k \in {"GitOperationCompleted", "GitOperationFailed"} :
          followUps' = followUps \o GitEvents(r, k)
      BY <1>13 DEF RunGitCommand
  <2>3. About("GitOperationStarted", r) \in Event /\ About(k, r) \in Event
      BY <2>1, EventForms DEF RepoEvents
  <2>4. GitEvents(r, k) \in Seq(Event) BY <2>3 DEF GitEvents
  <2>5. followUps' \in Seq(Event) BY <2>2, <2>4 DEF TypeOK
  <2>6. CASE UNCHANGED <<disk, env, backendQ>>
      BY <1>1, <1>13, <2>5, <2>6 DEF RunGitCommand, Applying, TypeOK
  <2>7. CASE Spend /\ disk' = [disk EXCEPT ![r] = @ + 1] /\ Notify(r)
    <3>1. backendQ' \in Seq(Event) BY <2>1, <2>7, NotifyTypes
    <3>2. env' \in Environments BY <2>7, SpendTypes
    <3>3. disk' \in [Repos -> Nat] BY <2>1, <2>7 DEF TypeOK
    <3> QED BY <1>1, <1>13, <2>5, <3>1, <3>2, <3>3 DEF RunGitCommand, Applying, TypeOK
  <2> QED BY <1>13, <2>6, <2>7 DEF RunGitCommand
<1>14. CASE PersistCacheStep
  <2>1. CacheDocument \in Document BY DEF CacheDocument, Document, TypeOK, Workspace
  <2>2. env' \in Environments BY <1>14, SpendTypes DEF PersistCacheStep, FaultKinds, TypeOK
  <2> QED BY <1>1, <1>14, <2>1, <2>2 DEF PersistCacheStep, Applying, TypeOK
<1> QED BY <1>4, <1>5, <1>6, <1>9, <1>10, <1>11, <1>12, <1>13, <1>14 DEF ApplyEffect

\* What a run() starts with.
LEMMA SeedTypes ==
    /\ TypeOK => UserActions \subseteq Event
    /\ \A refresh, fetch, toast \in BOOLEAN : DueTimers(refresh, fetch, toast) \in Seq(Event)
<1>1. ASSUME TypeOK PROVE UserActions \subseteq Event
    BY <1>1 DEF UserActions, TypeOK, Workspace, Event, PlainEvents, RepoEvents, Plain
<1>2. ASSUME NEW refresh \in BOOLEAN, NEW fetch \in BOOLEAN, NEW toast \in BOOLEAN
      PROVE  DueTimers(refresh, fetch, toast) \in Seq(Event)
  <2>1. /\ Plain("PeriodicRefreshTick") \in Event /\ Plain("PeriodicFetchTick") \in Event
        /\ Plain("ToastExpiryTick") \in Event
      BY EventForms DEF PlainEvents
  <2> QED BY <2>1 DEF DueTimers
<1> QED BY <1>1, <1>2

LEMMA ProcessTypes ==
    TypeOK /\ (Boot \/ UserInput \/ (\E refresh \in BOOLEAN : Tick(refresh)) \/ Stop)
        => TypeOK'
<1> SUFFICES ASSUME TypeOK,
                    Boot \/ UserInput \/ (\E refresh \in BOOLEAN : Tick(refresh)) \/ Stop
             PROVE  TypeOK'
    OBVIOUS
<1> USE DEF envVars, backendVars, stateVars
<1>1. CASE Boot
  <2>1. EmptyWorkspace \in Workspace
      BY DEF EmptyWorkspace, Workspace, ScanStatuses, Healths
  <2>2. ASSUME cache # None, NEW stale \in BOOLEAN PROVE LoadedWorkspace(stale) \in Workspace
    <3>1. \A s \in Summary : [s EXCEPT !.fresh = "Stale"] \in Summary
        BY DEF Summary, Freshness
    <3> QED BY <2>2, <3>1 DEF LoadedWorkspace, TypeOK, Workspace, Document
  <2>3. ws' \in Workspace BY <1>1, <2>1, <2>2 DEF Boot
  <2>4. Plain("RefreshVisibleRepos") \in Event BY EventForms DEF PlainEvents
  <2> QED BY <1>1, <2>3, <2>4 DEF Boot, TypeOK, Phases
<1>2. ASSUME NEW seed \in Seq(Event), Run(seed) PROVE TypeOK'
    BY <1>2 DEF Run, TypeOK, Phases
<1>3. CASE UserInput
  <2>1. PICK e \in UserActions : Run(<<e>>) BY <1>3 DEF UserInput
  <2>2. <<e>> \in Seq(Event) BY <2>1, SeedTypes
  <2> QED BY <1>2, <2>1, <2>2
<1>4. ASSUME NEW refresh \in BOOLEAN, Tick(refresh) PROVE TypeOK'
    BY <1>2, <1>4, SeedTypes DEF Tick
<1>5. CASE Stop
  <2>1. env' \in Environments BY <1>5, SpendTypes DEF Stop, FaultKinds
  <2>2. EmptyWorkspace \in Workspace
      BY DEF EmptyWorkspace, Workspace, ScanStatuses, Healths
  <2>3. jobs' \in [JobKinds \X Repos -> JobStates] BY <1>5 DEF Stop, JobStates
  <2>4. cache' \in {cache, None} BY <1>5 DEF Stop
  <2>5. watcher' \in Watchers BY <1>5 DEF Stop, TypeOK, Watchers, Unconfigured
  <2>6. /\ phase' = "down" /\ queue' = <<>> /\ effects' = <<>> /\ followUps' = <<>>
        /\ debounceScheduled' = FALSE /\ ws' = EmptyWorkspace
        /\ active' = None /\ detail' = 0 /\ backendQ' = <<>>
        /\ UNCHANGED <<present, disk>>
      BY <1>5 DEF Stop
  <2>7. /\ queue' \in Seq(Event) /\ followUps' \in Seq(Event) /\ backendQ' \in Seq(Event)
        /\ effects' \in Seq(Effect)
      BY <2>6
  <2>8. phase' \in Phases /\ debounceScheduled' \in BOOLEAN BY <2>6 DEF Phases
  <2>9. active' \in Repos \cup {None} /\ detail' \in Nat BY <2>6
  <2>10. present' \in SUBSET Repos /\ disk' \in [Repos -> Nat] BY <2>6 DEF TypeOK
  <2>11. cache' \in Document \cup {None} BY <2>4 DEF TypeOK
  <2>12. ws' \in Workspace BY <2>2, <2>6
  <2> QED BY <2>1, <2>3, <2>5, <2>7, <2>8, <2>9, <2>10, <2>11, <2>12 DEF TypeOK
<1> QED BY <1>1, <1>3, <1>4, <1>5

LEMMA StepTypes == TypeOK /\ [Next]_vars => TypeOK'
<1> SUFFICES ASSUME TypeOK, [Next]_vars PROVE TypeOK'
    OBVIOUS
<1>1. CASE Next
    BY <1>1, EnvironmentTypes, LoopTypes, ApplyEffectTypes, ProcessTypes DEF Next, Loop
<1>2. CASE UNCHANGED vars
    BY <1>2 DEF vars, envVars, backendVars, loopVars, stateVars, TypeOK
<1> QED BY <1>1, <1>2

\* Every reachable state of the event loop is well typed: every event in its
\* queues is one the reducer has a handler for, with the fields it reads.
THEOREM TypeCorrect == Spec => []TypeOK
    BY InitTypes, StepTypes, PTL DEF Spec

-----------------------------------------------------------------------------
(* The two debounce flags.                                                 *)

NoFlushIn(s) == \A i \in DOMAIN s : s[i].kind # "WatcherDebounceFlush"

\* The strengthening of DebounceCoupled: effects are outstanding only while
\* they are applied, a debounce is asked for by an event of its own, nothing is queued or armed between two calls of run(),
\* and the flush event is only ever pushed by the end of an iteration.
FlushDiscipline ==
    /\ phase # "effects" => effects = <<>>
    /\ phase \in {"down", "idle"} => queue = <<>> /\ ~debounceScheduled
    /\ FlushQueued => phase = "dispatch"
    /\ ScheduleAsked => Len(effects) = 1
    /\ NoFlushIn(followUps)
    /\ NoFlushIn(backendQ)

DebounceInv == TypeOK /\ FlushDiscipline /\ DebounceCoupled

\* What the handlers do to the debounce state: the flush clears it, an
\* invalidation sets it and asks for a debounce unless one is pending, and
\* nothing else touches it.
LEMMA ReduceDebounce ==
    ASSUME TypeOK, NEW e \in Event, Reduce(e)
    PROVE  /\ e.kind = "WatcherDebounceFlush" =>
                ~ws'.debouncePending /\ ws'.invalidations = {} /\ ~ScheduleAsked'
           /\ e.kind = "RepoInvalidated" =>
                /\ ws'.debouncePending /\ ws'.invalidations # {}
                /\ ScheduleAsked' <=> ~ws.debouncePending
                /\ ScheduleAsked' => Len(effects') = 1
           /\ e.kind \notin {"WatcherDebounceFlush", "RepoInvalidated"} =>
                /\ ws'.debouncePending = ws.debouncePending
                /\ ws'.invalidations = ws.invalidations
                /\ ~ScheduleAsked'
<1> DEFINE Goal ==
        /\ e.kind = "WatcherDebounceFlush" =>
                ~ws'.debouncePending /\ ws'.invalidations = {} /\ ~ScheduleAsked'
        /\ e.kind = "RepoInvalidated" =>
                /\ ws'.debouncePending /\ ws'.invalidations # {}
                /\ ScheduleAsked' <=> ~ws.debouncePending
                /\ ScheduleAsked' => Len(effects') = 1
        /\ e.kind \notin {"WatcherDebounceFlush", "RepoInvalidated"} =>
                /\ ws'.debouncePending = ws.debouncePending
                /\ ws'.invalidations = ws.invalidations
                /\ ~ScheduleAsked'
<1> DEFINE Untouched == /\ e.kind \notin {"WatcherDebounceFlush", "RepoInvalidated"}
                        /\ ws'.debouncePending = ws.debouncePending
                        /\ ws'.invalidations = ws.invalidations
                        /\ \A i \in DOMAIN effects' :
                             effects'[i].kind # "ScheduleWatcherDebounce"
<1>1. Untouched => Goal BY DEF ScheduleAsked
<1>2. ws \in Workspace BY DEF TypeOK
<1> USE DEF Workspace, Plain, About, LoadDetail, Refresh, Pool, Watch, PersistCache
<1>3. CASE ReduceRefreshVisibleRepos(e)
    BY <1>1, <1>2, <1>3 DEF ReduceRefreshVisibleRepos
<1>4. CASE ReduceRefreshSelectedRepo(e)
    BY <1>1, <1>2, <1>4 DEF ReduceRefreshSelectedRepo
<1>5. CASE ReduceRefreshSelectedRepoDeep(e)
    BY <1>1, <1>2, <1>5 DEF ReduceRefreshSelectedRepoDeep
<1>6. CASE ReduceEnterRepoMode(e)
    BY <1>1, <1>2, <1>6 DEF ReduceEnterRepoMode
<1>7. CASE ReduceLeaveRepoMode(e)
    BY <1>1, <1>2, <1>7 DEF ReduceLeaveRepoMode
<1>8. CASE ReduceGitAction(e)
    BY <1>1, <1>2, <1>8 DEF ReduceGitAction, EnqueueGitJob
<1>24. CASE ReduceDetachSelectedWorktree(e)
    BY <1>1, <1>2, <1>24 DEF ReduceDetachSelectedWorktree
<1>9. CASE ReducePeriodicFetchTick(e)
    BY <1>1, <1>2, <1>9 DEF ReducePeriodicFetchTick, EnqueueGitJob, stateVars
<1>10. CASE ReduceRepoScanFailed(e)
    BY <1>1, <1>2, <1>10 DEF ReduceRepoScanFailed
<1>11. CASE ReduceRepoScanCompleted(e)
    BY <1>1, <1>2, <1>11 DEF ReduceRepoScanCompleted, ScanEffects
<1>12. CASE ReduceRepoSummaryRefreshStarted(e)
    BY <1>1, <1>2, <1>12 DEF ReduceRepoSummaryRefreshStarted
<1>13. CASE ReduceRepoSummaryUpdated(e)
    BY <1>1, <1>2, <1>13 DEF ReduceRepoSummaryUpdated, UpdatedEffects
<1>14. CASE ReduceRepoSummaryRefreshFailed(e)
    BY <1>1, <1>2, <1>14 DEF ReduceRepoSummaryRefreshFailed, RefreshFailedEffects
<1>15. CASE ReduceRepoDetailLoaded(e)
    BY <1>1, <1>2, <1>15 DEF ReduceRepoDetailLoaded
<1>16. CASE ReduceGitOperationStarted(e)
    BY <1>1, <1>2, <1>16 DEF ReduceGitOperationStarted
<1>17. CASE ReduceGitOperationDone(e)
    BY <1>1, <1>2, <1>17 DEF ReduceGitOperationDone
<1>18. CASE ReduceRepoInvalidated(e)
  <2>1. ws'.debouncePending /\ ws'.invalidations # {}
      BY <1>2, <1>18 DEF ReduceRepoInvalidated
  <2>2. ScheduleAsked' <=> ~ws.debouncePending
      BY <1>2, <1>18 DEF ReduceRepoInvalidated, InvalidationEffects, ScheduleAsked
  <2>3. ScheduleAsked' => Len(effects') = 1
      BY <1>18 DEF ReduceRepoInvalidated, InvalidationEffects, ScheduleAsked
  <2> QED BY <1>18, <2>1, <2>2, <2>3 DEF ReduceRepoInvalidated
<1>19. CASE ReduceWatcherDegraded(e)
    BY <1>1, <1>2, <1>19 DEF ReduceWatcherDegraded
<1>20. CASE ReduceWatcherRecovered(e)
    BY <1>1, <1>2, <1>20 DEF ReduceWatcherRecovered
<1>21. CASE ReducePeriodicRefreshTick(e)
    BY <1>1, <1>2, <1>21 DEF ReducePeriodicRefreshTick, PollEffects, LoadActiveDetail
<1>22. CASE ReduceWatcherDebounceFlush(e)
  <2>1. ~ws'.debouncePending /\ ws'.invalidations = {}
      BY <1>2, <1>22 DEF ReduceWatcherDebounceFlush
  <2>2. PICK rest \in Seq(Effect) :
          /\ \A i \in DOMAIN rest : rest[i].kind = "RefreshRepoSummaries"
          /\ effects' = (IF active \in ws.invalidations
                         THEN FlushActive(active) ELSE <<>>) \o rest
      BY <1>22, FlushEffects
  <2> DEFINE first == IF active \in ws.invalidations THEN FlushActive(active) ELSE <<>>
  <2>4. \A i \in DOMAIN first : first[i].kind # "ScheduleWatcherDebounce"
      BY DEF FlushActive
  <2>5. \A i \in DOMAIN rest : rest[i].kind # "ScheduleWatcherDebounce"
      BY <2>2
  <2>6. first \in Seq(Effect)
    <3>1. ws.invalidations \in SUBSET Repos BY <1>2
    <3> HIDE DEF Refresh, Pool, LoadDetail, About, Plain, PersistCache, Watch
    <3>2. active \in ws.invalidations => FlushActive(active) \in Seq(Effect)
        BY <3>1, EffectForms DEF FlushActive
    <3> QED BY <3>2
  <2>7. effects' = first \o rest BY <2>2
  <2> HIDE DEF first
  <2>8. ~ScheduleAsked' BY <2>4, <2>5, <2>6, <2>7 DEF ScheduleAsked
  <2> QED BY <1>22, <2>1, <2>8 DEF ReduceWatcherDebounceFlush
<1>23. CASE ReduceToastExpiryTick(e)
    BY <1>1, <1>2, <1>23 DEF ReduceToastExpiryTick, stateVars
<1> QED BY <1>3, <1>4, <1>5, <1>6, <1>7, <1>8, <1>9, <1>10, <1>11, <1>12, <1>13,
           <1>14, <1>15, <1>16, <1>17, <1>18, <1>19, <1>20, <1>21, <1>22, <1>23, <1>24
        DEF Reduce

LEMMA InitDebounce == Init => DebounceInv
<1> SUFFICES ASSUME Init PROVE DebounceInv
    OBVIOUS
<1>1. TypeOK BY InitTypes
<1>2. ~ws.debouncePending /\ ws.invalidations = {} BY DEF Init, EmptyWorkspace
<1>3. /\ queue = <<>> /\ effects = <<>> /\ followUps = <<>> /\ backendQ = <<>>
      /\ debounceScheduled = FALSE /\ phase = "down"
    BY DEF Init
<1>4. DebounceCoupled
    BY <1>2, <1>3 DEF DebounceCoupled, ScheduleAsked, FlushQueued
<1>5. FlushDiscipline
    BY <1>3 DEF FlushDiscipline, FlushQueued, ScheduleAsked, NoFlushIn
<1> QED BY <1>1, <1>4, <1>5 DEF DebounceInv

\* Steps that leave the loop and the reducer alone, but for what the backend
\* will report.
LEMMA EnvironmentDebounce ==
    ASSUME DebounceInv, TypeOK', UNCHANGED <<loopVars, stateVars>>, NoFlushIn(backendQ')
    PROVE  DebounceInv'
    BY DEF DebounceInv, DebounceCoupled, FlushDiscipline, NoFlushIn, ScheduleAsked,
           FlushQueued, loopVars, stateVars

LEMMA AppendNoFlush ==
    ASSUME NEW s \in Seq(Event), NoFlushIn(s), NEW e \in Event,
           e.kind # "WatcherDebounceFlush"
    PROVE  NoFlushIn(Append(s, e))
    BY DEF NoFlushIn

LEMMA NotifyNoFlush ==
    ASSUME DebounceInv, NEW r \in Repos, Notify(r)
    PROVE  NoFlushIn(backendQ')
<1>1. About("RepoInvalidated", r) \in Event /\ About("RepoInvalidated", r).kind # "WatcherDebounceFlush"
    BY EventForms DEF About, RepoEvents
<1>2. backendQ \in Seq(Event) /\ NoFlushIn(backendQ) BY DEF DebounceInv, FlushDiscipline, TypeOK
<1> QED BY <1>1, <1>2, AppendNoFlush DEF Notify

LEMMA EnvironmentKeepsDebounce == DebounceInv /\ Environment => DebounceInv'
<1> SUFFICES ASSUME DebounceInv, Environment PROVE DebounceInv'
    OBVIOUS
<1>1. TypeOK' BY EnvironmentTypes DEF DebounceInv
<1>2. UNCHANGED <<loopVars, stateVars>>
    BY DEF Environment, ChangeRepo, RemoveRepo, AddRepo, TouchRepo, BackendFails,
           BackendRecovers
<1>3. backendQ \in Seq(Event) /\ NoFlushIn(backendQ)
    BY DEF DebounceInv, FlushDiscipline, TypeOK
<1>4. NoFlushIn(backendQ')
  <2>1. CASE \E r \in Repos : ChangeRepo(r) \/ RemoveRepo(r) \/ TouchRepo(r)
      BY <2>1, NotifyNoFlush DEF ChangeRepo, RemoveRepo, TouchRepo
  <2>2. CASE \E r \in Repos : AddRepo(r)
      BY <1>3, <2>2 DEF AddRepo, backendVars
  <2>3. \A k \in {"WatcherDegraded", "WatcherRecovered"} :
          NoFlushIn(Append(backendQ, Plain(k)))
    <3>1. \A k \in {"WatcherDegraded", "WatcherRecovered"} :
            Plain(k) \in Event /\ Plain(k).kind # "WatcherDebounceFlush"
        BY EventForms DEF Plain, PlainEvents
    <3> QED BY <1>3, <3>1, AppendNoFlush
  <2>4. CASE BackendFails BY <2>3, <2>4 DEF BackendFails
  <2>5. CASE BackendRecovers BY <2>3, <2>5 DEF BackendRecovers
  <2> QED BY <2>1, <2>2, <2>4, <2>5 DEF Environment
<1> QED BY <1>1, <1>2, <1>4, EnvironmentDebounce

LEMMA DispatchKeepsDebounce == DebounceInv /\ Dispatch => DebounceInv'
<1> SUFFICES ASSUME DebounceInv, Dispatch PROVE DebounceInv'
    OBVIOUS
<1> DEFINE e == Head(queue)
<1>1. TypeOK' BY LoopTypes DEF DebounceInv
<1>2. /\ TypeOK /\ queue \in Seq(Event) /\ queue # <<>> /\ e \in Event /\ Reduce(e)
      /\ queue' = Tail(queue) /\ followUps' = <<>> /\ phase = "dispatch"
      /\ phase' = "effects" /\ UNCHANGED <<debounceScheduled, backendQ>>
    BY DEF DebounceInv, TypeOK, Dispatch, backendVars
<1>3. effects = <<>> BY <1>2 DEF DebounceInv, FlushDiscipline
<1>4. ~ScheduleAsked BY <1>3 DEF ScheduleAsked
<1>5. FlushQueued => queue = <<e>> /\ e.kind = "WatcherDebounceFlush"
    BY <1>2 DEF DebounceInv, DebounceCoupled, FlushQueued
<1>6. e.kind = "WatcherDebounceFlush" => FlushQueued
    BY <1>2 DEF FlushQueued
<1>7. ~FlushQueued'
    BY <1>2, <1>5 DEF FlushQueued
<1>8. FlushDiscipline'
  <2>1. ScheduleAsked' => Len(effects') = 1 BY <1>2, ReduceDebounce
  <2> QED BY <1>2, <1>7, <2>1 DEF DebounceInv, FlushDiscipline, NoFlushIn
<1>9. /\ ws.debouncePending <=> debounceScheduled \/ FlushQueued
      /\ FlushQueued => ~debounceScheduled
      /\ ws.debouncePending <=> ws.invalidations # {}
    BY <1>4 DEF DebounceInv, DebounceCoupled
<1>10. DebounceCoupled'
  <2>1. CASE e.kind = "WatcherDebounceFlush"
    <3>1. ~ws'.debouncePending /\ ws'.invalidations = {} /\ ~ScheduleAsked'
        BY <1>2, <2>1, ReduceDebounce
    <3> QED BY <1>2, <1>6, <1>7, <1>9, <2>1, <3>1 DEF DebounceCoupled
  <2>2. CASE e.kind = "RepoInvalidated"
    <3>1. /\ ws'.debouncePending /\ ws'.invalidations # {}
          /\ ScheduleAsked' <=> ~ws.debouncePending
        BY <1>2, <2>2, ReduceDebounce
    <3> QED BY <1>2, <1>5, <1>7, <1>9, <2>2, <3>1 DEF DebounceCoupled
  <2>3. CASE e.kind \notin {"WatcherDebounceFlush", "RepoInvalidated"}
    <3>1. /\ ws'.debouncePending = ws.debouncePending
          /\ ws'.invalidations = ws.invalidations
          /\ ~ScheduleAsked'
        BY <1>2, <2>3, ReduceDebounce
    <3> QED BY <1>2, <1>5, <1>7, <1>9, <2>3, <3>1 DEF DebounceCoupled
  <2> QED BY <2>1, <2>2, <2>3
<1> QED BY <1>1, <1>8, <1>10 DEF DebounceInv

LEMMA EndIterationKeepsDebounce == DebounceInv /\ EndIteration => DebounceInv'
<1> SUFFICES ASSUME DebounceInv, EndIteration PROVE DebounceInv'
    OBVIOUS
<1>1. TypeOK' BY LoopTypes DEF DebounceInv
<1>2. /\ phase = "effects" /\ effects = <<>> /\ UNCHANGED <<effects, ws>>
      /\ queue' = IF Remaining = <<>> THEN Flush ELSE Remaining
      /\ debounceScheduled' = (debounceScheduled /\ Remaining # <<>>)
      /\ phase' = IF queue' = <<>> THEN "idle" ELSE "dispatch"
      /\ followUps' = <<>> /\ backendQ' = <<>>
    BY DEF EndIteration, stateVars
<1>3. ~ScheduleAsked /\ ~ScheduleAsked' BY <1>2 DEF ScheduleAsked
<1>4. ~FlushQueued BY <1>2 DEF DebounceInv, FlushDiscipline
<1>5. ws.debouncePending <=> debounceScheduled
    BY <1>3, <1>4 DEF DebounceInv, DebounceCoupled
<1>6. ws.debouncePending <=> ws.invalidations # {}
    BY DEF DebounceInv, DebounceCoupled
<1>7. NoFlushIn(Remaining)
  <2>1. NoFlushIn(queue) BY <1>4 DEF FlushQueued, NoFlushIn
  <2>2. NoFlushIn(followUps) /\ NoFlushIn(backendQ) BY DEF DebounceInv, FlushDiscipline
  <2>3. queue \in Seq(Event) /\ followUps \in Seq(Event) /\ backendQ \in Seq(Event)
      BY DEF DebounceInv, TypeOK
  <2>4. ASSUME NEW s \in Seq(Event), NEW t \in Seq(Event), NoFlushIn(s), NoFlushIn(t)
        PROVE  s \o t \in Seq(Event) /\ NoFlushIn(s \o t)
      BY <2>4 DEF NoFlushIn
  <2>5. queue \o followUps \in Seq(Event) /\ NoFlushIn(queue \o followUps)
      BY <2>1, <2>2, <2>3, <2>4
  <2> QED BY <2>2, <2>3, <2>4, <2>5 DEF Remaining
<1>8. CASE Remaining # <<>>
  <2>1. ~FlushQueued' BY <1>2, <1>7, <1>8 DEF FlushQueued, NoFlushIn
  <2>2. phase' = "dispatch" /\ debounceScheduled' = debounceScheduled
      BY <1>2, <1>8 DEF DebounceInv, TypeOK
  <2>3. DebounceCoupled'
      BY <1>2, <1>3, <1>5, <1>6, <2>1, <2>2 DEF DebounceCoupled
  <2>4. FlushDiscipline' BY <1>2, <1>3, <2>1, <2>2 DEF FlushDiscipline, NoFlushIn
  <2> QED BY <1>1, <2>3, <2>4 DEF DebounceInv
<1>9. CASE Remaining = <<>> /\ debounceScheduled
  <2>1. queue' = <<Plain("WatcherDebounceFlush")>> BY <1>2, <1>9 DEF Flush
  <2>2. FlushQueued' /\ Len(queue') = 1 /\ queue' # <<>>
      BY <2>1 DEF FlushQueued, Plain
  <2>3. phase' = "dispatch" /\ ~debounceScheduled' BY <1>2, <1>9, <2>2
  <2>4. DebounceCoupled'
      BY <1>2, <1>3, <1>5, <1>6, <1>9, <2>2, <2>3 DEF DebounceCoupled
  <2>5. FlushDiscipline' BY <1>2, <1>3, <2>3 DEF FlushDiscipline, NoFlushIn
  <2> QED BY <1>1, <2>4, <2>5 DEF DebounceInv
<1>10. CASE Remaining = <<>> /\ ~debounceScheduled
  <2>1. queue' = <<>> /\ ~debounceScheduled' /\ phase' = "idle"
      BY <1>2, <1>10 DEF Flush
  <2>2. ~FlushQueued' BY <2>1 DEF FlushQueued
  <2>3. DebounceCoupled'
      BY <1>2, <1>3, <1>5, <1>6, <1>10, <2>1, <2>2 DEF DebounceCoupled
  <2>4. FlushDiscipline' BY <1>2, <1>3, <2>1, <2>2 DEF FlushDiscipline, NoFlushIn
  <2> QED BY <1>1, <2>3, <2>4 DEF DebounceInv
<1> QED BY <1>8, <1>9, <1>10

\* Applying any other effect leaves both flags alone.
LEMMA QuietEffect ==
    ASSUME DebounceInv, TypeOK', phase = "effects",
           effects # <<>>, Head(effects).kind # "ScheduleWatcherDebounce",
           EffectDone \/ (\E p, n : PoolBecomes(p, n)),
           UNCHANGED <<phase, queue, debounceScheduled, stateVars>>,
           NoFlushIn(followUps'), NoFlushIn(backendQ')
    PROVE  DebounceInv'
<1>1. effects \in Seq(Effect) BY DEF DebounceInv, TypeOK
<1>2. ~ScheduleAsked
    BY <1>1 DEF DebounceInv, FlushDiscipline, ScheduleAsked
<1>3. ~ScheduleAsked'
  <2>1. CASE EffectDone
      BY <1>1, <1>2, <2>1 DEF ScheduleAsked, EffectDone
  <2>2. ASSUME NEW p, NEW n, PoolBecomes(p, n) PROVE ~ScheduleAsked'
    <3>1. Pool(p, n).kind # "ScheduleWatcherDebounce" BY DEF Pool
    <3> HIDE DEF Pool
    <3>2. effects' = <<Pool(p, n)>> \o Tail(effects) BY <2>2 DEF PoolBecomes
    <3>3. \A i \in DOMAIN Tail(effects) : Tail(effects)[i].kind # "ScheduleWatcherDebounce"
        BY <1>1, <1>2 DEF ScheduleAsked
    <3>4. Tail(effects) \in Seq(Effect) BY <1>1
    <3>5. \A i \in DOMAIN effects' :
            \/ i = 1 /\ effects'[i] = Pool(p, n)
            \/ i - 1 \in DOMAIN Tail(effects) /\ effects'[i] = Tail(effects)[i - 1]
        BY <3>2, <3>4
    <3> QED BY <3>1, <3>3, <3>5 DEF ScheduleAsked
  <2> QED BY <2>1, <2>2
<1>4. UNCHANGED <<ws, queue, debounceScheduled, phase>> BY DEF stateVars
<1>5. DebounceCoupled'
    BY <1>2, <1>3, <1>4 DEF DebounceInv, DebounceCoupled, FlushQueued
<1>6. FlushDiscipline'
    BY <1>3, <1>4 DEF DebounceInv, FlushDiscipline, FlushQueued
<1> QED BY <1>5, <1>6 DEF DebounceInv

LEMMA ApplyEffectKeepsDebounce == DebounceInv /\ ApplyEffect => DebounceInv'
<1> SUFFICES ASSUME DebounceInv, ApplyEffect PROVE DebounceInv'
    OBVIOUS
<1>1. TypeOK /\ TypeOK' BY ApplyEffectTypes DEF DebounceInv
<1>2. /\ followUps \in Seq(Event) /\ NoFlushIn(followUps)
      /\ backendQ \in Seq(Event) /\ NoFlushIn(backendQ)
    BY <1>1 DEF DebounceInv, FlushDiscipline, TypeOK
<1>3. ASSUME NEW e, FollowUp(e), e.kind # "WatcherDebounceFlush"
      PROVE  NoFlushIn(followUps')
    BY <1>2, <1>3 DEF FollowUp, NoFlushIn
<1>4. \A k, r : About(k, r).kind = k /\ Plain(k).kind = k BY DEF About, Plain
<1> USE DEF backendVars, Applying
<1>5. CASE StartRepoScan
  <2>1. NoFlushIn(followUps') BY <1>3, <1>4, <1>5 DEF StartRepoScan
  <2> QED BY <1>1, <1>2, <1>5, <2>1, QuietEffect DEF StartRepoScan
<1>6. CASE ConfigureWatcher
  <2>1. NoFlushIn(followUps') BY <1>3, <1>4, <1>6 DEF ConfigureWatcher
  <2> QED BY <1>1, <1>2, <1>6, <2>1, QuietEffect DEF ConfigureWatcher
<1>7. CASE ScheduleWatcherDebounce
  <2>1. ScheduleAsked /\ phase = "effects" /\ effects # <<>>
    <3>1. effects # <<>> /\ Head(effects).kind = "ScheduleWatcherDebounce"
        BY <1>7 DEF ScheduleWatcherDebounce
    <3> QED BY <1>1, <1>7, <3>1 DEF ScheduleWatcherDebounce, ScheduleAsked, TypeOK
  <2>2. Len(effects) = 1 BY <2>1 DEF DebounceInv, FlushDiscipline
  <2>3. effects' = <<>>
      BY <1>1, <1>7, <2>2 DEF ScheduleWatcherDebounce, EffectDone, TypeOK
  <2>4. ~ScheduleAsked' BY <2>3 DEF ScheduleAsked
  <2>5. debounceScheduled' = TRUE /\ UNCHANGED <<ws, queue, phase, followUps, backendQ>>
      BY <1>7 DEF ScheduleWatcherDebounce, stateVars
  <2>6. DebounceCoupled'
      BY <2>1, <2>4, <2>5 DEF DebounceInv, DebounceCoupled, FlushQueued
  <2>7. FlushDiscipline'
      BY <2>1, <2>4, <2>5 DEF DebounceInv, FlushDiscipline, FlushQueued, NoFlushIn
  <2> QED BY <1>1, <2>6, <2>7 DEF DebounceInv
<1>8. CASE SpawnSummaryWorker
  <2>1. NoFlushIn(followUps') BY <1>3, <1>4, <1>8 DEF SpawnSummaryWorker
  <2> QED BY <1>1, <1>2, <1>8, <2>1, QuietEffect DEF SpawnSummaryWorker
<1>9. CASE ReceiveSummary
  <2>1. NoFlushIn(followUps') BY <1>3, <1>4, <1>9 DEF ReceiveSummary
  <2> QED BY <1>1, <1>2, <1>9, <2>1, QuietEffect DEF ReceiveSummary
<1>10. CASE RefreshDone
    BY <1>1, <1>2, <1>10, QuietEffect DEF RefreshDone
<1>11. CASE LoadRepoDetail
  <2>1. NoFlushIn(followUps') BY <1>2, <1>3, <1>4, <1>11 DEF LoadRepoDetail
  <2> QED BY <1>1, <1>2, <1>11, <2>1, QuietEffect DEF LoadRepoDetail
<1>12. CASE RunGitCommand
  <2> DEFINE r == Head(effects).repo
  <2>1. PICK k \in {"GitOperationCompleted", "GitOperationFailed"} :
          followUps' = followUps \o GitEvents(r, k)
      BY <1>12 DEF RunGitCommand
  <2>2. NoFlushIn(followUps')
    <3>1. /\ DOMAIN GitEvents(r, k) = 1..2
          /\ GitEvents(r, k)[1].kind = "GitOperationStarted"
          /\ GitEvents(r, k)[2].kind = k /\ Len(GitEvents(r, k)) = 2
        BY <1>4 DEF GitEvents
    <3>2. DOMAIN followUps' = 1..(Len(followUps) + 2)
        BY <1>2, <2>1, <3>1 DEF GitEvents
    <3>3. \A i \in DOMAIN followUps' :
            followUps'[i] = IF i <= Len(followUps) THEN followUps[i]
                            ELSE GitEvents(r, k)[i - Len(followUps)]
        BY <1>2, <2>1, <3>2 DEF GitEvents
    <3> QED BY <1>2, <2>1, <3>1, <3>2, <3>3 DEF NoFlushIn
  <2>3. NoFlushIn(backendQ')
    <3>1. Head(effects) \in Effect /\ Head(effects).kind = "RunGitCommand"
        BY <1>1, <1>12 DEF RunGitCommand, TypeOK
    <3>2. r \in Repos BY <3>1, EffectFields
    <3>3. CASE UNCHANGED <<disk, env, backendQ>> BY <1>2, <3>3
    <3>4. CASE Notify(r) BY <3>2, <3>4, NotifyNoFlush
    <3> QED BY <1>12, <3>3, <3>4 DEF RunGitCommand
  <2> QED BY <1>1, <1>12, <2>2, <2>3, QuietEffect DEF RunGitCommand
<1>13. CASE PersistCacheStep
    BY <1>1, <1>2, <1>13, QuietEffect DEF PersistCacheStep
<1> QED BY <1>5, <1>6, <1>7, <1>8, <1>9, <1>10, <1>11, <1>12, <1>13 DEF ApplyEffect

\* Booting, entering run() and stopping: queues are replaced, flags are clear.
LEMMA ProcessKeepsDebounce ==
    DebounceInv /\ (Boot \/ UserInput \/ (\E refresh \in BOOLEAN : Tick(refresh)) \/ Stop)
        => DebounceInv'
<1> SUFFICES ASSUME DebounceInv,
                    Boot \/ UserInput \/ (\E refresh \in BOOLEAN : Tick(refresh)) \/ Stop
             PROVE  DebounceInv'
    OBVIOUS
<1>1. TypeOK /\ TypeOK' BY ProcessTypes DEF DebounceInv
<1>2. CASE Boot
  <2>1. ~ws'.debouncePending /\ ws'.invalidations = {}
      BY <1>2 DEF Boot, EmptyWorkspace, LoadedWorkspace
  <2>2. effects = <<>> /\ ~debounceScheduled
      BY <1>2 DEF Boot, DebounceInv, FlushDiscipline
  <2>3. /\ queue' = <<Plain("RefreshVisibleRepos")>> /\ phase' = "dispatch"
        /\ UNCHANGED <<effects, followUps, debounceScheduled, backendQ>>
      BY <1>2 DEF Boot, backendVars
  <2>4. ~FlushQueued' /\ ~ScheduleAsked'
      BY <2>2, <2>3 DEF FlushQueued, ScheduleAsked, Plain
  <2>5. DebounceCoupled' BY <2>1, <2>2, <2>3, <2>4 DEF DebounceCoupled
  <2>6. FlushDiscipline'
      BY <2>2, <2>3, <2>4 DEF DebounceInv, FlushDiscipline, NoFlushIn
  <2> QED BY <1>1, <2>5, <2>6 DEF DebounceInv
<1>3. ASSUME NEW seed \in Seq(Event), NoFlushIn(seed), Run(seed) PROVE DebounceInv'
  <2>1. /\ phase = "idle" /\ queue' = seed \o backendQ /\ backendQ' = <<>>
        /\ phase' = "dispatch"
        /\ UNCHANGED <<effects, followUps, debounceScheduled, ws>>
      BY <1>3 DEF Run, stateVars
  <2>2. effects = <<>> /\ queue = <<>> /\ ~debounceScheduled
      BY <2>1 DEF DebounceInv, FlushDiscipline
  <2>3. backendQ \in Seq(Event) /\ NoFlushIn(backendQ)
      BY <1>1 DEF DebounceInv, FlushDiscipline, TypeOK
  <2>4. ~FlushQueued' BY <1>3, <2>1, <2>3 DEF FlushQueued, NoFlushIn
  <2>5. ~FlushQueued /\ ~ScheduleAsked /\ ~ScheduleAsked'
      BY <2>1, <2>2 DEF FlushQueued, ScheduleAsked
  <2>6. DebounceCoupled'
      BY <2>1, <2>2, <2>4, <2>5 DEF DebounceInv, DebounceCoupled
  <2>7. FlushDiscipline'
      BY <2>1, <2>2, <2>4, <2>5 DEF DebounceInv, FlushDiscipline, NoFlushIn
  <2> QED BY <1>1, <2>6, <2>7 DEF DebounceInv
<1>4. CASE UserInput
  <2>1. PICK e \in UserActions : Run(<<e>>) BY <1>4 DEF UserInput
  <2>2. <<e>> \in Seq(Event) BY <1>1, <2>1, SeedTypes
  <2>3. e.kind # "WatcherDebounceFlush" BY <2>1 DEF UserActions, Plain
  <2>4. NoFlushIn(<<e>>) BY <2>3 DEF NoFlushIn
  <2> QED BY <1>3, <2>1, <2>2, <2>4
<1>5. ASSUME NEW refresh \in BOOLEAN, Tick(refresh) PROVE DebounceInv'
  <2>1. PICK fetch, toast \in BOOLEAN : Run(DueTimers(refresh, fetch, toast))
      BY <1>5 DEF Tick
  <2>2. DueTimers(refresh, fetch, toast) \in Seq(Event) BY SeedTypes
  <2>3. NoFlushIn(DueTimers(refresh, fetch, toast))
    <3>1. \A k : Plain(k).kind = k BY DEF Plain
    <3> QED BY <3>1 DEF NoFlushIn, DueTimers
  <2> QED BY <1>3, <2>1, <2>2, <2>3
<1>6. CASE Stop
  <2>1. /\ phase' = "down" /\ queue' = <<>> /\ effects' = <<>> /\ followUps' = <<>>
        /\ backendQ' = <<>> /\ debounceScheduled' = FALSE /\ ws' = EmptyWorkspace
      BY <1>6 DEF Stop
  <2>2. ~ws'.debouncePending /\ ws'.invalidations = {} BY <2>1 DEF EmptyWorkspace
  <2>3. ~FlushQueued' /\ ~ScheduleAsked' BY <2>1 DEF FlushQueued, ScheduleAsked
  <2>4. DebounceCoupled' BY <2>1, <2>2, <2>3 DEF DebounceCoupled
  <2>5. FlushDiscipline' BY <2>1, <2>3 DEF FlushDiscipline, NoFlushIn
  <2> QED BY <1>1, <2>4, <2>5 DEF DebounceInv
<1> QED BY <1>2, <1>4, <1>5, <1>6

LEMMA StepDebounce == DebounceInv /\ [Next]_vars => DebounceInv'
<1> SUFFICES ASSUME DebounceInv, [Next]_vars PROVE DebounceInv'
    OBVIOUS
<1>1. CASE Next
    BY <1>1, EnvironmentKeepsDebounce, DispatchKeepsDebounce, EndIterationKeepsDebounce,
       ApplyEffectKeepsDebounce, ProcessKeepsDebounce DEF Next, Loop
<1>2. CASE UNCHANGED vars
  <2>1. TypeOK' BY <1>2, StepTypes DEF DebounceInv
  <2> QED BY <1>2, <2>1, EnvironmentDebounce
          DEF vars, backendVars, loopVars, stateVars, DebounceInv, FlushDiscipline
<1> QED BY <1>1, <1>2

\* The reducer's watcher_debounce_pending and the runtime's
\* watcher_debounce_scheduled agree in every reachable state: an invalidation
\* is never recorded without a flush on its way, and no flush is ever asked
\* for twice.
THEOREM DebounceFlagsAgree == Spec => []DebounceCoupled
<1>1. DebounceInv => DebounceCoupled BY DEF DebounceInv
<1> QED BY <1>1, InitDebounce, StepDebounce, PTL DEF Spec

-----------------------------------------------------------------------------
(* The line of events: what the current run() still has to dispatch, in    *)
(* the order it will.                                                      *)

Line == queue \o followUps

\* Only effects collect follow-ups.
LineKept == phase # "effects" => followUps = <<>>

-----------------------------------------------------------------------------
(* Background jobs.                                                        *)

Jobs == JobKinds \X Repos

\* The jobs that somebody does.  The detaching of a worktree is never begun.
WorkedKinds == {"summary-refresh", "git"}
Worked == WorkedKinds \X Repos
Detaching(r) == <<"detach-worktree", r>>

DetachesWait == \A r \in Repos : jobs[Detaching(r)] \in {"none", "Queued"}

OpeningKind == [k \in WorkedKinds |->
    IF k = "git" THEN "GitOperationStarted" ELSE "RepoSummaryRefreshStarted"]
ClosingKinds == [k \in WorkedKinds |->
    IF k = "git" THEN {"GitOperationCompleted", "GitOperationFailed"}
    ELSE {"RepoSummaryUpdated", "RepoSummaryRefreshFailed"}]

\* e is the start, or the outcome, of the job j.
Opens(e, j) == e.kind = OpeningKind[j[1]] /\ e.repo = j[2]
Closes(e, j) == e.kind \in ClosingKinds[j[1]] /\ e.repo = j[2]

\* One event of s takes the job j from a to b: TRUE while the job runs.
Passes(e, j, a, b) ==
    \/ ~Opens(e, j) /\ ~Closes(e, j) /\ b = a
    \/ Opens(e, j) /\ ~a /\ b
    \/ Closes(e, j) /\ a /\ ~b

\* The events s start and end the job j in turn, from a to b.
InTurn(s, j, a, b) ==
    \E open \in [0..Len(s) -> BOOLEAN] :
        /\ open[0] = a /\ open[Len(s)] = b
        /\ \A i \in 1..Len(s) : Passes(s[i], j, open[i - 1], open[i])

\* A worker of the pool is reading j's repository.
Working(j) ==
    /\ j[1] = "summary-refresh" /\ effects # <<>>
    /\ Head(effects).kind = "RefreshRepoSummaries" /\ j[2] \in Head(effects).running

RunsGit(f, r) == f.kind = "RunGitCommand" /\ f.repo = r

\* A job waits only for a command yet to be run, or for its start.
QueuedForReason ==
    \A j \in Worked :
        jobs[j] = "Queued" =>
            /\ j[1] = "git"
            /\ \/ \E i \in DOMAIN effects : RunsGit(effects[i], j[2])
               \/ \E i \in DOMAIN Line : Opens(Line[i], j)

JobsInTurn == \A j \in Worked : InTurn(Line, j, jobs[j] = "Running", Working(j))

\* A repository leaves the pool's pending set when its worker starts, and
\* only the pool being applied has workers.
PoolsApart ==
    \A i \in DOMAIN effects :
        effects[i].kind = "RefreshRepoSummaries" =>
            /\ effects[i].pending \cap effects[i].running = {}
            /\ i > 1 => effects[i].running = {}

GitInput(e) == e.kind \in {"GitAction", "PeriodicFetchTick"}
NoGitInput(s) == \A i \in DOMAIN s : ~GitInput(s[i])

\* No command is asked for, waits or runs.
GitQuiet ==
    /\ \A r \in Repos : jobs[<<"git", r>>] \notin {"Queued", "Running"}
    /\ \A i \in DOMAIN effects : effects[i].kind # "RunGitCommand"
    /\ \A i \in DOMAIN Line, r \in Repos :
        ~Opens(Line[i], <<"git", r>>) /\ ~Closes(Line[i], <<"git", r>>)

\* run() is given at most one event that asks for a command, while none is
\* under way; a command is asked for by an event of its own.
OneCommand ==
    /\ NoGitInput(followUps) /\ NoGitInput(backendQ)
    /\ \A i \in DOMAIN queue :
        GitInput(queue[i]) =>
            /\ GitQuiet
            /\ \A k \in DOMAIN queue : GitInput(queue[k]) => k = i
    /\ \A i \in DOMAIN effects : effects[i].kind = "RunGitCommand" =>
        /\ Len(effects) = 1
        /\ jobs[<<"git", effects[i].repo>>] # "Running"
        /\ NoGitInput(queue)
        /\ \A k \in DOMAIN Line :
            LET j == <<"git", effects[i].repo>> IN ~Opens(Line[k], j) /\ ~Closes(Line[k], j)

\* What the backend reports concerns no job.
BackendQuiet ==
    \A i \in DOMAIN backendQ :
        backendQ[i].kind \in {"RepoInvalidated", "WatcherDegraded", "WatcherRecovered"}

JobInv ==
    /\ DebounceInv
    /\ LineKept
    /\ BackendQuiet
    /\ PoolsApart
    /\ JobsInTurn
    /\ QueuedForReason
    /\ OneCommand
    /\ DetachesWait

-----------------------------------------------------------------------------
(* Versions.                                                               *)

UpdateOf(e, r) == e.kind = "RepoSummaryUpdated" /\ e.repo = r

\* What is shown or cached was read from the disk, what is about to be shown
\* was read later.
VersionsRise ==
    \A r \in Repos :
        /\ ws.summaries[r] # None => ws.summaries[r].ver <= disk[r]
        /\ cache # None /\ cache.summaries[r] # None => cache.summaries[r].ver <= disk[r]
        /\ \A i \in DOMAIN Line :
            UpdateOf(Line[i], r) =>
                /\ Line[i].ver <= disk[r]
                /\ ws.summaries[r] # None => ws.summaries[r].ver <= Line[i].ver
                /\ \A k \in DOMAIN Line :
                    k >= i /\ UpdateOf(Line[k], r) => Line[i].ver <= Line[k].ver

-----------------------------------------------------------------------------
(* The cache.                                                              *)

CacheHolds ==
    ws.discovered # {} =>
        /\ cache # None /\ cache.discovered = ws.discovered
        /\ \A r \in Repos :
            ws.summaries[r] # None /\ ws.summaries[r].ver > 0 =>
                cache.summaries[r] # None
                /\ cache.summaries[r].ver = ws.summaries[r].ver

CacheInv == CacheHolds \/ \E i \in DOMAIN effects : effects[i].kind = "PersistCache"

-----------------------------------------------------------------------------
(* Freshness.                                                              *)

Outcome(e, r) == Closes(e, <<"summary-refresh", r>>)

\* The outcome tells how r is now: a failure, or what is on disk.
Tells(e, r) ==
    \/ e.kind = "RepoSummaryRefreshFailed"
    \/ r \in present /\ e.ver = disk[r]

\* The summary shown does not pass for fresh when it is not.
ShownRight(r) ==
    LET s == ws.summaries[r]
    IN s # None /\ (s.error \/ (r \in present /\ (s.fresh = "Fresh" => s.ver = disk[r])))

InPool(f, r) ==
    f.kind = "RefreshRepoSummaries" /\ (r \in f.pending \/ r \in f.running)

\* A new read of r will be made.
OnItsWay(r) ==
    \/ r \in ws.invalidations
    \/ \E i \in DOMAIN Line : Line[i] = About("RepoInvalidated", r)
    \/ \E i \in DOMAIN backendQ : backendQ[i] = About("RepoInvalidated", r)
    \/ \E i \in DOMAIN effects : InPool(effects[i], r)

\* The last outcome under way, or the summary itself, is right.
LastTells(r) ==
    \/ /\ \A i \in DOMAIN Line : ~Outcome(Line[i], r)
       /\ ShownRight(r)
    \/ \E i \in DOMAIN Line :
        /\ Outcome(Line[i], r) /\ Tells(Line[i], r)
        /\ \A k \in DOMAIN Line : Outcome(Line[k], r) => k <= i

WatchNews(e) == e.kind \in {"WatcherDegraded", "WatcherRecovered"}

\* The watch counts as lost, or will when the events under way are handled.
WatchLost ==
    \/ ~watcher.configured
    \/ /\ \A i \in DOMAIN Line : ~WatchNews(Line[i])
       /\ ws.health # "Healthy"
    \/ \E i \in DOMAIN Line :
        /\ Line[i].kind = "WatcherDegraded"
        /\ \A k \in DOMAIN Line : WatchNews(Line[k]) => k <= i

WatchAsked == \E i \in DOMAIN effects : effects[i].kind = "ConfigureWatcher"

\* A watch is asked for ahead of the refresh of everything it watches; once it
\* is there it covers the list, unless it counts as lost.
WatchFirst ==
    /\ WatchAsked => effects = ScanEffects(ws.discovered)
    /\ watcher.configured => watcher.up /\ phase # "down"
    /\ WatchLost \/ WatchAsked \/ ws.discovered \subseteq watcher.paths
    /\ \A i \in DOMAIN backendQ : ~WatchNews(backendQ[i])

FreshInv ==
    /\ WatchFirst
    /\ WatchLost \/ \A r \in ws.discovered : OnItsWay(r) \/ LastTells(r)

-----------------------------------------------------------------------------
(* Taking turns.                                                           *)

LEMMA TurnEmpty ==
    ASSUME NEW j, NEW a \in BOOLEAN, NEW b \in BOOLEAN
    PROVE  InTurn(<<>>, j, a, b) <=> a = b
<1>1. ASSUME a = b PROVE InTurn(<<>>, j, a, b)
  <2> DEFINE open == [i \in 0..0 |-> a]
  <2>1. /\ open \in [0..Len(<<>>) -> BOOLEAN] /\ open[0] = a /\ open[Len(<<>>)] = b
        /\ \A i \in 1..Len(<<>>) : FALSE
      BY <1>1
  <2> HIDE DEF open
  <2> QED BY <2>1 DEF InTurn
<1>2. ASSUME InTurn(<<>>, j, a, b) PROVE a = b
    BY <1>2 DEF InTurn
<1> QED BY <1>1, <1>2

LEMMA TurnAppend ==
    ASSUME NEW s \in Seq(Event), NEW e \in Event, NEW j,
           NEW a \in BOOLEAN, NEW b \in BOOLEAN, NEW c \in BOOLEAN,
           InTurn(s, j, a, b), Passes(e, j, b, c)
    PROVE  InTurn(Append(s, e), j, a, c)
<1> DEFINE t == Append(s, e)
<1>1. PICK open \in [0..Len(s) -> BOOLEAN] :
        /\ open[0] = a /\ open[Len(s)] = b
        /\ \A i \in 1..Len(s) : Passes(s[i], j, open[i - 1], open[i])
    BY DEF InTurn
<1> DEFINE more == [i \in 0..Len(t) |-> IF i <= Len(s) THEN open[i] ELSE c]
<1>2. /\ Len(s) \in Nat /\ Len(t) = Len(s) + 1 /\ t[Len(s) + 1] = e
      /\ \A i \in 1..Len(s) : t[i] = s[i]
    OBVIOUS
<1> HIDE DEF t
<1>3. more \in [0..Len(t) -> BOOLEAN] /\ more[0] = a /\ more[Len(t)] = c
    BY <1>1, <1>2
<1>4. ASSUME NEW i \in 1..Len(t) PROVE Passes(t[i], j, more[i - 1], more[i])
  <2>1. CASE i = Len(t)
    <3>1. t[i] = e /\ more[i - 1] = b /\ more[i] = c BY <1>1, <1>2, <2>1
    <3> QED BY <3>1
  <2>2. CASE i # Len(t)
    <3>1. /\ i \in 1..Len(s) /\ t[i] = s[i] /\ more[i - 1] = open[i - 1]
          /\ more[i] = open[i]
        BY <1>2, <2>2
    <3> QED BY <1>1, <3>1
  <2> QED BY <2>1, <2>2
<1> HIDE DEF more
<1>5. InTurn(t, j, a, c) BY <1>3, <1>4 DEF InTurn
<1> QED BY <1>5 DEF t

LEMMA TurnTail ==
    ASSUME NEW s \in Seq(Event), s # <<>>, NEW j, NEW a \in BOOLEAN,
           NEW c \in BOOLEAN, InTurn(s, j, a, c)
    PROVE  \E b \in BOOLEAN : Passes(Head(s), j, a, b) /\ InTurn(Tail(s), j, b, c)
<1> DEFINE t == Tail(s)
<1>1. PICK open \in [0..Len(s) -> BOOLEAN] :
        /\ open[0] = a /\ open[Len(s)] = c
        /\ \A i \in 1..Len(s) : Passes(s[i], j, open[i - 1], open[i])
    BY DEF InTurn
<1>2. /\ Len(s) \in Nat \ {0} /\ Len(t) = Len(s) - 1 /\ Head(s) = s[1]
      /\ \A i \in 1..Len(t) : t[i] = s[i + 1]
    OBVIOUS
<1> HIDE DEF t
<1> DEFINE rest == [i \in 0..Len(t) |-> open[i + 1]]
<1>3. rest \in [0..Len(t) -> BOOLEAN] /\ rest[0] = open[1] /\ rest[Len(t)] = c
    BY <1>1, <1>2
<1>4. ASSUME NEW i \in 1..Len(t) PROVE Passes(t[i], j, rest[i - 1], rest[i])
  <2>1. /\ i + 1 \in 1..Len(s) /\ t[i] = s[i + 1] /\ rest[i] = open[i + 1]
        /\ rest[i - 1] = open[i] /\ (i + 1) - 1 = i
      BY <1>2
  <2> QED BY <1>1, <2>1
<1>5. Passes(Head(s), j, a, open[1]) /\ open[1] \in BOOLEAN
  <2>1. 1 \in 1..Len(s) /\ 1 - 1 = 0 BY <1>2
  <2>2. Passes(s[1], j, open[0], open[1]) BY <1>1, <2>1
  <2>3. open[1] \in BOOLEAN BY <2>1, <1>1, <1>2
  <2> QED BY <1>1, <1>2, <2>2, <2>3
<1> HIDE DEF rest
<1>6. InTurn(t, j, open[1], c) BY <1>3, <1>4 DEF InTurn
<1> QED BY <1>5, <1>6 DEF t

LEMMA TurnQuiet ==
    ASSUME NEW s \in Seq(Event), NEW t \in Seq(Event), NEW j,
           NEW a \in BOOLEAN, NEW b \in BOOLEAN, InTurn(s, j, a, b),
           \A i \in DOMAIN t : ~Opens(t[i], j) /\ ~Closes(t[i], j)
    PROVE  InTurn(s \o t, j, a, b)
<1> DEFINE u == s \o t
<1>1. PICK open \in [0..Len(s) -> BOOLEAN] :
        /\ open[0] = a /\ open[Len(s)] = b
        /\ \A i \in 1..Len(s) : Passes(s[i], j, open[i - 1], open[i])
    BY DEF InTurn
<1>2. /\ Len(s) \in Nat /\ Len(t) \in Nat /\ Len(u) = Len(s) + Len(t)
      /\ \A i \in 1..Len(s) : u[i] = s[i]
      /\ \A i \in 1..Len(u) : i > Len(s) => u[i] = t[i - Len(s)] /\ i - Len(s) \in DOMAIN t
    OBVIOUS
<1> HIDE DEF u
<1> DEFINE more == [i \in 0..Len(u) |-> IF i <= Len(s) THEN open[i] ELSE b]
<1>3. more \in [0..Len(u) -> BOOLEAN] /\ more[0] = a /\ more[Len(u)] = b
    BY <1>1, <1>2
<1>4. ASSUME NEW i \in 1..Len(u) PROVE Passes(u[i], j, more[i - 1], more[i])
  <2>1. CASE i > Len(s)
    <3>1. more[i - 1] = b /\ more[i] = b BY <1>1, <1>2, <2>1
    <3>2. ~Opens(u[i], j) /\ ~Closes(u[i], j) BY <1>2, <2>1
    <3> QED BY <3>1, <3>2 DEF Passes
  <2>2. CASE i <= Len(s)
    <3>1. /\ i \in 1..Len(s) /\ u[i] = s[i] /\ more[i - 1] = open[i - 1]
          /\ more[i] = open[i]
        BY <1>2, <2>2
    <3> QED BY <1>1, <3>1
  <2> QED BY <1>2, <2>1, <2>2
<1> HIDE DEF more
<1>5. InTurn(u, j, a, b) BY <1>3, <1>4 DEF InTurn
<1> QED BY <1>5 DEF u

-----------------------------------------------------------------------------
(* What the handlers do to the jobs, and the effects they ask for.         *)

LEMMA GitJobs == \A r \in Repos : <<"git", r>> \in Worked /\ <<"git", r>> \in Jobs
    BY DEF Jobs, JobKinds, Worked, WorkedKinds

LEMMA JobParts ==
    /\ \A r \in Repos : <<"git", r>> \in Worked /\ <<"summary-refresh", r>> \in Worked
    /\ \A j \in Worked : /\ j[1] \in WorkedKinds /\ j[2] \in Repos /\ j = <<j[1], j[2]>>
                         /\ j[1] = "git" \/ j[1] = "summary-refresh"
    BY DEF Worked, WorkedKinds

LEMMA JobSorts ==
    /\ \A j \in Worked : j \in Jobs
    /\ \A j \in Jobs : j \in Worked \/ \E r \in Repos : j = Detaching(r)
    /\ \A r \in Repos : Detaching(r) \in Jobs /\ Detaching(r) \notin Worked
<1>1. Jobs = Worked \cup {Detaching(r) : r \in Repos}
    BY DEF Jobs, JobKinds, Worked, WorkedKinds, Detaching
<1>2. \A r \in Repos : Detaching(r) \notin Worked BY DEF Worked, WorkedKinds, Detaching
<1> QED BY <1>1, <1>2

LEMMA JobEvents ==
    ASSUME NEW e, NEW j \in Worked
    PROVE  /\ Opens(e, j) <=>
                \/ j[1] = "git" /\ e.kind = "GitOperationStarted" /\ e.repo = j[2]
                \/ /\ j[1] = "summary-refresh" /\ e.kind = "RepoSummaryRefreshStarted"
                   /\ e.repo = j[2]
           /\ Closes(e, j) <=>
                \/ /\ j[1] = "git" /\ e.repo = j[2]
                   /\ e.kind \in {"GitOperationCompleted", "GitOperationFailed"}
                \/ /\ j[1] = "summary-refresh" /\ e.repo = j[2]
                   /\ e.kind \in {"RepoSummaryUpdated", "RepoSummaryRefreshFailed"}
    BY JobParts DEF Opens, Closes, OpeningKind, ClosingKinds, WorkedKinds

\* A start makes its job run, an outcome ends a recorded job, a command is
\* asked for by GitAction and PeriodicFetchTick only, and nothing else
\* touches the job table.
LEMMA ReduceJobs ==
    ASSUME TypeOK, NEW e \in Event, Reduce(e)
    PROVE  /\ \A j \in Worked : Opens(e, j) => jobs'[j] = "Running"
           /\ \A j \in Worked : Closes(e, j) =>
                \/ jobs'[j] \in {"Succeeded", "Failed"}
                \/ jobs[j] = "none" /\ jobs'[j] = "none"
           /\ \A j \in Worked : ~Opens(e, j) /\ ~Closes(e, j) /\ ~GitInput(e) =>
                jobs'[j] = jobs[j]
           /\ GitInput(e) =>
                \/ jobs' = jobs /\ effects' = <<>>
                \/ \E r \in Repos :
                    /\ jobs' = [jobs EXCEPT ![<<"git", r>>] = "Queued"]
                    /\ effects' = <<About("RunGitCommand", r)>>
<1> DEFINE Calm == /\ jobs' = jobs /\ ~GitInput(e)
                   /\ e.kind \notin {"GitOperationStarted", "GitOperationCompleted",
                        "GitOperationFailed", "RepoSummaryRefreshStarted",
                        "RepoSummaryUpdated", "RepoSummaryRefreshFailed"}
<1> DEFINE Goal ==
           /\ \A j \in Worked : Opens(e, j) => jobs'[j] = "Running"
           /\ \A j \in Worked : Closes(e, j) =>
                \/ jobs'[j] \in {"Succeeded", "Failed"}
                \/ jobs[j] = "none" /\ jobs'[j] = "none"
           /\ \A j \in Worked : ~Opens(e, j) /\ ~Closes(e, j) /\ ~GitInput(e) =>
                jobs'[j] = jobs[j]
           /\ GitInput(e) =>
                \/ jobs' = jobs /\ effects' = <<>>
                \/ \E r \in Repos :
                    /\ jobs' = [jobs EXCEPT ![<<"git", r>>] = "Queued"]
                    /\ effects' = <<About("RunGitCommand", r)>>
<1>1. Calm => Goal
    BY JobEvents
<1>2. jobs \in [Jobs -> JobStates] /\ active \in Repos \cup {None}
    BY DEF TypeOK, Jobs
<1>3. CASE ReduceRefreshVisibleRepos(e)
    BY <1>1, <1>3 DEF ReduceRefreshVisibleRepos, GitInput
<1>4. CASE ReduceRefreshSelectedRepo(e)
    BY <1>1, <1>4 DEF ReduceRefreshSelectedRepo, GitInput
<1>5. CASE ReduceRefreshSelectedRepoDeep(e)
    BY <1>1, <1>5 DEF ReduceRefreshSelectedRepoDeep, GitInput
<1>6. CASE ReduceEnterRepoMode(e)
    BY <1>1, <1>6 DEF ReduceEnterRepoMode, GitInput
<1>7. CASE ReduceLeaveRepoMode(e)
    BY <1>1, <1>7 DEF ReduceLeaveRepoMode, GitInput
<1>8. ASSUME GitInput(e) PROVE \A j \in Worked : ~Opens(e, j) /\ ~Closes(e, j)
    BY <1>8, JobEvents DEF GitInput
<1>9. ASSUME EnqueueGitJob, GitInput(e) PROVE Goal
  <2>1. CASE active = None BY <1>8, <1>9, <2>1 DEF EnqueueGitJob
  <2>2. CASE active # None
    <3>1. /\ active \in Repos /\ effects' = <<About("RunGitCommand", active)>>
          /\ jobs' = [jobs EXCEPT ![<<"git", active>>] = "Queued"]
        BY <1>2, <1>9, <2>2 DEF EnqueueGitJob
    <3> QED BY <1>8, <1>9, <3>1
  <2> QED BY <2>1, <2>2
<1>10. CASE ReduceGitAction(e) BY <1>9, <1>10 DEF ReduceGitAction, GitInput
<1>28. CASE ReduceDetachSelectedWorktree(e)
  <2>1. /\ e.kind = "DetachSelectedWorktree" /\ ~GitInput(e)
        /\ jobs' = IF active = None THEN jobs ELSE [jobs EXCEPT ![Detaching(active)] = "Queued"]
      BY <1>28 DEF ReduceDetachSelectedWorktree, GitInput, Detaching
  <2>2. \A j \in Worked : jobs'[j] = jobs[j]
    <3>1. CASE active = None BY <2>1, <3>1
    <3>2. CASE active # None
      <4>1. jobs' = [jobs EXCEPT ![Detaching(active)] = "Queued"] /\ active \in Repos
          BY <1>2, <2>1, <3>2
      <4>2. \A j \in Worked : j # Detaching(active) /\ j \in Jobs BY <4>1, JobSorts
      <4> QED BY <1>2, <4>1, <4>2
    <3> QED BY <3>1, <3>2
  <2> QED BY <2>1, <2>2, JobEvents
<1>11. CASE ReducePeriodicFetchTick(e)
  <2>1. GitInput(e) BY <1>11 DEF ReducePeriodicFetchTick, GitInput
  <2>2. CASE EnqueueGitJob BY <1>9, <2>1, <2>2
  <2>3. CASE effects' = <<>> /\ UNCHANGED stateVars BY <1>8, <2>1, <2>3 DEF stateVars
  <2> QED BY <1>11, <2>2, <2>3 DEF ReducePeriodicFetchTick
<1>12. CASE ReduceRepoScanFailed(e)
    BY <1>1, <1>12 DEF ReduceRepoScanFailed, GitInput
<1>13. CASE ReduceRepoScanCompleted(e)
    BY <1>1, <1>13 DEF ReduceRepoScanCompleted, GitInput
<1>14. ASSUME NEW k \in WorkedKinds, NEW s, e.repo \in Repos, ~GitInput(e),
              jobs' = [jobs EXCEPT ![<<k, e.repo>>] = s]
       PROVE  /\ <<k, e.repo>> \in Worked /\ jobs'[<<k, e.repo>>] = s
              /\ \A j \in Worked : j # <<k, e.repo>> => jobs'[j] = jobs[j]
              /\ \A j \in Worked : ~(j[1] = k /\ e.repo = j[2]) => jobs'[j] = jobs[j]
              /\ \A j \in Worked : j[1] = k /\ e.repo = j[2] => jobs'[j] = s
  <2>1. <<k, e.repo>> \in Worked /\ <<k, e.repo>> \in Jobs BY <1>14, JobSorts DEF Worked
  <2>2. jobs'[<<k, e.repo>>] = s BY <1>2, <1>14, <2>1
  <2>3. \A j \in Worked : j # <<k, e.repo>> => jobs'[j] = jobs[j]
      BY <1>2, <1>14, <2>1, JobSorts
  <2>4. \A j \in Worked : j[1] = k /\ e.repo = j[2] => j = <<k, e.repo>> BY JobParts
  <2>5. <<k, e.repo>>[1] = k /\ <<k, e.repo>>[2] = e.repo OBVIOUS
  <2> QED BY <2>1, <2>2, <2>3, <2>4, <2>5
<1>15. CASE ReduceRepoSummaryRefreshStarted(e)
  <2>1. e.kind = "RepoSummaryRefreshStarted" /\ e.repo \in Repos /\ ~GitInput(e)
      BY <1>15, EventFields DEF ReduceRepoSummaryRefreshStarted, RepoEvents, GitInput
  <2>2. jobs' = [jobs EXCEPT ![<<"summary-refresh", e.repo>>] = "Running"]
      BY <1>15 DEF ReduceRepoSummaryRefreshStarted
  <2>3. /\ \A j \in Worked : ~(j[1] = "summary-refresh" /\ e.repo = j[2]) => jobs'[j] = jobs[j]
        /\ \A j \in Worked : j[1] = "summary-refresh" /\ e.repo = j[2] => jobs'[j] = "Running"
      BY <1>14, <2>1, <2>2 DEF WorkedKinds
  <2> HIDE DEF GitInput
  <2> QED BY <2>1, <2>3, JobEvents
<1>16. CASE ReduceGitOperationStarted(e)
  <2>1. e.kind = "GitOperationStarted" /\ e.repo \in Repos /\ ~GitInput(e)
      BY <1>16, EventFields DEF ReduceGitOperationStarted, RepoEvents, GitInput
  <2>2. jobs' = [jobs EXCEPT ![<<"git", e.repo>>] = "Running"]
      BY <1>16 DEF ReduceGitOperationStarted
  <2>3. /\ \A j \in Worked : ~(j[1] = "git" /\ e.repo = j[2]) => jobs'[j] = jobs[j]
        /\ \A j \in Worked : j[1] = "git" /\ e.repo = j[2] => jobs'[j] = "Running"
      BY <1>14, <2>1, <2>2 DEF WorkedKinds
  <2> QED BY <2>1, <2>3, JobEvents
<1>17. ASSUME NEW k \in WorkedKinds, NEW s \in {"Succeeded", "Failed"}, e.repo \in Repos,
              ~GitInput(e), CompleteJob(k, e.repo, s)
       PROVE  /\ \A j \in Worked : ~(j[1] = k /\ e.repo = j[2]) => jobs'[j] = jobs[j]
              /\ \A j \in Worked : j[1] = k /\ e.repo = j[2] =>
                    jobs'[j] = IF jobs[j] = "none" THEN "none" ELSE s
  <2> DEFINE old == jobs[<<k, e.repo>>]
             new == IF old = "none" THEN "none" ELSE s
  <2>1. jobs' = [jobs EXCEPT ![<<k, e.repo>>] = new]
      BY <1>2, <1>17 DEF CompleteJob, Jobs
  <2>2. /\ \A j \in Worked : ~(j[1] = k /\ e.repo = j[2]) => jobs'[j] = jobs[j]
        /\ \A j \in Worked : j[1] = k /\ e.repo = j[2] => jobs'[j] = new
    <3> HIDE DEF new
    <3> QED BY <1>14, <1>17, <2>1
  <2>3. \A j \in Worked : j[1] = k /\ e.repo = j[2] => j = <<k, e.repo>> BY JobParts
  <2> QED BY <2>2, <2>3
<1>18. CASE ReduceRepoSummaryUpdated(e)
  <2>1. e.kind = "RepoSummaryUpdated" /\ e.repo \in Repos /\ ~GitInput(e)
      BY <1>18, EventFields DEF ReduceRepoSummaryUpdated, ReadEvents, GitInput
  <2>2. CompleteJob("summary-refresh", e.repo, "Succeeded")
      BY <1>18 DEF ReduceRepoSummaryUpdated
  <2>3. /\ \A j \in Worked : ~(j[1] = "summary-refresh" /\ e.repo = j[2]) => jobs'[j] = jobs[j]
        /\ \A j \in Worked : j[1] = "summary-refresh" /\ e.repo = j[2] =>
              jobs'[j] = IF jobs[j] = "none" THEN "none" ELSE "Succeeded"
      BY <1>17, <2>1, <2>2 DEF WorkedKinds
  <2> QED BY <2>1, <2>3, JobEvents
<1>19. CASE ReduceRepoSummaryRefreshFailed(e)
  <2>1. e.kind = "RepoSummaryRefreshFailed" /\ e.repo \in Repos /\ ~GitInput(e)
      BY <1>19, EventFields DEF ReduceRepoSummaryRefreshFailed, RepoEvents, GitInput
  <2>2. CompleteJob("summary-refresh", e.repo, "Failed")
      BY <1>19 DEF ReduceRepoSummaryRefreshFailed
  <2>3. /\ \A j \in Worked : ~(j[1] = "summary-refresh" /\ e.repo = j[2]) => jobs'[j] = jobs[j]
        /\ \A j \in Worked : j[1] = "summary-refresh" /\ e.repo = j[2] =>
              jobs'[j] = IF jobs[j] = "none" THEN "none" ELSE "Failed"
      BY <1>17, <2>1, <2>2 DEF WorkedKinds
  <2> QED BY <2>1, <2>3, JobEvents
<1>20. CASE ReduceGitOperationDone(e)
  <2>1. /\ e.kind \in {"GitOperationCompleted", "GitOperationFailed"}
        /\ e.repo \in Repos /\ ~GitInput(e)
      BY <1>20, EventFields DEF ReduceGitOperationDone, RepoEvents, GitInput
  <2>2. PICK s \in {"Succeeded", "Failed"} : CompleteJob("git", e.repo, s)
      BY <1>20 DEF ReduceGitOperationDone
  <2>3. /\ \A j \in Worked : ~(j[1] = "git" /\ e.repo = j[2]) => jobs'[j] = jobs[j]
        /\ \A j \in Worked : j[1] = "git" /\ e.repo = j[2] =>
              jobs'[j] = IF jobs[j] = "none" THEN "none" ELSE s
      BY <1>17, <2>1, <2>2 DEF WorkedKinds
  <2> QED BY <2>1, <2>3, JobEvents
<1>21. CASE ReduceRepoDetailLoaded(e)
    BY <1>1, <1>21 DEF ReduceRepoDetailLoaded, GitInput
<1>22. CASE ReduceRepoInvalidated(e)
    BY <1>1, <1>22 DEF ReduceRepoInvalidated, GitInput
<1>23. CASE ReduceWatcherDegraded(e)
    BY <1>1, <1>23 DEF ReduceWatcherDegraded, GitInput
<1>24. CASE ReduceWatcherRecovered(e)
    BY <1>1, <1>24 DEF ReduceWatcherRecovered, GitInput
<1>25. CASE ReducePeriodicRefreshTick(e)
    BY <1>1, <1>25 DEF ReducePeriodicRefreshTick, GitInput
<1>26. CASE ReduceWatcherDebounceFlush(e)
    BY <1>1, <1>26 DEF ReduceWatcherDebounceFlush, GitInput
<1>27. CASE ReduceToastExpiryTick(e)
    BY <1>1, <1>27 DEF ReduceToastExpiryTick, GitInput, stateVars
<1> QED BY <1>3, <1>4, <1>5, <1>6, <1>7, <1>10, <1>11, <1>12, <1>13, <1>15, <1>16,
           <1>18, <1>19, <1>20, <1>21, <1>22, <1>23, <1>24, <1>25, <1>26, <1>27, <1>28
        DEF Reduce

\* A detach stays queued: no event is about its job but the one that asks for it.
LEMMA ReduceDetaches ==
    ASSUME TypeOK, NEW e \in Event, Reduce(e), NEW r \in Repos
    PROVE  jobs'[Detaching(r)] \in {jobs[Detaching(r)], "Queued"}
<1> DEFINE d == Detaching(r)
<1>1. /\ jobs \in [Jobs -> JobStates] /\ active \in Repos \cup {None}
      /\ d \in Jobs /\ d[1] = "detach-worktree"
    BY JobSorts DEF TypeOK, Jobs, Detaching
<1>2. ASSUME NEW k \in WorkedKinds, NEW q, NEW s, jobs' = [jobs EXCEPT ![<<k, q>>] = s]
      PROVE  jobs'[d] = jobs[d]
  <2>1. <<k, q>> # d BY DEF WorkedKinds, Detaching
  <2> QED BY <1>1, <1>2, <2>1
<1>3. ASSUME NEW k \in WorkedKinds, NEW q, NEW s, CompleteJob(k, q, s)
      PROVE  jobs'[d] = jobs[d]
  <2>1. <<k, q>> # d BY DEF WorkedKinds, Detaching
  <2> QED BY <1>1, <1>3, <2>1 DEF CompleteJob
<1>4. CASE EnqueueGitJob
  <2>1. CASE active = None BY <1>4, <2>1 DEF EnqueueGitJob
  <2>2. CASE active # None
    <3>1. jobs' = [jobs EXCEPT ![<<"git", active>>] = "Queued"] /\ "git" \in WorkedKinds
        BY <1>4, <2>2 DEF EnqueueGitJob, WorkedKinds
    <3> QED BY <1>2, <3>1
  <2> QED BY <2>1, <2>2
<1>5. CASE ReduceDetachSelectedWorktree(e)
  <2>1. jobs' = IF active = None THEN jobs ELSE [jobs EXCEPT ![Detaching(active)] = "Queued"]
      BY <1>5 DEF ReduceDetachSelectedWorktree, Detaching
  <2> QED BY <1>1, <2>1
<1>6. CASE ReduceGitAction(e) \/ ReducePeriodicFetchTick(e)
    BY <1>4, <1>6 DEF ReduceGitAction, ReducePeriodicFetchTick, stateVars
<1>7. "git" \in WorkedKinds /\ "summary-refresh" \in WorkedKinds BY DEF WorkedKinds
<1>8. CASE ReduceRepoSummaryRefreshStarted(e) \/ ReduceGitOperationStarted(e)
    BY <1>2, <1>7, <1>8 DEF ReduceRepoSummaryRefreshStarted, ReduceGitOperationStarted
<1>9. CASE ReduceRepoSummaryUpdated(e) BY <1>3, <1>7, <1>9 DEF ReduceRepoSummaryUpdated
<1>10. CASE ReduceRepoSummaryRefreshFailed(e)
    BY <1>3, <1>7, <1>10 DEF ReduceRepoSummaryRefreshFailed
<1>11. CASE ReduceGitOperationDone(e) BY <1>3, <1>7, <1>11 DEF ReduceGitOperationDone
<1>12. CASE UNCHANGED jobs BY <1>12
<1> QED BY <1>5, <1>6, <1>8, <1>9, <1>10, <1>11, <1>12
        DEF Reduce, ReduceRefreshVisibleRepos, ReduceRefreshSelectedRepo,
            ReduceRefreshSelectedRepoDeep, ReduceEnterRepoMode, ReduceLeaveRepoMode,
            ReduceRepoScanFailed, ReduceRepoScanCompleted, ReduceRepoDetailLoaded,
            ReduceRepoInvalidated, ReduceWatcherDegraded, ReduceWatcherRecovered,
            ReducePeriodicRefreshTick, ReduceWatcherDebounceFlush, ReduceToastExpiryTick,
            stateVars

\* A handler asks for pools without workers, and for a command only when it
\* was asked for one.
LEMMA ReduceEffects ==
    ASSUME TypeOK, NEW e \in Event, Reduce(e), NEW i \in DOMAIN effects'
    PROVE  /\ effects'[i].kind = "RefreshRepoSummaries" => effects'[i].running = {}
           /\ ~GitInput(e) => effects'[i].kind # "RunGitCommand"
<1> USE DEF Plain, About, LoadDetail, Refresh, Pool, Watch, PersistCache
<1>3. CASE ReduceRefreshVisibleRepos(e) BY <1>3 DEF ReduceRefreshVisibleRepos
<1>4. CASE ReduceRefreshSelectedRepo(e) BY <1>4 DEF ReduceRefreshSelectedRepo
<1>5. CASE ReduceRefreshSelectedRepoDeep(e) BY <1>5 DEF ReduceRefreshSelectedRepoDeep
<1>6. CASE ReduceEnterRepoMode(e) BY <1>6 DEF ReduceEnterRepoMode
<1>7. CASE ReduceLeaveRepoMode(e) BY <1>7 DEF ReduceLeaveRepoMode
<1>8. CASE ReduceGitAction(e) BY <1>8 DEF ReduceGitAction, EnqueueGitJob, GitInput
<1>24. CASE ReduceDetachSelectedWorktree(e) BY <1>24 DEF ReduceDetachSelectedWorktree
<1>9. CASE ReducePeriodicFetchTick(e)
    BY <1>9 DEF ReducePeriodicFetchTick, EnqueueGitJob, GitInput
<1>10. CASE ReduceRepoScanFailed(e) BY <1>10 DEF ReduceRepoScanFailed
<1>11. CASE ReduceRepoScanCompleted(e) BY <1>11 DEF ReduceRepoScanCompleted, ScanEffects
<1>12. CASE ReduceRepoSummaryRefreshStarted(e)
    BY <1>12 DEF ReduceRepoSummaryRefreshStarted
<1>13. CASE ReduceRepoSummaryUpdated(e)
    BY <1>13 DEF ReduceRepoSummaryUpdated, UpdatedEffects
<1>14. CASE ReduceRepoSummaryRefreshFailed(e)
    BY <1>14 DEF ReduceRepoSummaryRefreshFailed, RefreshFailedEffects
<1>15. CASE ReduceRepoDetailLoaded(e) BY <1>15 DEF ReduceRepoDetailLoaded
<1>16. CASE ReduceGitOperationStarted(e) BY <1>16 DEF ReduceGitOperationStarted
<1>17. CASE ReduceGitOperationDone(e) BY <1>17 DEF ReduceGitOperationDone
<1>18. CASE ReduceRepoInvalidated(e)
    BY <1>18 DEF ReduceRepoInvalidated, InvalidationEffects
<1>19. CASE ReduceWatcherDegraded(e) BY <1>19 DEF ReduceWatcherDegraded
<1>20. CASE ReduceWatcherRecovered(e) BY <1>20 DEF ReduceWatcherRecovered
<1>21. CASE ReducePeriodicRefreshTick(e)
    BY <1>21 DEF ReducePeriodicRefreshTick, PollEffects, LoadActiveDetail
<1>22. CASE ReduceWatcherDebounceFlush(e)
  <2>1. PICK others \in Orders(ws.invalidations \ {active}) :
          effects' = (IF active \in ws.invalidations THEN FlushActive(active) ELSE <<>>)
                     \o [k \in DOMAIN others |-> Refresh({others[k]})]
      BY <1>22 DEF ReduceWatcherDebounceFlush
  <2> DEFINE first == IF active \in ws.invalidations THEN FlushActive(active) ELSE <<>>
             rest == [k \in DOMAIN others |-> Refresh({others[k]})]
  <2>2. \A k \in DOMAIN first :
          /\ first[k].kind = "RefreshRepoSummaries" => first[k].running = {}
          /\ first[k].kind # "RunGitCommand"
      BY DEF FlushActive
  <2>3. \A k \in DOMAIN rest :
          /\ rest[k].kind = "RefreshRepoSummaries" => rest[k].running = {}
          /\ rest[k].kind # "RunGitCommand"
      OBVIOUS
  <2>4. ws.invalidations \in SUBSET Repos BY DEF TypeOK, Workspace
  <2> HIDE DEF Refresh, Pool, LoadDetail, About, Plain, PersistCache, Watch
  <2>5. first \in Seq(Effect) BY <2>4, EffectForms DEF FlushActive
  <2>6. rest \in Seq(Effect)
    <3>1. ws.invalidations \ {active} \in SUBSET Repos BY <2>4
    <3> QED BY <3>1, <2>1, RefreshEach
  <2>7. effects' = first \o rest BY <2>1
  <2> HIDE DEF first, rest
  <2> QED BY <2>2, <2>3, <2>5, <2>6, <2>7
<1>23. CASE ReduceToastExpiryTick(e) BY <1>23 DEF ReduceToastExpiryTick
<1> QED BY <1>3, <1>4, <1>5, <1>6, <1>7, <1>8, <1>9, <1>10, <1>11, <1>12, <1>13,
           <1>14, <1>15, <1>16, <1>17, <1>18, <1>19, <1>20, <1>21, <1>22, <1>23, <1>24
        DEF Reduce

-----------------------------------------------------------------------------
(* Sequences of events.                                                    *)

LEMMA JoinedParts ==
    ASSUME NEW s \in Seq(Event), NEW t \in Seq(Event)
    PROVE  /\ s \o t \in Seq(Event)
           /\ \A i \in DOMAIN s : i \in DOMAIN (s \o t) /\ (s \o t)[i] = s[i]
           /\ \A k \in DOMAIN t :
                Len(s) + k \in DOMAIN (s \o t) /\ (s \o t)[Len(s) + k] = t[k]
           /\ \A i \in DOMAIN (s \o t) :
                \/ i \in DOMAIN s /\ (s \o t)[i] = s[i]
                \/ \E k \in DOMAIN t : i = Len(s) + k /\ (s \o t)[i] = t[k]
<1>1. /\ DOMAIN s = 1..Len(s) /\ DOMAIN t = 1..Len(t) /\ Len(s) \in Nat /\ Len(t) \in Nat
      /\ DOMAIN (s \o t) = 1..(Len(s) + Len(t)) /\ s \o t \in Seq(Event)
      /\ \A i \in 1..(Len(s) + Len(t)) :
            (s \o t)[i] = IF i <= Len(s) THEN s[i] ELSE t[i - Len(s)]
    OBVIOUS
<1>2. \A i \in 1..(Len(s) + Len(t)) :
        \/ i \in 1..Len(s) /\ (s \o t)[i] = s[i]
        \/ i - Len(s) \in 1..Len(t) /\ i = Len(s) + (i - Len(s))
           /\ (s \o t)[i] = t[i - Len(s)]
    BY <1>1
<1>3. \A k \in 1..Len(t) :
        Len(s) + k \in 1..(Len(s) + Len(t)) /\ (s \o t)[Len(s) + k] = t[k]
    BY <1>1
<1>4. \A i \in 1..Len(s) : i \in 1..(Len(s) + Len(t)) /\ (s \o t)[i] = s[i]
    BY <1>1
<1>5. \A i \in DOMAIN (s \o t) :
        \/ i \in DOMAIN s /\ (s \o t)[i] = s[i]
        \/ \E k \in DOMAIN t : i = Len(s) + k /\ (s \o t)[i] = t[k]
    BY <1>1, <1>2, Zenon
<1>6. s \o t \in Seq(Event) OBVIOUS
<1> QED BY <1>1, <1>3, <1>4, <1>5, <1>6, Zenon

LEMMA AppendParts ==
    ASSUME NEW s \in Seq(Event), NEW e \in Event
    PROVE  /\ Append(s, e) \in Seq(Event)
           /\ \A i \in DOMAIN s : i \in DOMAIN Append(s, e) /\ Append(s, e)[i] = s[i]
           /\ Len(s) + 1 \in DOMAIN Append(s, e) /\ Append(s, e)[Len(s) + 1] = e
           /\ \A i \in DOMAIN Append(s, e) :
                \/ i \in DOMAIN s /\ Append(s, e)[i] = s[i]
                \/ i = Len(s) + 1 /\ Append(s, e)[i] = e
    OBVIOUS

LEMMA TailParts ==
    ASSUME NEW s \in Seq(Event), s # <<>>
    PROVE  /\ Tail(s) \in Seq(Event) /\ Head(s) = s[1] /\ Head(s) \in Event
           /\ 1 \in DOMAIN s
           /\ \A i \in DOMAIN Tail(s) : i + 1 \in DOMAIN s /\ Tail(s)[i] = s[i + 1]
                                        /\ i + 1 # 1 /\ i \in Nat
           /\ \A i \in DOMAIN s : i = 1 \/ (i - 1 \in DOMAIN Tail(s)
                                            /\ Tail(s)[i - 1] = s[i])
    OBVIOUS

LEMMA JoinAppended ==
    ASSUME NEW s \in Seq(Event), NEW t \in Seq(Event), NEW a \in Event
    PROVE  s \o Append(t, a) = Append(s \o t, a) /\ Append(t, a) \in Seq(Event)
    OBVIOUS

LEMMA AppendTwo ==
    ASSUME NEW s \in Seq(Event), NEW a \in Event, NEW b \in Event
    PROVE  s \o <<a, b>> = Append(Append(s, a), b)
<1>1. <<a, b>> = Append(<<a>>, b) /\ <<a>> \in Seq(Event) OBVIOUS
<1>2. s \o Append(<<a>>, b) = Append(s \o <<a>>, b) BY <1>1
<1>3. s \o <<a>> = Append(s, a) OBVIOUS
<1> QED BY <1>1, <1>2, <1>3, Zenon

LEMMA LineTypes ==
    ASSUME TypeOK
    PROVE  /\ queue \in Seq(Event) /\ followUps \in Seq(Event) /\ backendQ \in Seq(Event)
           /\ effects \in Seq(Effect) /\ Line \in Seq(Event)
           /\ jobs \in [Jobs -> JobStates]
<1>1. /\ queue \in Seq(Event) /\ followUps \in Seq(Event) /\ backendQ \in Seq(Event)
      /\ effects \in Seq(Effect) /\ jobs \in [Jobs -> JobStates]
    BY DEF TypeOK, Jobs
<1>2. Line \in Seq(Event) BY <1>1, JoinedParts DEF Line
<1> QED BY <1>1, <1>2

\* A follow-up goes to the end of the line.
LEMMA FollowUpLine ==
    ASSUME TypeOK, NEW e \in Event, followUps' = Append(followUps, e), queue' = queue
    PROVE  Line' = Append(Line, e)
<1>1. queue \in Seq(Event) /\ followUps \in Seq(Event) BY LineTypes
<1>2. queue \o Append(followUps, e) = Append(queue \o followUps, e) BY <1>1
<1> QED BY <1>2 DEF Line

\* Outside of an event's effects the line is the queue.
LEMMA LineIsQueue == \A s \in Seq(Event) : s \o <<>> = s /\ <<>> \o s = s
    OBVIOUS

\* e starts and ends no job.
Calm(e) == \A j \in Worked : ~Opens(e, j) /\ ~Closes(e, j)
CalmAll(s) == \A i \in DOMAIN s : Calm(s[i])

LEMMA CalmKinds ==
    ASSUME NEW e, e.kind \notin {"GitOperationStarted", "GitOperationCompleted",
                    "GitOperationFailed", "RepoSummaryRefreshStarted",
                    "RepoSummaryUpdated", "RepoSummaryRefreshFailed"}
    PROVE  Calm(e)
    BY JobEvents DEF Calm

LEMMA CalmBackend ==
    ASSUME BackendQuiet
    PROVE  CalmAll(backendQ)
    BY CalmKinds DEF BackendQuiet, CalmAll

LEMMA CalmPasses ==
    ASSUME NEW e, Calm(e), NEW j \in Worked, NEW a \in BOOLEAN
    PROVE  Passes(e, j, a, a)
    BY DEF Calm, Passes

\* Job events, by the name of their job.
LEMMA JobNews ==
    ASSUME NEW r \in Repos, NEW j \in Worked, NEW e, e.repo = r
    PROVE  /\ e.kind = "RepoSummaryRefreshStarted" =>
                IF j = <<"summary-refresh", r>> THEN Opens(e, j) /\ ~Closes(e, j)
                ELSE ~Opens(e, j) /\ ~Closes(e, j)
           /\ e.kind \in {"RepoSummaryUpdated", "RepoSummaryRefreshFailed"} =>
                IF j = <<"summary-refresh", r>> THEN Closes(e, j) /\ ~Opens(e, j)
                ELSE ~Opens(e, j) /\ ~Closes(e, j)
           /\ e.kind = "GitOperationStarted" =>
                IF j = <<"git", r>> THEN Opens(e, j) /\ ~Closes(e, j)
                ELSE ~Opens(e, j) /\ ~Closes(e, j)
           /\ e.kind \in {"GitOperationCompleted", "GitOperationFailed"} =>
                IF j = <<"git", r>> THEN Closes(e, j) /\ ~Opens(e, j)
                ELSE ~Opens(e, j) /\ ~Closes(e, j)
<1>1. j = <<j[1], j[2]>> /\ (j[1] = "git" \/ j[1] = "summary-refresh")
      /\ "git" # "summary-refresh"
    BY JobParts
<1>2. \A k : j = <<k, r>> <=> j[1] = k /\ j[2] = r BY <1>1
<1> QED BY <1>1, <1>2, JobEvents

-----------------------------------------------------------------------------
(* Each step keeps the jobs in turn.                                       *)

LEMMA InitJobs == Init => JobInv
<1> SUFFICES ASSUME Init PROVE JobInv
    OBVIOUS
<1>1. DebounceInv BY InitDebounce
<1>2. /\ queue = <<>> /\ followUps = <<>> /\ backendQ = <<>> /\ effects = <<>>
      /\ jobs = [j \in JobKinds \X Repos |-> "none"]
    BY DEF Init
<1>3. Line = <<>> BY <1>2 DEF Line
<1>4. LineKept BY <1>2 DEF LineKept
<1>5. BackendQuiet BY <1>2 DEF BackendQuiet
<1>6. PoolsApart BY <1>2 DEF PoolsApart
<1>7. \A j \in Worked : jobs[j] = "none" BY <1>2, JobSorts DEF Jobs
<1>8. JobsInTurn
  <2>1. \A j \in Worked : ~Working(j) BY <1>2 DEF Working
  <2>2. ASSUME NEW j \in Worked PROVE InTurn(Line, j, jobs[j] = "Running", Working(j))
    <3>1. (jobs[j] = "Running") = FALSE /\ Working(j) = FALSE
        BY <1>7, <2>1 DEF Working
    <3>2. InTurn(<<>>, j, FALSE, FALSE) BY TurnEmpty
    <3> QED BY <1>3, <3>1, <3>2
  <2> QED BY <2>2 DEF JobsInTurn
<1>9. QueuedForReason BY <1>7 DEF QueuedForReason
<1>10. OneCommand BY <1>2 DEF OneCommand, NoGitInput
<1>11. DetachesWait
  <2>1. \A j \in Jobs : jobs[j] = "none" BY <1>2 DEF Jobs
  <2> QED BY <2>1, JobSorts DEF DetachesWait
<1> QED BY <1>1, <1>4, <1>5, <1>6, <1>8, <1>9, <1>10, <1>11 DEF JobInv

LEMMA DetachesKept ==
    ASSUME JobInv, jobs' = jobs
    PROVE  DetachesWait'
    BY DEF JobInv, DetachesWait

\* Steps that leave the loop and the reducer alone.
LEMMA UnchangedJobs ==
    ASSUME JobInv, DebounceInv', UNCHANGED <<loopVars, stateVars>>, BackendQuiet'
    PROVE  JobInv'
<1>1. UNCHANGED <<phase, queue, effects, followUps, jobs>> BY DEF loopVars, stateVars
<1>2. Line' = Line BY <1>1 DEF Line
<1>3. LineKept' BY <1>1 DEF JobInv, LineKept
<1>4. PoolsApart' BY <1>1 DEF JobInv, PoolsApart
<1>5. JobsInTurn'
  <2>1. \A j : Working(j)' = Working(j) BY <1>1 DEF Working
  <2> QED BY <1>1, <1>2, <2>1 DEF JobInv, JobsInTurn
<1>6. QueuedForReason' BY <1>1, <1>2 DEF JobInv, QueuedForReason
<1>7. NoGitInput(backendQ')
    BY DEF BackendQuiet, NoGitInput, GitInput
<1>8. GitQuiet' <=> GitQuiet BY <1>1, <1>2 DEF GitQuiet
<1>9. OneCommand' BY <1>1, <1>2, <1>7, <1>8 DEF JobInv, OneCommand
<1> QED BY <1>1, <1>3, <1>4, <1>5, <1>6, <1>9, DetachesKept DEF JobInv

LEMMA NotifyQuiet ==
    ASSUME TypeOK, BackendQuiet, NEW r \in Repos, Notify(r)
    PROVE  BackendQuiet'
<1>1. backendQ \in Seq(Event) /\ About("RepoInvalidated", r) \in Event
      /\ About("RepoInvalidated", r).kind = "RepoInvalidated"
    BY EventForms DEF TypeOK, RepoEvents
<1>2. CASE backendQ' = Append(backendQ, About("RepoInvalidated", r))
    BY <1>1, <1>2, AppendParts DEF BackendQuiet
<1>3. CASE backendQ' = backendQ BY <1>3 DEF BackendQuiet
<1> QED BY <1>2, <1>3 DEF Notify

LEMMA EnvironmentKeepsJobs == JobInv /\ Environment => JobInv'
<1> SUFFICES ASSUME JobInv, Environment PROVE JobInv'
    OBVIOUS
<1>1. TypeOK /\ BackendQuiet /\ DebounceInv BY DEF JobInv, DebounceInv
<1>2. DebounceInv' BY <1>1, EnvironmentKeepsDebounce
<1>3. UNCHANGED <<loopVars, stateVars>>
    BY DEF Environment, ChangeRepo, RemoveRepo, AddRepo, TouchRepo, BackendFails,
           BackendRecovers
<1>4. BackendQuiet'
  <2>1. CASE \E r \in Repos : ChangeRepo(r) \/ RemoveRepo(r) \/ TouchRepo(r)
      BY <1>1, <2>1, NotifyQuiet DEF ChangeRepo, RemoveRepo, TouchRepo
  <2>2. CASE \E r \in Repos : AddRepo(r)
      BY <1>1, <2>2 DEF AddRepo, backendVars, BackendQuiet
  <2>3. \A k \in {"WatcherDegraded", "WatcherRecovered"} :
          Plain(k) \in Event /\ Plain(k).kind = k
      BY EventForms DEF PlainEvents
  <2>4. ASSUME NEW k \in {"WatcherDegraded", "WatcherRecovered"},
               backendQ' = Append(backendQ, Plain(k))
        PROVE  BackendQuiet'
    <3>1. backendQ \in Seq(Event) BY <1>1 DEF TypeOK
    <3> QED BY <1>1, <2>3, <2>4, <3>1, AppendParts DEF BackendQuiet
  <2>5. CASE BackendFails BY <2>4, <2>5 DEF BackendFails
  <2>6. CASE BackendRecovers BY <2>4, <2>6 DEF BackendRecovers
  <2> QED BY <2>1, <2>2, <2>5, <2>6 DEF Environment
<1> QED BY <1>2, <1>3, <1>4, UnchangedJobs

LEMMA DispatchKeepsJobs ==
    ASSUME JobInv, Dispatch
    PROVE  /\ JobInv'
           /\ \A j \in Jobs : jobs'[j] # jobs[j] =>
                \/ jobs[j] \in {"none", "Succeeded", "Failed"} /\ jobs'[j] = "Queued"
                \/ /\ jobs[j] \in {"none", "Queued", "Succeeded", "Failed"}
                   /\ jobs'[j] = "Running"
                \/ jobs[j] = "Running" /\ jobs'[j] \in {"Succeeded", "Failed"}
<1> DEFINE h == Head(queue)
<1>1. DebounceInv' BY DispatchKeepsDebounce DEF JobInv
<1>2. /\ TypeOK /\ queue # <<>> /\ queue \in Seq(Event) /\ jobs \in [Jobs -> JobStates]
      /\ Reduce(h) /\ queue' = Tail(queue)
      /\ followUps' = <<>> /\ phase = "dispatch" /\ phase' = "effects"
      /\ backendQ' = backendQ
    BY LineTypes DEF JobInv, DebounceInv, Dispatch, backendVars
<1>3. effects = <<>> BY <1>2 DEF JobInv, DebounceInv, FlushDiscipline
<1>4. Line = queue
  <2>1. followUps = <<>> BY <1>2 DEF JobInv, LineKept
  <2> QED BY <1>2, <2>1, LineIsQueue DEF Line
<1>5. Line' = Tail(queue)
  <2>1. Tail(queue) \in Seq(Event) BY <1>2, TailParts
  <2> QED BY <1>2, <2>1, LineIsQueue DEF Line
<1>6. /\ h \in Event /\ Tail(queue) \in Seq(Event) /\ h = queue[1] /\ 1 \in DOMAIN queue
      /\ \A i \in DOMAIN Tail(queue) :
            i + 1 \in DOMAIN queue /\ Tail(queue)[i] = queue[i + 1] /\ i + 1 # 1
      /\ \A i \in DOMAIN queue : i = 1 \/ (i - 1 \in DOMAIN Tail(queue)
                                           /\ Tail(queue)[i - 1] = queue[i])
    BY <1>2, TailParts
<1>7. /\ \A j \in Worked : Opens(h, j) => jobs'[j] = "Running"
      /\ \A j \in Worked : Closes(h, j) =>
                \/ jobs'[j] \in {"Succeeded", "Failed"}
                \/ jobs[j] = "none" /\ jobs'[j] = "none"
      /\ \A j \in Worked : ~Opens(h, j) /\ ~Closes(h, j) /\ ~GitInput(h) => jobs'[j] = jobs[j]
      /\ GitInput(h) =>
            \/ jobs' = jobs /\ effects' = <<>>
            \/ \E r \in Repos : /\ jobs' = [jobs EXCEPT ![<<"git", r>>] = "Queued"]
                                /\ effects' = <<About("RunGitCommand", r)>>
    BY <1>2, <1>6, ReduceJobs
<1>8. \A i \in DOMAIN effects' :
        /\ effects'[i].kind = "RefreshRepoSummaries" => effects'[i].running = {}
        /\ ~GitInput(h) => effects'[i].kind # "RunGitCommand"
    BY <1>2, <1>6, ReduceEffects
<1>9. GitInput(h) => /\ GitQuiet
                     /\ \A k \in DOMAIN queue : GitInput(queue[k]) => k = 1
    BY <1>6 DEF JobInv, OneCommand
<1> HIDE DEF h
<1>10. TypeOK' BY <1>1 DEF DebounceInv
<1>11. effects' \in Seq(Effect) /\ jobs' \in [Jobs -> JobStates] BY <1>10 DEF TypeOK, Jobs
<1>12. \A j \in Worked : ~Working(j) /\ ~Working(j)'
  <2>1. effects' # <<>> => Head(effects') = effects'[1] /\ 1 \in DOMAIN effects'
      BY <1>11
  <2> QED BY <1>3, <1>8, <2>1 DEF Working
\* A handler asked for a command leaves the events of jobs alone.
<1>13. GitInput(h) => \A j \in Worked : ~Opens(h, j) /\ ~Closes(h, j)
    BY JobEvents DEF GitInput
<1>14. ASSUME NEW j \in Worked
       PROVE  \E b \in BOOLEAN : /\ Passes(h, j, jobs[j] = "Running", b)
                                 /\ InTurn(Tail(queue), j, b, FALSE)
  <2>1. InTurn(queue, j, jobs[j] = "Running", Working(j)) BY <1>4 DEF JobInv, JobsInTurn
  <2>2. Working(j) = FALSE BY <1>12 DEF Working
  <2>3. InTurn(queue, j, jobs[j] = "Running", FALSE) BY <2>1, <2>2
  <2> QED BY <1>2, <2>3, TurnTail DEF h
<1>15. \A r \in Repos : <<"git", r>> \in Worked BY GitJobs
<1>16. GitInput(h) => \A j \in Worked : jobs[j] # "Running" \/ jobs'[j] = jobs[j]
  <2>1. SUFFICES ASSUME GitInput(h), NEW j \in Worked PROVE jobs[j] # "Running" \/ jobs'[j] = jobs[j]
      OBVIOUS
  <2>2. \A r \in Repos : jobs[<<"git", r>>] # "Running" BY <1>9, <2>1 DEF GitQuiet
  <2>3. CASE jobs' = jobs BY <2>3
  <2>4. ASSUME NEW r \in Repos, jobs' = [jobs EXCEPT ![<<"git", r>>] = "Queued"]
        PROVE  jobs[j] # "Running" \/ jobs'[j] = jobs[j]
    <3>1. CASE j = <<"git", r>> BY <2>2, <3>1
    <3>2. CASE j # <<"git", r>> BY <1>2, <2>4, <3>2, JobSorts
    <3> QED BY <3>1, <3>2
  <2> QED BY <1>7, <2>1, <2>3, <2>4
<1>17. GitInput(h) => \A j \in Worked : jobs'[j] # jobs[j] =>
                        /\ jobs[j] \notin {"Queued", "Running"}
                        /\ jobs'[j] = "Queued" /\ j[1] = "git"
                        /\ \E i \in DOMAIN effects' : RunsGit(effects'[i], j[2])
  <2>1. SUFFICES ASSUME GitInput(h), NEW j \in Worked, jobs'[j] # jobs[j]
                 PROVE  /\ jobs[j] \notin {"Queued", "Running"}
                        /\ jobs'[j] = "Queued" /\ j[1] = "git"
                        /\ \E i \in DOMAIN effects' : RunsGit(effects'[i], j[2])
      OBVIOUS
  <2>2. PICK r \in Repos : /\ jobs' = [jobs EXCEPT ![<<"git", r>>] = "Queued"]
                           /\ effects' = <<About("RunGitCommand", r)>>
      BY <1>7, <2>1
  <2>3. j = <<"git", r>>
    <3>1. CASE j # <<"git", r>> BY <1>2, <2>1, <2>2, <3>1, JobSorts
    <3> QED BY <3>1
  <2>4. jobs[j] \notin {"Queued", "Running"} BY <1>9, <2>1, <2>3 DEF GitQuiet
  <2>5. jobs'[j] = "Queued" BY <1>2, <2>2, <2>3, JobSorts
  <2>6. j[1] = "git" /\ j[2] = r BY <2>3
  <2>7. 1 \in DOMAIN effects' /\ effects'[1] = About("RunGitCommand", r) BY <2>2
  <2>8. RunsGit(effects'[1], r) BY <2>7 DEF RunsGit, About
  <2> QED BY <2>4, <2>5, <2>6, <2>7, <2>8
<1>18. JobsInTurn'
  <2>1. ASSUME NEW j \in Worked
        PROVE  InTurn(Line', j, jobs'[j] = "Running", Working(j)')
    <3>1. PICK b \in BOOLEAN : /\ Passes(h, j, jobs[j] = "Running", b)
                               /\ InTurn(Tail(queue), j, b, FALSE)
        BY <1>14
    <3>2. (jobs'[j] = "Running") = b
      <4>1. CASE Opens(h, j) /\ ~Closes(h, j) BY <1>7, <3>1, <4>1 DEF Passes
      <4>2. CASE Closes(h, j) /\ ~Opens(h, j) BY <1>7, <3>1, <4>2 DEF Passes
      <4>3. CASE ~Opens(h, j) /\ ~Closes(h, j)
        <5>1. b = (jobs[j] = "Running") BY <3>1, <4>3 DEF Passes
        <5>2. CASE ~GitInput(h) BY <1>7, <4>3, <5>1, <5>2
        <5>3. CASE GitInput(h)
          <6>1. (jobs'[j] = "Running") = (jobs[j] = "Running") BY <1>16, <1>17, <5>3
          <6> QED BY <5>1, <6>1
        <5> QED BY <5>2, <5>3
      <4>4. ~(Opens(h, j) /\ Closes(h, j)) BY JobEvents
      <4> QED BY <4>1, <4>2, <4>3, <4>4
    <3>3. Working(j)' = FALSE BY <1>12 DEF Working
    <3> QED BY <1>5, <3>1, <3>2, <3>3
  <2> QED BY <2>1 DEF JobsInTurn
<1>19. QueuedForReason'
  <2>1. ASSUME NEW j \in Worked, jobs'[j] = "Queued"
        PROVE  /\ j[1] = "git"
               /\ \/ \E i \in DOMAIN effects' : RunsGit(effects'[i], j[2])
                  \/ \E i \in DOMAIN Tail(queue) : Opens(Tail(queue)[i], j)
    <3>1. CASE jobs[j] = "Queued" /\ ~GitInput(h)
      <4>1. j[1] = "git" /\ \E i \in DOMAIN queue : Opens(queue[i], j)
          BY <1>3, <1>4, <3>1 DEF JobInv, QueuedForReason
      <4>2. PICK i \in DOMAIN queue : Opens(queue[i], j) BY <4>1
      <4>3. ~Opens(h, j) BY <1>7, <2>1
      <4>4. i # 1 BY <1>6, <4>2, <4>3
      <4> QED BY <1>6, <4>1, <4>2, <4>4
    <3>2. CASE jobs[j] # "Queued" /\ ~GitInput(h)
      <4>1. jobs'[j] # jobs[j] BY <2>1, <3>2
      <4> QED BY <1>7, <2>1, <3>2, <4>1
    <3>3. CASE jobs[j] = "Queued" /\ GitInput(h)
      <4>1. j[1] = "git" BY <3>3 DEF JobInv, QueuedForReason
      <4>2. j = <<"git", j[2]>> /\ j[2] \in Repos BY <4>1, JobParts
      <4>3. jobs[j] # "Queued" BY <1>9, <3>3, <4>2 DEF GitQuiet
      <4> QED BY <3>3, <4>3
    <3>4. CASE jobs[j] # "Queued" /\ GitInput(h)
        BY <1>17, <2>1, <3>4
    <3> QED BY <3>1, <3>2, <3>3, <3>4
  <2> QED BY <1>5, <2>1 DEF QueuedForReason
<1>20. PoolsApart' BY <1>8 DEF PoolsApart
<1>21. LineKept' /\ BackendQuiet' BY <1>2 DEF JobInv, LineKept, BackendQuiet
<1>22. OneCommand'
  <2>1. NoGitInput(followUps') /\ NoGitInput(backendQ')
      BY <1>2 DEF JobInv, OneCommand, NoGitInput
  <2>2. ASSUME NEW i \in DOMAIN Tail(queue), GitInput(Tail(queue)[i])
        PROVE  /\ GitQuiet'
               /\ \A k \in DOMAIN Tail(queue) : GitInput(Tail(queue)[k]) => k = i
    <3>1. /\ i + 1 \in DOMAIN queue /\ GitInput(queue[i + 1]) /\ i + 1 # 1
        BY <1>6, <2>2
    <3>2. /\ GitQuiet
          /\ \A k \in DOMAIN queue : GitInput(queue[k]) => k = i + 1
        BY <3>1 DEF JobInv, OneCommand
    <3>3. ~GitInput(h) BY <1>6, <3>1, <3>2
    <3>4. ASSUME NEW r \in Repos PROVE jobs'[<<"git", r>>] = jobs[<<"git", r>>]
      <4>1. ~Opens(h, <<"git", r>>) /\ ~Closes(h, <<"git", r>>)
          BY <1>4, <1>6, <3>2 DEF GitQuiet
      <4> QED BY <1>7, <1>15, <3>3, <4>1
    <3>5. \A k \in DOMAIN Tail(queue), r \in Repos :
            ~Opens(Tail(queue)[k], <<"git", r>>) /\ ~Closes(Tail(queue)[k], <<"git", r>>)
        BY <1>4, <1>6, <3>2 DEF GitQuiet
    <3>6. GitQuiet' BY <1>5, <1>8, <3>2, <3>3, <3>4, <3>5 DEF GitQuiet
    <3>7. ASSUME NEW k \in DOMAIN Tail(queue), GitInput(Tail(queue)[k]) PROVE k = i
      <4>1. k + 1 = i + 1 BY <1>6, <3>2, <3>7
      <4>2. k \in Nat /\ i \in Nat BY <1>2, TailParts
      <4> QED BY <4>1, <4>2
    <3> QED BY <3>6, <3>7
  <2>3. ASSUME NEW i \in DOMAIN effects', effects'[i].kind = "RunGitCommand"
        PROVE  /\ Len(effects') = 1
               /\ jobs'[<<"git", effects'[i].repo>>] # "Running"
               /\ NoGitInput(Tail(queue))
               /\ \A k \in DOMAIN Tail(queue) :
                    LET j == <<"git", effects'[i].repo>>
                    IN ~Opens(Tail(queue)[k], j) /\ ~Closes(Tail(queue)[k], j)
    <3>1. GitInput(h) BY <1>8, <2>3
    <3>2. PICK r \in Repos : /\ jobs' = [jobs EXCEPT ![<<"git", r>>] = "Queued"]
                             /\ effects' = <<About("RunGitCommand", r)>>
      <4>1. effects' # <<>> BY <2>3
      <4> QED BY <1>7, <3>1, <4>1, Zenon
    <3>3. effects'[i].repo = r /\ Len(effects') = 1 BY <2>3, <3>2 DEF About
    <3>4. jobs'[<<"git", r>>] = "Queued" BY <1>2, GitJobs, <3>2
    <3>5. NoGitInput(Tail(queue)) BY <1>6, <1>9, <3>1 DEF NoGitInput
    <3>6. \A k \in DOMAIN Tail(queue) :
            ~Opens(Tail(queue)[k], <<"git", r>>) /\ ~Closes(Tail(queue)[k], <<"git", r>>)
        BY <1>4, <1>6, <1>9, <3>1 DEF GitQuiet
    <3> QED BY <3>3, <3>4, <3>5, <3>6
  <2> QED BY <1>2, <1>5, <2>1, <2>2, <2>3 DEF OneCommand
<1>25. ASSUME NEW r \in Repos
       PROVE  /\ jobs'[Detaching(r)] \in {jobs[Detaching(r)], "Queued"}
              /\ jobs[Detaching(r)] \in {"none", "Queued"}
    BY <1>2, <1>6, ReduceDetaches DEF JobInv, DetachesWait
<1>26. DetachesWait' BY <1>25 DEF DetachesWait
<1>23. JobInv' BY <1>1, <1>18, <1>19, <1>20, <1>21, <1>22, <1>26 DEF JobInv
<1>24. ASSUME NEW j \in Worked, jobs'[j] # jobs[j]
       PROVE  \/ jobs[j] \in {"none", "Succeeded", "Failed"} /\ jobs'[j] = "Queued"
              \/ /\ jobs[j] \in {"none", "Queued", "Succeeded", "Failed"}
                 /\ jobs'[j] = "Running"
              \/ jobs[j] = "Running" /\ jobs'[j] \in {"Succeeded", "Failed"}
  <2>1. PICK b \in BOOLEAN : Passes(h, j, jobs[j] = "Running", b) BY <1>14
  <2>2. jobs[j] \in JobStates BY <1>2, JobSorts
  <2>3. CASE Opens(h, j) /\ ~Closes(h, j)
    <3>1. jobs[j] # "Running" /\ jobs'[j] = "Running" BY <1>7, <2>1, <2>3 DEF Passes
    <3> QED BY <2>2, <3>1 DEF JobStates
  <2>4. CASE Closes(h, j) /\ ~Opens(h, j)
    <3>1. jobs[j] = "Running" BY <2>1, <2>4 DEF Passes
    <3> QED BY <1>7, <2>4, <3>1
  <2>5. CASE ~Opens(h, j) /\ ~Closes(h, j)
    <3>1. GitInput(h) BY <1>7, <1>24, <2>5
    <3>2. jobs[j] \notin {"Queued", "Running"} /\ jobs'[j] = "Queued" BY <1>17, <1>24, <3>1
    <3> QED BY <2>2, <3>2 DEF JobStates
  <2>6. ~(Opens(h, j) /\ Closes(h, j)) BY JobEvents
  <2> QED BY <2>3, <2>4, <2>5, <2>6
<1>27. ASSUME NEW j \in Jobs \ Worked, jobs'[j] # jobs[j]
       PROVE  jobs[j] = "none" /\ jobs'[j] = "Queued"
  <2>1. PICK r \in Repos : j = Detaching(r) BY JobSorts
  <2> QED BY <1>25, <1>27, <2>1
<1> QED BY <1>23, <1>24, <1>27

LEMMA EndIterationKeepsJobs == JobInv /\ EndIteration => JobInv'
<1> SUFFICES ASSUME JobInv, EndIteration PROVE JobInv'
    OBVIOUS
<1>1. DebounceInv' BY EndIterationKeepsDebounce DEF JobInv
<1>2. /\ TypeOK /\ queue \in Seq(Event) /\ followUps \in Seq(Event)
      /\ backendQ \in Seq(Event) /\ Line \in Seq(Event) /\ jobs \in [Jobs -> JobStates]
    BY LineTypes DEF JobInv, DebounceInv
<1>3. /\ effects = <<>> /\ effects' = <<>> /\ jobs' = jobs
      /\ followUps' = <<>> /\ backendQ' = <<>>
      /\ queue' = IF Remaining = <<>> THEN Flush ELSE Remaining
    BY DEF EndIteration, stateVars
<1>4. /\ Flush \in Seq(Event) /\ CalmAll(Flush) /\ NoGitInput(Flush)
  <2>1. Plain("WatcherDebounceFlush") \in Event
        /\ Plain("WatcherDebounceFlush").kind = "WatcherDebounceFlush"
      BY EventForms DEF PlainEvents
  <2>2. Calm(Plain("WatcherDebounceFlush")) BY <2>1, CalmKinds
  <2>3. ~GitInput(Plain("WatcherDebounceFlush")) BY <2>1 DEF GitInput
  <2> HIDE DEF Plain
  <2>4. CASE Flush = <<Plain("WatcherDebounceFlush")>>
      BY <2>1, <2>2, <2>3, <2>4 DEF CalmAll, NoGitInput
  <2>5. CASE Flush = <<>> BY <2>5 DEF CalmAll, NoGitInput
  <2> QED BY <2>4, <2>5 DEF Flush
<1>5. CalmAll(backendQ) /\ NoGitInput(backendQ)
    BY CalmBackend DEF JobInv, OneCommand
<1>6. PICK t \in Seq(Event) : queue' = Line \o t /\ CalmAll(t) /\ NoGitInput(t)
  <2>1. Remaining = Line \o backendQ BY <1>2 DEF Remaining, Line
  <2>2. CASE Remaining # <<>>
    <3>1. queue' = Line \o backendQ BY <1>3, <2>1, <2>2
    <3> QED BY <1>2, <1>5, <3>1, Zenon
  <2>3. CASE Remaining = <<>>
    <3>1. Len(Line \o backendQ) = 0
      <4>1. Line \o backendQ = <<>> BY <2>1, <2>3, Zenon
      <4>2. Len(<<>>) = 0 OBVIOUS
      <4> QED BY <4>1, <4>2, Zenon
    <3>2. Len(Line) = 0
      <4>1. Len(Line \o backendQ) = Len(Line) + Len(backendQ) BY <1>2
      <4>2. Len(Line) \in Nat /\ Len(backendQ) \in Nat BY <1>2
      <4> QED BY <3>1, <4>1, <4>2
    <3>3. Line = <<>> BY <1>2, <3>2
    <3>4. queue' = <<>> \o Flush BY <1>3, <1>4, <2>3, LineIsQueue
    <3> QED BY <1>4, <3>3, <3>4
  <2> QED BY <2>2, <2>3
<1>7. Line \o t \in Seq(Event) BY <1>2, JoinedParts
<1>8. Line' = Line \o t BY <1>3, <1>6, <1>7, LineIsQueue DEF Line
<1>9. /\ \A i \in DOMAIN Line : i \in DOMAIN (Line \o t) /\ (Line \o t)[i] = Line[i]
      /\ \A i \in DOMAIN (Line \o t) :
            \/ i \in DOMAIN Line /\ (Line \o t)[i] = Line[i]
            \/ \E k \in DOMAIN t : (Line \o t)[i] = t[k]
    BY <1>2, JoinedParts
<1>10. JobsInTurn'
  <2>1. ASSUME NEW j \in Worked PROVE InTurn(Line', j, jobs'[j] = "Running", Working(j)')
    <3>1. InTurn(Line, j, jobs[j] = "Running", Working(j)) BY DEF JobInv, JobsInTurn
    <3>2. Working(j) = FALSE /\ Working(j)' = FALSE BY <1>3 DEF Working
    <3>3. \A i \in DOMAIN t : ~Opens(t[i], j) /\ ~Closes(t[i], j)
        BY <1>6 DEF CalmAll, Calm
    <3>4. InTurn(Line, j, jobs[j] = "Running", FALSE) BY <3>1, <3>2
    <3>5. InTurn(Line \o t, j, jobs[j] = "Running", FALSE)
        BY <1>2, <3>3, <3>4, TurnQuiet
    <3> QED BY <1>3, <1>8, <3>2, <3>5
  <2> QED BY <2>1 DEF JobsInTurn
<1>11. QueuedForReason'
  <2>1. ASSUME NEW j \in Worked, jobs[j] = "Queued"
        PROVE  j[1] = "git" /\ \E i \in DOMAIN (Line \o t) : Opens((Line \o t)[i], j)
    <3>1. j[1] = "git" /\ \E i \in DOMAIN Line : Opens(Line[i], j)
        BY <1>3, <2>1 DEF JobInv, QueuedForReason
    <3> QED BY <1>9, <3>1
  <2> QED BY <1>3, <1>8, <2>1 DEF QueuedForReason
<1>12. PoolsApart' /\ LineKept' /\ BackendQuiet' BY <1>3 DEF PoolsApart, LineKept, BackendQuiet
<1>13. GitQuiet => GitQuiet'
  <2>1. ASSUME GitQuiet, NEW i \in DOMAIN (Line \o t), NEW r \in Repos
        PROVE  ~Opens((Line \o t)[i], <<"git", r>>) /\ ~Closes((Line \o t)[i], <<"git", r>>)
    <3>1. \A k \in DOMAIN t : ~Opens(t[k], <<"git", r>>) /\ ~Closes(t[k], <<"git", r>>)
        BY <1>6, JobParts DEF CalmAll, Calm
    <3> QED BY <1>9, <2>1, <3>1 DEF GitQuiet
  <2> QED BY <1>3, <1>8, <2>1 DEF GitQuiet
<1>14. OneCommand'
  <2>1. ASSUME NEW i \in DOMAIN (Line \o t), GitInput((Line \o t)[i])
        PROVE  i \in DOMAIN queue /\ queue[i] = (Line \o t)[i]
    <3>1. i \in DOMAIN Line /\ (Line \o t)[i] = Line[i]
        BY <1>6, <1>9, <2>1 DEF NoGitInput
    <3>2. \/ i \in DOMAIN queue /\ Line[i] = queue[i]
          \/ \E k \in DOMAIN followUps : Line[i] = followUps[k]
        BY <1>2, <3>1, JoinedParts DEF Line
    <3>3. NoGitInput(followUps) BY DEF JobInv, OneCommand
    <3> QED BY <2>1, <3>1, <3>2, <3>3 DEF NoGitInput
  <2>2. ASSUME NEW i \in DOMAIN queue', GitInput(queue'[i])
        PROVE  GitQuiet' /\ \A k \in DOMAIN queue' : GitInput(queue'[k]) => k = i
      BY <1>6, <1>13, <2>1, <2>2 DEF JobInv, OneCommand
  <2>3. NoGitInput(followUps') /\ NoGitInput(backendQ') BY <1>3 DEF NoGitInput
  <2> QED BY <1>3, <2>2, <2>3 DEF OneCommand
<1> QED BY <1>1, <1>3, <1>10, <1>11, <1>12, <1>14, DetachesKept DEF JobInv

-----------------------------------------------------------------------------
(* Applying effects.                                                       *)

\* What is known of the loop while it applies effects.
LEMMA Applied ==
    ASSUME JobInv, effects # <<>>
    PROVE  /\ TypeOK /\ BackendQuiet
           /\ Head(effects) = effects[1] /\ 1 \in DOMAIN effects
           /\ Head(effects) \in Effect /\ Tail(effects) \in Seq(Effect)
           /\ \A i \in DOMAIN Tail(effects) :
                i + 1 \in DOMAIN effects /\ Tail(effects)[i] = effects[i + 1] /\ i + 1 > 1
           /\ \A i \in DOMAIN effects : Len(effects) = 1 => i = 1
<1>1. TypeOK /\ BackendQuiet /\ effects \in Seq(Effect) BY DEF JobInv, DebounceInv, TypeOK
<1> QED BY <1>1

\* An effect that neither runs a command nor has workers is done, and what it
\* reports, if anything, concerns no job.
LEMMA CalmEffect ==
    ASSUME JobInv, DebounceInv', phase = "effects", effects # <<>>,
           Head(effects).kind # "RunGitCommand",
           Head(effects).kind = "RefreshRepoSummaries" => Head(effects).running = {},
           EffectDone, UNCHANGED <<phase, queue, jobs>>, BackendQuiet',
           \/ UNCHANGED followUps
           \/ \E e \in Event : /\ followUps' = Append(followUps, e)
                               /\ Calm(e) /\ ~GitInput(e)
    PROVE  JobInv'
<1>1. /\ TypeOK /\ Head(effects) = effects[1] /\ 1 \in DOMAIN effects
      /\ Tail(effects) \in Seq(Effect)
      /\ \A i \in DOMAIN Tail(effects) :
            i + 1 \in DOMAIN effects /\ Tail(effects)[i] = effects[i + 1] /\ i + 1 > 1
      /\ \A i \in DOMAIN effects : Len(effects) = 1 => i = 1
    BY Applied
<1>2. effects' = Tail(effects) BY DEF EffectDone
<1>3. \A i \in DOMAIN effects : effects[i].kind # "RunGitCommand"
    BY <1>1 DEF JobInv, OneCommand
<1>4. \A i \in DOMAIN effects' :
        /\ effects'[i].kind # "RunGitCommand"
        /\ effects'[i].kind = "RefreshRepoSummaries" => effects'[i].running = {}
    BY <1>1, <1>2, <1>3 DEF JobInv, PoolsApart
<1>5. \A j \in Worked : ~Working(j) /\ ~Working(j)'
  <2>1. effects' # <<>> => Head(effects') = effects'[1] /\ 1 \in DOMAIN effects'
      BY <1>1, <1>2
  <2> QED BY <1>4, <2>1 DEF Working
<1>6. /\ queue \in Seq(Event) /\ followUps \in Seq(Event) /\ Line \in Seq(Event)
    BY <1>1, LineTypes
<1>7. /\ \A i \in DOMAIN Line : i \in DOMAIN Line' /\ Line'[i] = Line[i]
      /\ \A i \in DOMAIN Line' : \/ i \in DOMAIN Line /\ Line'[i] = Line[i]
                                 \/ Calm(Line'[i])
      /\ NoGitInput(followUps')
      /\ \A j \in Worked, a \in BOOLEAN : InTurn(Line, j, a, FALSE) => InTurn(Line', j, a, FALSE)
  <2>1. NoGitInput(followUps) BY DEF JobInv, OneCommand
  <2>2. CASE UNCHANGED followUps
    <3>1. Line' = Line BY <2>2 DEF Line
    <3> QED BY <2>1, <2>2, <3>1
  <2>3. ASSUME NEW e \in Event, followUps' = Append(followUps, e), Calm(e), ~GitInput(e)
        PROVE  <1>7
    <3>1. Line' = Append(Line, e) BY <1>1, <2>3, FollowUpLine
    <3>2. /\ \A i \in DOMAIN Line : i \in DOMAIN Append(Line, e) /\ Append(Line, e)[i] = Line[i]
          /\ \A i \in DOMAIN Append(Line, e) :
                \/ i \in DOMAIN Line /\ Append(Line, e)[i] = Line[i]
                \/ Append(Line, e)[i] = e
        BY <1>6, AppendParts
    <3>3. NoGitInput(followUps') BY <1>6, <2>1, <2>3, AppendParts DEF NoGitInput
    <3>4. ASSUME NEW j \in Worked, NEW a \in BOOLEAN, InTurn(Line, j, a, FALSE)
          PROVE  InTurn(Append(Line, e), j, a, FALSE)
      <4>1. Passes(e, j, FALSE, FALSE) BY <2>3, CalmPasses
      <4> QED BY <1>6, <3>4, <4>1, TurnAppend
    <3> QED BY <2>3, <3>1, <3>2, <3>3, <3>4
  <2> QED BY <2>2, <2>3
<1>8. JobsInTurn'
  <2>1. ASSUME NEW j \in Worked PROVE InTurn(Line', j, jobs'[j] = "Running", Working(j)')
    <3>1. InTurn(Line, j, jobs[j] = "Running", Working(j)) BY DEF JobInv, JobsInTurn
    <3>2. Working(j) = FALSE /\ Working(j)' = FALSE BY <1>5 DEF Working
    <3>3. InTurn(Line, j, jobs[j] = "Running", FALSE) BY <3>1, <3>2
    <3> QED BY <1>7, <3>2, <3>3
  <2> QED BY <2>1 DEF JobsInTurn
<1>9. QueuedForReason'
  <2>1. ASSUME NEW j \in Worked, jobs[j] = "Queued"
        PROVE  j[1] = "git" /\ \E i \in DOMAIN Line' : Opens(Line'[i], j)
    <3>1. j[1] = "git" /\ \E i \in DOMAIN Line : Opens(Line[i], j)
        BY <1>3, <2>1 DEF JobInv, QueuedForReason, RunsGit
    <3> QED BY <1>7, <3>1
  <2> QED BY <2>1 DEF QueuedForReason
<1>10. PoolsApart' BY <1>4 DEF PoolsApart
<1>11. LineKept' BY DEF LineKept
<1>12. GitQuiet => GitQuiet'
    BY <1>4, <1>7, JobParts DEF GitQuiet, Calm
<1>13. NoGitInput(backendQ') BY DEF BackendQuiet, NoGitInput, GitInput
<1>14. OneCommand' BY <1>4, <1>7, <1>12, <1>13 DEF JobInv, OneCommand
<1> QED BY <1>8, <1>9, <1>10, <1>11, <1>14, DetachesKept DEF JobInv
\* A worker starts or hands in its outcome: one job event, in its turn.
LEMMA WorkerStep ==
    ASSUME JobInv, DebounceInv', phase = "effects", Applying("RefreshRepoSummaries"),
           NEW r \in Repos, NEW p, NEW n, PoolBecomes(p, n),
           NEW e \in Event, e.repo = r, FollowUp(e),
           UNCHANGED <<phase, queue, jobs, backendQ>>,
           \/ /\ e.kind = "RepoSummaryRefreshStarted" /\ r \in Head(effects).pending
              /\ p = Head(effects).pending \ {r} /\ n = Head(effects).running \cup {r}
           \/ /\ e.kind \in {"RepoSummaryUpdated", "RepoSummaryRefreshFailed"}
              /\ r \in Head(effects).running
              /\ p = Head(effects).pending /\ n = Head(effects).running \ {r}
    PROVE  JobInv'
<1>1. /\ TypeOK /\ Head(effects) = effects[1] /\ 1 \in DOMAIN effects
      /\ Tail(effects) \in Seq(Effect) /\ effects # <<>>
      /\ \A i \in DOMAIN Tail(effects) :
            i + 1 \in DOMAIN effects /\ Tail(effects)[i] = effects[i + 1] /\ i + 1 > 1
      /\ \A i \in DOMAIN effects : Len(effects) = 1 => i = 1
    BY Applied DEF Applying
<1>2. Head(effects).kind = "RefreshRepoSummaries" BY DEF Applying
<1>3. Head(effects).pending \cap Head(effects).running = {}
    BY <1>1, <1>2 DEF JobInv, PoolsApart
<1> DEFINE q == Pool(p, n)
<1>4. q.kind = "RefreshRepoSummaries" /\ q.pending = p /\ q.running = n BY DEF Pool
<1>5. effects' = <<q>> \o Tail(effects) BY DEF PoolBecomes
<1> HIDE DEF q
<1>6. /\ effects' # <<>> /\ Head(effects') = q
      /\ \A i \in DOMAIN effects' :
            \/ i = 1 /\ effects'[i] = q
            \/ i > 1 /\ i \in DOMAIN effects /\ effects'[i] = effects[i]
  <2>1. \A i \in DOMAIN effects' :
            \/ i = 1 /\ effects'[i] = q
            \/ i > 1 /\ i - 1 \in DOMAIN Tail(effects) /\ effects'[i] = Tail(effects)[i - 1]
               /\ (i - 1) + 1 = i
      BY <1>1, <1>5
  <2>2. effects' # <<>> /\ Head(effects') = q BY <1>1, <1>5
  <2> QED BY <1>1, <2>1, <2>2
<1>7. \A i \in DOMAIN effects : effects[i].kind # "RunGitCommand"
    BY <1>1, <1>2 DEF JobInv, OneCommand
<1>8. \A i \in DOMAIN effects' : effects'[i].kind # "RunGitCommand"
    BY <1>4, <1>6, <1>7
<1>9. PoolsApart'
  <2>1. p \cap n = {} BY <1>3
  <2> QED BY <1>4, <1>6, <2>1 DEF JobInv, PoolsApart
<1>10. queue \in Seq(Event) /\ followUps \in Seq(Event) /\ Line \in Seq(Event)
    BY <1>1, LineTypes
<1>11. Line' = Append(Line, e) BY <1>1, FollowUpLine DEF FollowUp
<1>12. /\ \A i \in DOMAIN Line : i \in DOMAIN Append(Line, e) /\ Append(Line, e)[i] = Line[i]
       /\ \A i \in DOMAIN Append(Line, e) :
            \/ i \in DOMAIN Line /\ Append(Line, e)[i] = Line[i]
            \/ Append(Line, e)[i] = e
    BY <1>10, AppendParts
<1>13. \A j \in Worked : /\ Working(j) <=> j[1] = "summary-refresh" /\ j[2] \in Head(effects).running
                         /\ Working(j)' <=> j[1] = "summary-refresh" /\ j[2] \in n
    BY <1>1, <1>2, <1>4, <1>6 DEF Working
<1>14. \A j \in Worked : Working(j) \in BOOLEAN /\ Working(j)' \in BOOLEAN
    BY DEF Working
<1>15. ASSUME NEW j \in Worked PROVE Passes(e, j, Working(j), Working(j)')
  <2> DEFINE mine == j[1] = "summary-refresh" /\ j[2] = r
  <2>1. j = <<"summary-refresh", r>> <=> mine BY JobParts
  <2>2. CASE ~mine
    <3>1. ~Opens(e, j) /\ ~Closes(e, j) BY <2>1, <2>2, JobNews
    <3>2. Working(j)' <=> Working(j) BY <1>13, <2>2
    <3>3. Working(j)' = Working(j) BY <1>14, <3>2
    <3> QED BY <3>1, <3>3 DEF Passes
  <2>3. CASE mine /\ e.kind = "RepoSummaryRefreshStarted"
    <3>1. Opens(e, j) BY <2>1, <2>3, JobNews
    <3>2. ~Working(j) /\ Working(j)' BY <1>3, <1>13, <2>3
    <3> QED BY <3>1, <3>2 DEF Passes
  <2>4. CASE mine /\ e.kind \in {"RepoSummaryUpdated", "RepoSummaryRefreshFailed"}
    <3>1. Closes(e, j) BY <2>1, <2>4, JobNews
    <3>2. Working(j) /\ ~Working(j)' BY <1>13, <2>4
    <3> QED BY <3>1, <3>2 DEF Passes
  <2> QED BY <2>2, <2>3, <2>4
<1>16. JobsInTurn'
  <2>1. ASSUME NEW j \in Worked PROVE InTurn(Line', j, jobs'[j] = "Running", Working(j)')
    <3>1. InTurn(Line, j, jobs[j] = "Running", Working(j)) BY DEF JobInv, JobsInTurn
    <3>2. PICK b \in BOOLEAN : b = Working(j) BY <1>14
    <3>3. PICK c \in BOOLEAN : c = Working(j)' BY <1>14
    <3>4. InTurn(Line, j, jobs[j] = "Running", b) /\ Passes(e, j, b, c)
        BY <1>15, <3>1, <3>2, <3>3
    <3>5. PICK a \in BOOLEAN : a = (jobs[j] = "Running") OBVIOUS
    <3>6. InTurn(Append(Line, e), j, a, c)
      <4>1. InTurn(Line, j, a, b) BY <3>4, <3>5
      <4> QED BY <1>10, <3>4, <4>1, TurnAppend
    <3> QED BY <1>11, <3>3, <3>5, <3>6
  <2> QED BY <2>1 DEF JobsInTurn
<1>17. QueuedForReason'
  <2>1. ASSUME NEW j \in Worked, jobs[j] = "Queued"
        PROVE  j[1] = "git" /\ \E i \in DOMAIN Line' : Opens(Line'[i], j)
    <3>1. j[1] = "git" /\ \E i \in DOMAIN Line : Opens(Line[i], j)
        BY <1>7, <2>1 DEF JobInv, QueuedForReason, RunsGit
    <3> QED BY <1>11, <1>12, <3>1
  <2> QED BY <2>1 DEF QueuedForReason
<1>18. NoGitInput(followUps') /\ NoGitInput(backendQ')
  <2>1. ~GitInput(e) BY DEF GitInput
  <2>2. NoGitInput(followUps) /\ NoGitInput(backendQ) BY DEF JobInv, OneCommand
  <2>3. NoGitInput(Append(followUps, e)) BY <1>10, <2>1, <2>2, AppendParts DEF NoGitInput
  <2> QED BY <2>2, <2>3 DEF FollowUp, NoGitInput
<1>19. GitQuiet => GitQuiet'
  <2>1. \A k \in Repos : ~Opens(e, <<"git", k>>) /\ ~Closes(e, <<"git", k>>)
    <3>1. ASSUME NEW k \in Repos PROVE ~Opens(e, <<"git", k>>) /\ ~Closes(e, <<"git", k>>)
      <4>1. <<"git", k>> \in Worked /\ <<"git", k>> # <<"summary-refresh", r>> BY JobParts
      <4> QED BY <4>1, JobNews
    <3> QED BY <3>1
  <2> QED BY <1>8, <1>11, <1>12, <2>1 DEF GitQuiet
<1>20. OneCommand' BY <1>8, <1>18, <1>19 DEF JobInv, OneCommand
<1>21. LineKept' /\ BackendQuiet' BY DEF JobInv, LineKept, BackendQuiet
<1> QED BY <1>9, <1>16, <1>17, <1>20, <1>21, DetachesKept DEF JobInv

\* A command runs: the start of its job and the outcome, behind one another.
LEMMA CommandStep ==
    ASSUME JobInv, DebounceInv', RunGitCommand
    PROVE  JobInv'
<1> DEFINE f == Head(effects)
           r == f.repo
           j0 == <<"git", r>>
<1>1. /\ TypeOK /\ BackendQuiet /\ f = effects[1] /\ 1 \in DOMAIN effects /\ f \in Effect
      /\ Tail(effects) \in Seq(Effect)
    BY Applied DEF RunGitCommand, Applying
<1>2. /\ phase = "effects" /\ effects # <<>> /\ f.kind = "RunGitCommand"
      /\ effects' = Tail(effects) /\ UNCHANGED <<phase, queue, jobs>>
    BY DEF RunGitCommand, Applying, EffectDone, stateVars
<1>3. r \in Repos BY <1>1, <1>2, EffectFields
<1>4. /\ Len(effects) = 1 /\ jobs[j0] # "Running" /\ NoGitInput(queue)
      /\ \A k \in DOMAIN Line : ~Opens(Line[k], j0) /\ ~Closes(Line[k], j0)
    BY <1>1, <1>2 DEF JobInv, OneCommand
<1>5. effects' = <<>>
    BY <1>1, <1>2, <1>4 DEF TypeOK
<1>6. PICK k \in {"GitOperationCompleted", "GitOperationFailed"} :
        followUps' = followUps \o GitEvents(r, k)
    BY DEF RunGitCommand
<1> DEFINE a == About("GitOperationStarted", r)
           b == About(k, r)
<1>7. /\ a \in Event /\ a.kind = "GitOperationStarted" /\ a.repo = r
      /\ b \in Event /\ b.kind = k /\ b.repo = r
  <2>1. "GitOperationStarted" \in RepoEvents /\ k \in RepoEvents BY DEF RepoEvents
  <2>2. a.repo = r /\ b.repo = r BY DEF About
  <2> QED BY <1>3, <2>1, <2>2, EventForms
<1>8. /\ queue \in Seq(Event) /\ followUps \in Seq(Event) /\ Line \in Seq(Event)
      /\ jobs \in [Jobs -> JobStates]
    BY <1>1, LineTypes
<1>9. GitEvents(r, k) = <<a, b>> BY DEF GitEvents
<1> HIDE DEF a, b
<1> HIDE DEF r
<1>10. /\ followUps' = Append(Append(followUps, a), b)
       /\ Append(followUps, a) \in Seq(Event)
  <2>1. followUps' = followUps \o <<a, b>> BY <1>6, <1>9, Zenon
  <2>2. a \in Event /\ b \in Event /\ followUps \in Seq(Event) BY <1>7, <1>8
  <2>3. followUps \o <<a, b>> = Append(Append(followUps, a), b) BY <2>2, AppendTwo, Zenon
  <2>4. Append(followUps, a) \in Seq(Event) BY <2>2
  <2> QED BY <2>1, <2>3, <2>4, Zenon
<1>11. Line' = Append(Append(Line, a), b)
  <2>1. queue \o Append(Append(followUps, a), b) = Append(Append(queue \o followUps, a), b)
    <3>1. queue \o Append(Append(followUps, a), b) = Append(queue \o Append(followUps, a), b)
        BY <1>7, <1>8, <1>10, JoinAppended, Zenon
    <3>2. queue \o Append(followUps, a) = Append(queue \o followUps, a)
        BY <1>7, <1>8, JoinAppended, Zenon
    <3> QED BY <3>1, <3>2, Zenon
  <2> QED BY <1>2, <1>10, <2>1 DEF Line
<1>12. Append(Line, a) \in Seq(Event) BY <1>7, <1>8
<1>13. /\ \A i \in DOMAIN Line : i \in DOMAIN Line' /\ Line'[i] = Line[i]
       /\ Len(Line) + 1 \in DOMAIN Line' /\ Line'[Len(Line) + 1] = a
    BY <1>7, <1>8, <1>11, <1>12
<1>14. \A j \in Worked : ~Working(j) /\ ~Working(j)'
    BY <1>2, <1>5 DEF Working
<1>15. j0 \in Worked BY <1>3, JobParts
<1>16. ASSUME NEW j \in Worked PROVE InTurn(Line', j, jobs'[j] = "Running", Working(j)')
  <2>1. Working(j) = FALSE /\ Working(j)' = FALSE BY <1>14 DEF Working
  <2>2. InTurn(Line, j, jobs[j] = "Running", Working(j)) BY DEF JobInv, JobsInTurn
  <2>3. InTurn(Line, j, jobs[j] = "Running", FALSE) BY <2>1, <2>2
  <2>4. \E c \in BOOLEAN : Passes(a, j, FALSE, c) /\ Passes(b, j, c, FALSE)
    <3>1. CASE j = j0
      <4>1. Opens(a, j) BY <1>3, <1>7, <3>1, JobNews
      <4>2. Closes(b, j) BY <1>3, <1>7, <3>1, JobNews
      <4> QED BY <4>1, <4>2 DEF Passes
    <3>2. CASE j # j0
      <4>1. ~Opens(a, j) /\ ~Closes(a, j) BY <1>3, <1>7, <3>2, JobNews
      <4>2. ~Opens(b, j) /\ ~Closes(b, j) BY <1>3, <1>7, <3>2, JobNews
      <4> QED BY <4>1, <4>2 DEF Passes
    <3> QED BY <3>1, <3>2
  <2>5. PICK c \in BOOLEAN : Passes(a, j, FALSE, c) /\ Passes(b, j, c, FALSE) BY <2>4
  <2>6. InTurn(Append(Line, a), j, jobs[j] = "Running", c)
      BY <1>7, <1>8, <2>3, <2>5, TurnAppend
  <2>7. InTurn(Append(Append(Line, a), b), j, jobs[j] = "Running", FALSE)
      BY <1>7, <1>12, <2>5, <2>6, TurnAppend
  <2> QED BY <1>2, <1>11, <2>1, <2>7
<1>17. QueuedForReason'
  <2>1. ASSUME NEW j \in Worked, jobs[j] = "Queued"
        PROVE  j[1] = "git" /\ \E i \in DOMAIN Line' : Opens(Line'[i], j)
    <3>1. /\ j[1] = "git"
          /\ \/ \E i \in DOMAIN effects : RunsGit(effects[i], j[2])
             \/ \E i \in DOMAIN Line : Opens(Line[i], j)
        BY <2>1 DEF JobInv, QueuedForReason
    <3>2. CASE \E i \in DOMAIN Line : Opens(Line[i], j) BY <1>13, <3>1, <3>2
    <3>3. CASE \E i \in DOMAIN effects : RunsGit(effects[i], j[2])
      <4>1. PICK i \in DOMAIN effects : RunsGit(effects[i], j[2]) BY <3>3
      <4>2. i = 1 BY <1>4, <4>1, Applied, <1>2
      <4>3. j[2] = r BY <1>1, <4>1, <4>2 DEF RunsGit, r
      <4>4. Opens(a, j)
        <5>1. j = j0 BY <3>1, <4>3, JobParts
        <5> QED BY <1>3, <1>7, <5>1, JobNews
      <4> QED BY <1>13, <3>1, <4>4
    <3> QED BY <3>1, <3>2, <3>3
  <2> QED BY <1>2, <2>1 DEF QueuedForReason
<1>18. BackendQuiet'
  <2>1. CASE UNCHANGED <<disk, env, backendQ>> BY <1>1, <2>1 DEF BackendQuiet
  <2>2. CASE Notify(r) BY <1>1, <1>3, <2>2, NotifyQuiet
  <2> QED BY <2>1, <2>2 DEF RunGitCommand, r
<1>19. NoGitInput(followUps')
  <2>1. NoGitInput(followUps) BY DEF JobInv, OneCommand
  <2>2. ~GitInput(a) /\ ~GitInput(b) BY <1>7 DEF GitInput
  <2>3. NoGitInput(Append(followUps, a)) BY <1>7, <1>8, <2>1, <2>2, AppendParts DEF NoGitInput
  <2>4. NoGitInput(Append(Append(followUps, a), b))
      BY <1>7, <1>10, <2>2, <2>3, AppendParts DEF NoGitInput
  <2> QED BY <1>10, <2>4
<1>20. NoGitInput(backendQ') BY <1>18 DEF BackendQuiet, NoGitInput, GitInput
<1>21. OneCommand' BY <1>2, <1>4, <1>5, <1>19, <1>20 DEF OneCommand, NoGitInput
<1>22. JobsInTurn' BY <1>16 DEF JobsInTurn
<1>23. PoolsApart' /\ LineKept' BY <1>2, <1>5 DEF PoolsApart, LineKept
<1> QED BY <1>2, <1>17, <1>18, <1>21, <1>22, <1>23, DetachesKept DEF JobInv

LEMMA ApplyEffectKeepsJobs == JobInv /\ ApplyEffect => JobInv'
<1> SUFFICES ASSUME JobInv, ApplyEffect PROVE JobInv'
    OBVIOUS
<1>1. DebounceInv' BY ApplyEffectKeepsDebounce DEF JobInv
<1>2. TypeOK /\ BackendQuiet BY DEF JobInv, DebounceInv
<1>3. \A k \in {"WatcherDegraded", "WatcherRecovered", "RepoScanFailed"} :
        Plain(k) \in Event /\ Calm(Plain(k)) /\ ~GitInput(Plain(k))
  <2>1. \A k \in {"WatcherDegraded", "WatcherRecovered", "RepoScanFailed"} :
          Plain(k) \in Event /\ Plain(k).kind = k
      BY EventForms DEF PlainEvents
  <2> QED BY <2>1, CalmKinds DEF GitInput
<1>4. effects # <<>> => Head(effects) \in Effect BY <1>2 DEF TypeOK
<1> USE DEF backendVars, stateVars
<1>5. CASE StartRepoScan
  <2> DEFINE e == [kind |-> "RepoScanCompleted", repos |-> present]
  <2>1. e \in Event /\ e.kind = "RepoScanCompleted"
      BY <1>2, EventForms DEF TypeOK
  <2>2. Calm(e) /\ ~GitInput(e) BY <2>1, CalmKinds DEF GitInput
  <2>3. \E x \in Event : followUps' = Append(followUps, x) /\ Calm(x) /\ ~GitInput(x)
      BY <1>3, <1>5, <2>1, <2>2 DEF StartRepoScan, FollowUp
  <2>4. BackendQuiet' BY <1>2, <1>5 DEF StartRepoScan, BackendQuiet
  <2> QED BY <1>1, <1>5, <2>3, <2>4, CalmEffect DEF StartRepoScan, Applying
<1>6. CASE ConfigureWatcher
  <2>1. \E x \in Event : followUps' = Append(followUps, x) /\ Calm(x) /\ ~GitInput(x)
      BY <1>3, <1>6 DEF ConfigureWatcher, FollowUp
  <2>2. BackendQuiet' BY <1>2, <1>6 DEF ConfigureWatcher, BackendQuiet
  <2> QED BY <1>1, <1>6, <2>1, <2>2, CalmEffect DEF ConfigureWatcher, Applying
<1>7. CASE ScheduleWatcherDebounce
  <2>1. BackendQuiet' BY <1>2, <1>7 DEF ScheduleWatcherDebounce, BackendQuiet
  <2> QED BY <1>1, <1>7, <2>1, CalmEffect DEF ScheduleWatcherDebounce, Applying
<1>8. CASE SpawnSummaryWorker
  <2>1. PICK r \in Head(effects).pending :
          /\ PoolBecomes(Head(effects).pending \ {r}, Head(effects).running \cup {r})
          /\ FollowUp(About("RepoSummaryRefreshStarted", r))
      BY <1>8 DEF SpawnSummaryWorker
  <2>2. r \in Repos BY <1>4, <1>8, <2>1, EffectFields DEF SpawnSummaryWorker, Applying
  <2>3. /\ About("RepoSummaryRefreshStarted", r) \in Event
        /\ About("RepoSummaryRefreshStarted", r).kind = "RepoSummaryRefreshStarted"
        /\ About("RepoSummaryRefreshStarted", r).repo = r
      BY <2>2, EventForms DEF RepoEvents, About
  <2>4. /\ phase = "effects" /\ Applying("RefreshRepoSummaries")
        /\ UNCHANGED <<phase, queue, jobs, backendQ>>
      BY <1>8 DEF SpawnSummaryWorker, Applying
  <2> QED BY <1>1, <2>1, <2>2, <2>3, <2>4, WorkerStep
<1>9. CASE ReceiveSummary
  <2>1. PICK r \in Head(effects).running :
          /\ PoolBecomes(Head(effects).pending, Head(effects).running \ {r})
          /\ \/ FollowUp([kind |-> "RepoSummaryUpdated", repo |-> r, ver |-> disk[r]])
             \/ FollowUp(About("RepoSummaryRefreshFailed", r))
      BY <1>9 DEF ReceiveSummary
  <2>2. r \in Repos BY <1>4, <1>9, <2>1, EffectFields DEF ReceiveSummary, Applying
  <2>3. disk[r] \in Nat BY <1>2, <2>2 DEF TypeOK
  <2> DEFINE u == [kind |-> "RepoSummaryUpdated", repo |-> r, ver |-> disk[r]]
             x == About("RepoSummaryRefreshFailed", r)
  <2>4. /\ u \in Event /\ u.kind = "RepoSummaryUpdated" /\ u.repo = r
        /\ x \in Event /\ x.kind = "RepoSummaryRefreshFailed" /\ x.repo = r
      BY <2>2, <2>3, EventForms DEF RepoEvents, ReadEvents, About
  <2>5. /\ phase = "effects" /\ Applying("RefreshRepoSummaries")
        /\ UNCHANGED <<phase, queue, jobs, backendQ>>
      BY <1>9 DEF ReceiveSummary, Applying
  <2>6. PICK e \in Event : /\ FollowUp(e) /\ e.repo = r
                           /\ e.kind \in {"RepoSummaryUpdated", "RepoSummaryRefreshFailed"}
      BY <2>1, <2>4
  <2> HIDE DEF u, x
  <2> QED BY <1>1, <2>1, <2>2, <2>5, <2>6, WorkerStep
<1>10. CASE RefreshDone
  <2>1. BackendQuiet' BY <1>2, <1>10 DEF RefreshDone, BackendQuiet
  <2> QED BY <1>1, <1>10, <2>1, CalmEffect DEF RefreshDone, Applying
<1>11. CASE LoadRepoDetail
  <2> DEFINE r == Head(effects).repo
             e == [kind |-> "RepoDetailLoaded", repo |-> r, ver |-> disk[r]]
  <2>1. r \in Repos BY <1>4, <1>11, EffectFields DEF LoadRepoDetail, Applying
  <2>2. e \in Event /\ e.kind = "RepoDetailLoaded"
      BY <1>2, <2>1, EventForms DEF ReadEvents, TypeOK
  <2>3. Calm(e) /\ ~GitInput(e) BY <2>2, CalmKinds DEF GitInput
  <2>4. \/ UNCHANGED followUps
        \/ \E y \in Event : followUps' = Append(followUps, y) /\ Calm(y) /\ ~GitInput(y)
      BY <1>11, <2>2, <2>3 DEF LoadRepoDetail, FollowUp
  <2>5. BackendQuiet' BY <1>2, <1>11 DEF LoadRepoDetail, BackendQuiet
  <2> HIDE DEF r, e
  <2> QED BY <1>1, <1>11, <2>4, <2>5, CalmEffect DEF LoadRepoDetail, Applying
<1>12. CASE RunGitCommand BY <1>1, <1>12, CommandStep
<1>13. CASE PersistCacheStep
  <2>1. BackendQuiet' BY <1>2, <1>13 DEF PersistCacheStep, BackendQuiet
  <2> QED BY <1>1, <1>13, <2>1, CalmEffect DEF PersistCacheStep, Applying
<1> QED BY <1>5, <1>6, <1>7, <1>8, <1>9, <1>10, <1>11, <1>12, <1>13 DEF ApplyEffect

LEMMA EndJoined ==
    ASSUME NEW S, NEW s \in Seq(S), NEW z \in S
    PROVE  s \o <<z>> = Append(s, z) /\ s \o <<>> = s
    OBVIOUS

LEMMA ShortJoins ==
    ASSUME NEW x \in Event, NEW y \in Event, NEW z \in Event
    PROVE  /\ <<x>> \o <<>> = <<x>> /\ <<>> \o <<x>> = <<x>>
           /\ <<x>> \o <<y>> = <<x, y>> /\ <<x, y>> \o <<>> = <<x, y>>
           /\ <<x, y>> \o <<z>> = <<x, y, z>>
<1>1. <<x>> \in Seq(Event) /\ <<x, y>> \in Seq(Event) OBVIOUS
<1>2. <<x>> \o <<>> = <<x>> /\ <<>> \o <<x>> = <<x>> /\ <<x, y>> \o <<>> = <<x, y>>
    BY <1>1, LineIsQueue, Zenon
<1>3. <<x>> \o <<y>> = Append(<<x>>, y) BY <1>1, EndJoined, Zenon
<1>4. <<x, y>> \o <<z>> = Append(<<x, y>>, z) BY <1>1, EndJoined, Zenon
<1>5. <<x, y>> = Append(<<x>>, y) /\ <<x>> \in Seq(Event) OBVIOUS
<1>6. <<x, y, z>> = Append(<<x, y>>, z) /\ <<x, y>> \in Seq(Event) OBVIOUS
<1> QED BY <1>2, <1>3, <1>4, <1>5, <1>6, Zenon

LEMMA ProcessKeepsJobs ==
    JobInv /\ (Boot \/ UserInput \/ (\E refresh \in BOOLEAN : Tick(refresh)) \/ Stop)
        => JobInv'
<1> SUFFICES ASSUME JobInv,
                    Boot \/ UserInput \/ (\E refresh \in BOOLEAN : Tick(refresh)) \/ Stop
             PROVE  JobInv'
    OBVIOUS
<1>1. DebounceInv /\ DebounceInv' /\ TypeOK
    BY ProcessKeepsDebounce DEF JobInv, DebounceInv
<1>2. /\ queue \in Seq(Event) /\ followUps \in Seq(Event) /\ backendQ \in Seq(Event)
      /\ jobs \in [Jobs -> JobStates]
    BY <1>1, LineTypes
\* Outside of run() nothing is under way.
<1>3. ASSUME phase \in {"down", "idle"}
      PROVE  /\ effects = <<>> /\ Line = <<>> /\ followUps = <<>>
             /\ \A j \in Worked : jobs[j] \notin {"Queued", "Running"}
  <2>1. queue = <<>> BY <1>1, <1>3 DEF DebounceInv, FlushDiscipline
  <2>2. effects = <<>> BY <1>1, <1>3 DEF DebounceInv, FlushDiscipline
  <2>3. followUps = <<>> BY <1>3 DEF JobInv, LineKept
  <2>4. Line = <<>> BY <2>1, <2>3, <1>2, LineIsQueue DEF Line
  <2>5. ASSUME NEW j \in Worked PROVE jobs[j] \notin {"Queued", "Running"}
    <3>1. InTurn(Line, j, jobs[j] = "Running", Working(j)) BY DEF JobInv, JobsInTurn
    <3>2. Working(j) = FALSE BY <2>2 DEF Working
    <3>3. PICK a \in BOOLEAN : a = (jobs[j] = "Running") OBVIOUS
    <3>4. InTurn(<<>>, j, a, FALSE) BY <2>4, <3>1, <3>2, <3>3
    <3>5. a = FALSE BY <3>4, TurnEmpty
    <3>6. jobs[j] # "Queued" BY <2>2, <2>4 DEF JobInv, QueuedForReason
    <3> QED BY <3>3, <3>5, <3>6
  <2> QED BY <2>2, <2>3, <2>4, <2>5
\* A call of run() starts with events that start or end no job.
<1>4. ASSUME phase \in {"down", "idle"}, NEW t \in Seq(Event), queue' = t, CalmAll(t),
             UNCHANGED <<effects, followUps, jobs>>, NoGitInput(backendQ'), BackendQuiet',
             \A i, k \in DOMAIN t : GitInput(t[i]) /\ GitInput(t[k]) => i = k
      PROVE  JobInv'
  <2>1. /\ effects = <<>> /\ effects' = <<>> /\ Line = <<>> /\ followUps' = <<>>
        /\ \A j \in Worked : jobs'[j] = jobs[j] /\ jobs[j] \notin {"Queued", "Running"}
      BY <1>3, <1>4
  <2>2. Line' = t BY <1>4, <2>1, LineIsQueue DEF Line
  <2>3. JobsInTurn'
    <3>1. ASSUME NEW j \in Worked PROVE InTurn(Line', j, jobs'[j] = "Running", Working(j)')
      <4>1. Working(j)' = FALSE BY <2>1 DEF Working
      <4>2. (jobs'[j] = "Running") = FALSE BY <2>1
      <4>3. InTurn(<<>>, j, FALSE, FALSE) BY TurnEmpty
      <4>4. \A i \in DOMAIN t : ~Opens(t[i], j) /\ ~Closes(t[i], j)
          BY <1>4 DEF CalmAll, Calm
      <4>5. <<>> \in Seq(Event) /\ <<>> \o t = t BY <1>4
      <4>6. InTurn(<<>> \o t, j, FALSE, FALSE) BY <4>3, <4>4, <4>5, TurnQuiet
      <4>7. InTurn(t, j, FALSE, FALSE) BY <4>5, <4>6
      <4> QED BY <2>2, <4>1, <4>2, <4>7
    <3> QED BY <3>1 DEF JobsInTurn
  <2>4. QueuedForReason' BY <2>1 DEF QueuedForReason
  <2>5. GitQuiet'
    <3>1. \A r \in Repos : <<"git", r>> \in Worked BY GitJobs
    <3>2. \A r \in Repos : jobs'[<<"git", r>>] \notin {"Queued", "Running"} BY <2>1, <3>1
    <3>3. \A i \in DOMAIN t, r \in Repos :
            ~Opens(t[i], <<"git", r>>) /\ ~Closes(t[i], <<"git", r>>)
        BY <1>4, <3>1 DEF CalmAll, Calm
    <3> QED BY <2>1, <2>2, <3>2, <3>3 DEF GitQuiet
  <2>6. OneCommand' BY <1>4, <2>1, <2>5 DEF OneCommand, NoGitInput
  <2>7. PoolsApart' /\ LineKept' BY <2>1 DEF PoolsApart, LineKept
  <2> QED BY <1>1, <1>4, <2>3, <2>4, <2>6, <2>7, DetachesKept DEF JobInv
<1>5. BackendQuiet /\ CalmAll(backendQ) /\ NoGitInput(backendQ)
    BY CalmBackend DEF JobInv, OneCommand
<1>6. \A k \in {"RefreshVisibleRepos", "PeriodicRefreshTick", "PeriodicFetchTick",
                "ToastExpiryTick"} :
        Plain(k) \in Event /\ Plain(k).kind = k /\ Calm(Plain(k))
  <2>1. \A k \in {"RefreshVisibleRepos", "PeriodicRefreshTick", "PeriodicFetchTick",
                  "ToastExpiryTick"} :
          Plain(k) \in Event /\ Plain(k).kind = k
      BY EventForms DEF PlainEvents
  <2> QED BY <2>1, CalmKinds
<1>7. CASE Boot
  <2> DEFINE e == Plain("RefreshVisibleRepos")
  <2>1. e \in Event /\ Calm(e) /\ ~GitInput(e) BY <1>6 DEF GitInput
  <2>2. /\ phase = "down" /\ queue' = <<e>>
        /\ UNCHANGED <<effects, followUps, jobs, backendQ>>
      BY <1>7 DEF Boot, backendVars
  <2> HIDE DEF e
  <2>3. /\ <<e>> \in Seq(Event) /\ CalmAll(<<e>>)
        /\ \A i, k \in DOMAIN <<e>> : GitInput(<<e>>[i]) /\ GitInput(<<e>>[k]) => i = k
      BY <2>1 DEF CalmAll
  <2>4. BackendQuiet' /\ NoGitInput(backendQ') BY <1>5, <2>2 DEF BackendQuiet, NoGitInput
  <2> QED BY <1>4, <2>2, <2>3, <2>4
<1>8. ASSUME NEW seed \in Seq(Event), CalmAll(seed), Run(seed),
             \A i, k \in DOMAIN seed : GitInput(seed[i]) /\ GitInput(seed[k]) => i = k
      PROVE  JobInv'
  <2>1. /\ phase = "idle" /\ queue' = seed \o backendQ /\ backendQ' = <<>>
        /\ UNCHANGED <<effects, followUps, jobs>>
      BY <1>8 DEF Run, stateVars
  <2>2. /\ seed \o backendQ \in Seq(Event)
        /\ \A i \in DOMAIN (seed \o backendQ) :
            \/ i \in DOMAIN seed /\ (seed \o backendQ)[i] = seed[i]
            \/ \E k \in DOMAIN backendQ : (seed \o backendQ)[i] = backendQ[k]
      BY <1>2, JoinedParts
  <2>3. CalmAll(seed \o backendQ) BY <1>5, <1>8, <2>2 DEF CalmAll
  <2>4. \A i, k \in DOMAIN (seed \o backendQ) :
          GitInput((seed \o backendQ)[i]) /\ GitInput((seed \o backendQ)[k]) => i = k
      BY <1>5, <1>8, <2>2 DEF NoGitInput
  <2>5. BackendQuiet' /\ NoGitInput(backendQ') BY <2>1 DEF BackendQuiet, NoGitInput
  <2> QED BY <1>4, <2>1, <2>2, <2>3, <2>4, <2>5
<1>9. CASE UserInput
  <2>1. PICK e \in UserActions : Run(<<e>>) BY <1>9 DEF UserInput
  <2>2. <<e>> \in Seq(Event) BY <1>1, <2>1, SeedTypes
  <2>3. e.kind \in {"RefreshVisibleRepos", "RefreshSelectedRepo", "RefreshSelectedRepoDeep",
                    "EnterRepoMode", "LeaveRepoMode", "GitAction",
                    "DetachSelectedWorktree"}
      BY <2>1 DEF UserActions, Plain
  <2>4. Calm(e) BY <2>3, CalmKinds
  <2>5. /\ CalmAll(<<e>>)
        /\ \A i, k \in DOMAIN <<e>> : GitInput(<<e>>[i]) /\ GitInput(<<e>>[k]) => i = k
      BY <2>4 DEF CalmAll
  <2> QED BY <1>8, <2>1, <2>2, <2>5
<1>10. ASSUME NEW refresh \in BOOLEAN, Tick(refresh) PROVE JobInv'
  <2>1. PICK fetch, toast \in BOOLEAN : Run(DueTimers(refresh, fetch, toast))
      BY <1>10 DEF Tick
  <2> DEFINE a == Plain("PeriodicRefreshTick")
             b == Plain("PeriodicFetchTick")
             c == Plain("ToastExpiryTick")
             s == DueTimers(refresh, fetch, toast)
  <2>2. /\ Calm(a) /\ Calm(b) /\ Calm(c)
        /\ a \in Event /\ b \in Event /\ c \in Event
        /\ ~GitInput(a) /\ ~GitInput(c)
      BY <1>6 DEF GitInput
  <2>3. s = (IF refresh THEN <<a>> ELSE <<>>) \o (IF fetch THEN <<b>> ELSE <<>>)
              \o (IF toast THEN <<c>> ELSE <<>>)
      BY DEF DueTimers
  <2> HIDE DEF a, b, c
  <2>4. CalmAll(s) /\ \A i, k \in DOMAIN s : GitInput(s[i]) /\ GitInput(s[k]) => i = k
    <3> HIDE DEF s
    <3>1. CASE ~refresh /\ ~fetch /\ ~toast
      <4>1. s = <<>> BY <2>3, <3>1
      <4> QED BY <4>1 DEF CalmAll
    <3>2. CASE ~refresh /\ ~fetch /\ toast
      <4>1. s = <<c>> BY <2>3, <3>2
      <4> QED BY <2>2, <4>1 DEF CalmAll
    <3>3. CASE ~refresh /\ fetch /\ ~toast
      <4>1. s = <<b>> BY <2>3, <3>3
      <4> QED BY <2>2, <4>1 DEF CalmAll
    <3>4. CASE ~refresh /\ fetch /\ toast
      <4>1. s = <<b, c>> BY <2>2, <2>3, <3>4, ShortJoins, Zenon
      <4> QED BY <2>2, <4>1 DEF CalmAll
    <3>5. CASE refresh /\ ~fetch /\ ~toast
      <4>1. s = <<a>> BY <2>3, <3>5
      <4> QED BY <2>2, <4>1 DEF CalmAll
    <3>6. CASE refresh /\ ~fetch /\ toast
      <4>1. s = <<a, c>> BY <2>2, <2>3, <3>6, ShortJoins, Zenon
      <4> QED BY <2>2, <4>1 DEF CalmAll
    <3>7. CASE refresh /\ fetch /\ ~toast
      <4>1. s = <<a, b>> BY <2>2, <2>3, <3>7, ShortJoins, Zenon
      <4> QED BY <2>2, <4>1 DEF CalmAll
    <3>8. CASE refresh /\ fetch /\ toast
      <4>1. s = <<a, b, c>>
        <5>1. s = <<a>> \o <<b>> \o <<c>> BY <2>3, <3>8, Zenon
        <5>2. <<a>> \o <<b>> = <<a, b>> BY <2>2, ShortJoins, Zenon
        <5>3. <<a, b>> \o <<c>> = <<a, b, c>> BY <2>2, ShortJoins, Zenon
        <5> QED BY <5>1, <5>2, <5>3, Zenon
      <4> QED BY <2>2, <4>1 DEF CalmAll
    <3> QED BY <3>1, <3>2, <3>3, <3>4, <3>5, <3>6, <3>7, <3>8
  <2>5. s \in Seq(Event) BY SeedTypes
  <2> HIDE DEF s
  <2>6. Run(s) BY <2>1 DEF s
  <2> QED BY <1>8, <2>4, <2>5, <2>6
<1>11. CASE Stop
  <2>1. /\ queue' = <<>> /\ effects' = <<>> /\ followUps' = <<>> /\ backendQ' = <<>>
        /\ jobs' = [j \in JobKinds \X Repos |-> "none"]
      BY <1>11 DEF Stop
  <2>2. Line' = <<>> BY <2>1 DEF Line
  <2>3. \A j \in Worked : jobs'[j] = "none" BY <2>1, JobSorts DEF Jobs
  <2>8. DetachesWait'
    <3>1. \A j \in Jobs : jobs'[j] = "none" BY <2>1 DEF Jobs
    <3> QED BY <3>1, JobSorts DEF DetachesWait
  <2>4. JobsInTurn'
    <3>1. ASSUME NEW j \in Worked PROVE InTurn(Line', j, jobs'[j] = "Running", Working(j)')
      <4>1. Working(j)' = FALSE BY <2>1 DEF Working
      <4>2. (jobs'[j] = "Running") = FALSE BY <2>3
      <4>3. InTurn(<<>>, j, FALSE, FALSE) BY TurnEmpty
      <4> QED BY <2>2, <4>1, <4>2, <4>3
    <3> QED BY <3>1 DEF JobsInTurn
  <2>5. QueuedForReason' BY <2>3 DEF QueuedForReason
  <2>6. OneCommand' BY <2>1 DEF OneCommand, NoGitInput
  <2>7. PoolsApart' /\ LineKept' /\ BackendQuiet' BY <2>1 DEF PoolsApart, LineKept, BackendQuiet
  <2> QED BY <1>1, <2>4, <2>5, <2>6, <2>7, <2>8 DEF JobInv
<1> QED BY <1>7, <1>9, <1>10, <1>11

LEMMA StepJobs == JobInv /\ [Next]_vars => JobInv'
<1> SUFFICES ASSUME JobInv, [Next]_vars PROVE JobInv'
    OBVIOUS
<1>1. CASE Next
    BY <1>1, EnvironmentKeepsJobs, DispatchKeepsJobs, EndIterationKeepsJobs,
       ApplyEffectKeepsJobs, ProcessKeepsJobs DEF Next, Loop
<1>2. CASE UNCHANGED vars
  <2>1. DebounceInv' BY <1>2, StepDebounce DEF JobInv
  <2>2. BackendQuiet' BY <1>2 DEF vars, backendVars, JobInv, BackendQuiet
  <2>3. UNCHANGED <<loopVars, stateVars>> BY <1>2 DEF vars
  <2> QED BY <2>1, <2>2, <2>3, UnchangedJobs
<1> QED BY <1>1, <1>2

\* Whenever run() returns, no invalidation waits for a flush, no debounce is
\* armed, no background job is running and none is queued but the detaching of
\* a worktree, which nobody begins: the follow-ups of follow-ups have all been
\* handled.
THEOREM SettledHolds == Spec => []SettledWhenIdle
<1>1. JobInv => SettledWhenIdle
  <2> SUFFICES ASSUME JobInv, phase = "idle"
               PROVE  /\ ws.invalidations = {} /\ ~ws.debouncePending /\ ~debounceScheduled
                      /\ \A j \in DOMAIN jobs :
                            /\ jobs[j] # "Running"
                            /\ jobs[j] = "Queued" => j[1] = "detach-worktree"
      BY DEF SettledWhenIdle
  <2>1. /\ queue = <<>> /\ effects = <<>> /\ ~debounceScheduled
        /\ queue \in Seq(Event) /\ jobs \in [Jobs -> JobStates]
      BY LineTypes DEF JobInv, DebounceInv, FlushDiscipline
  <2>2. ~ScheduleAsked /\ ~FlushQueued BY <2>1 DEF ScheduleAsked, FlushQueued
  <2>3. ws.invalidations = {} /\ ~ws.debouncePending
      BY <2>1, <2>2 DEF JobInv, DebounceInv, DebounceCoupled
  <2>4. Line = <<>>
    <3>1. followUps = <<>> BY DEF JobInv, LineKept
    <3> QED BY <2>1, <3>1 DEF Line
  <2>5. ASSUME NEW j \in Worked PROVE jobs[j] \notin {"Queued", "Running"}
    <3>1. InTurn(Line, j, jobs[j] = "Running", Working(j)) BY DEF JobInv, JobsInTurn
    <3>2. Working(j) = FALSE BY <2>1 DEF Working
    <3>3. PICK a \in BOOLEAN : a = (jobs[j] = "Running") OBVIOUS
    <3>4. InTurn(<<>>, j, a, FALSE) BY <2>4, <3>1, <3>2, <3>3
    <3>5. a = FALSE BY <3>4, TurnEmpty
    <3>6. jobs[j] # "Queued" BY <2>1, <2>4 DEF JobInv, QueuedForReason
    <3> QED BY <3>3, <3>5, <3>6
  <2>6. ASSUME NEW j \in Jobs \ Worked
        PROVE  jobs[j] # "Running" /\ j[1] = "detach-worktree"
    <3>1. PICK r \in Repos : j = Detaching(r) BY JobSorts
    <3>2. jobs[Detaching(r)] \in {"none", "Queued"} BY DEF JobInv, DetachesWait
    <3> QED BY <3>1, <3>2 DEF Detaching
  <2>7. DOMAIN jobs = Jobs BY <2>1
  <2> QED BY <2>1, <2>3, <2>5, <2>6, <2>7
<1> QED BY <1>1, InitJobs, StepJobs, PTL DEF Spec

\* Only the reducer touches the job table, until the process ends.
LEMMA OnlyDispatch ==
    ASSUME [Next]_vars, ~Dispatch, phase' # "down"
    PROVE  UNCHANGED <<jobs, active, detail>> /\ (UNCHANGED ws \/ Boot)
<1> USE DEF stateVars
<1>1. CASE Environment
    BY <1>1 DEF Environment, ChangeRepo, RemoveRepo, AddRepo, TouchRepo, BackendFails,
                BackendRecovers
<1>2. CASE EndIteration BY <1>2 DEF EndIteration
<1>3. CASE ApplyEffect
    BY <1>3 DEF ApplyEffect, StartRepoScan, ConfigureWatcher, ScheduleWatcherDebounce,
                SpawnSummaryWorker, ReceiveSummary, RefreshDone, LoadRepoDetail,
                RunGitCommand, PersistCacheStep
<1>4. CASE Boot BY <1>4 DEF Boot
<1>5. ASSUME NEW seed, Run(seed) PROVE UNCHANGED <<ws, jobs, active, detail>>
    BY <1>5 DEF Run
<1>6. CASE UserInput BY <1>5, <1>6 DEF UserInput
<1>7. CASE \E refresh \in BOOLEAN : Tick(refresh) BY <1>5, <1>7 DEF Tick
<1>8. CASE Stop BY <1>8 DEF Stop
<1>9. CASE UNCHANGED vars BY <1>9 DEF vars
<1> QED BY <1>1, <1>2, <1>3, <1>4, <1>6, <1>7, <1>8, <1>9 DEF Next, Loop

\* Every background job of every process starts before it ends and ends
\* before it starts again, whatever the order in which the events about the
\* repositories were collected.
THEOREM JobLifecycleHolds == Spec => JobLifecycle
<1>1. ASSUME JobInv, [Next]_vars
      PROVE  [phase' # "down" =>
                \A j \in DOMAIN jobs :
                    jobs'[j] # jobs[j] =>
                        \/ jobs[j] \in {"none", "Succeeded", "Failed"} /\ jobs'[j] = "Queued"
                        \/ jobs[j] \in {"none", "Queued", "Succeeded", "Failed"}
                           /\ jobs'[j] = "Running"
                        \/ jobs[j] = "Running" /\ jobs'[j] \in {"Succeeded", "Failed"}]_vars
  <2>1. DOMAIN jobs = Jobs
    <3>1. jobs \in [Jobs -> JobStates] BY <1>1 DEF JobInv, DebounceInv, TypeOK, Jobs
    <3> QED BY <3>1
  <2>2. CASE Dispatch BY <1>1, <2>1, <2>2, DispatchKeepsJobs
  <2>3. CASE ~Dispatch BY <1>1, <2>3, OnlyDispatch
  <2> QED BY <2>2, <2>3
<1> QED BY <1>1, InitJobs, StepJobs, PTL DEF Spec, JobLifecycle

-----------------------------------------------------------------------------
(* How the line grows between two dispatches.                              *)

LEMMA Rejoin ==
    ASSUME NEW s \in Seq(Event), NEW t \in Seq(Event), NEW u \in Seq(Event)
    PROVE  s \o (t \o u) = (s \o t) \o u
    OBVIOUS

\* The events that tell what was found on disk.
OutcomeKinds == {"RepoSummaryUpdated", "RepoSummaryRefreshFailed", "RepoDetailLoaded",
                 "RepoScanCompleted"}

\* An event that finds its way into the line behind t's: it was read from the
\* repository as it is, alone; news of the watcher come from the watcher, and
\* only a listed repository is entered.
Fits(e, t) ==
    /\ e.kind \in ReadEvents => e.repo \in present /\ e.ver = disk[e.repo]
    /\ e.kind = "RepoScanCompleted" => e.repos = present
    /\ e.kind \in OutcomeKinds => Len(t) = 1 /\ UNCHANGED <<present, disk>>
    /\ WatchNews(e) => ConfigureWatcher \/ \E k \in DOMAIN backendQ : backendQ[k] = e
    /\ e.kind = "EnterRepoMode" => phase = "idle" /\ e.repo \in ws.discovered

\* What the backend reported waits, or goes into the line.
Delivered(t) ==
    \A k \in DOMAIN backendQ :
        \/ k \in DOMAIN backendQ' /\ backendQ'[k] = backendQ[k]
        \/ \E i \in DOMAIN t : t[i] = backendQ[k]

GrowsBy(t) ==
    /\ t \in Seq(Event) /\ Line' = Line \o t
    /\ \A i \in DOMAIN t : Fits(t[i], t)
    /\ Delivered(t)

PlainNews == {"RefreshVisibleRepos", "RefreshSelectedRepo", "RefreshSelectedRepoDeep",
              "LeaveRepoMode", "GitAction", "DetachSelectedWorktree",
              "PeriodicRefreshTick", "PeriodicFetchTick", "ToastExpiryTick",
              "WatcherDebounceFlush",
              "RepoScanFailed", "RepoSummaryRefreshStarted", "GitOperationStarted",
              "GitOperationCompleted", "GitOperationFailed", "RepoInvalidated"}

LEMMA PlainFits ==
    ASSUME NEW e, NEW t, e.kind \in PlainNews
    PROVE  Fits(e, t)
    BY DEF Fits, PlainNews, OutcomeKinds, WatchNews, ReadEvents

LEMMA BackendFits ==
    ASSUME BackendQuiet, NEW k \in DOMAIN backendQ, NEW t
    PROVE  Fits(backendQ[k], t)
<1>1. backendQ[k].kind \in {"RepoInvalidated", "WatcherDegraded", "WatcherRecovered"}
    BY DEF BackendQuiet
<1> QED BY <1>1 DEF Fits, OutcomeKinds, WatchNews, ReadEvents

SeedNews(e) == e.kind \in PlainNews \/ (e.kind = "EnterRepoMode" /\ e.repo \in ws.discovered)

\* The events a call of run() starts with.
LEMMA SeedsFit ==
    ASSUME TypeOK, UserInput \/ \E refresh \in BOOLEAN : Tick(refresh)
    PROVE  \E seed \in Seq(Event) : Run(seed) /\ \A i \in DOMAIN seed : SeedNews(seed[i])
<1>1. CASE UserInput
  <2>1. PICK e \in UserActions : Run(<<e>>) BY <1>1 DEF UserInput
  <2>2. <<e>> \in Seq(Event) BY <2>1, SeedTypes
  <2>3. SeedNews(e) BY <2>1 DEF UserActions, Plain, PlainNews, SeedNews
  <2>4. \A i \in DOMAIN <<e>> : <<e>>[i] = e OBVIOUS
  <2>5. \A i \in DOMAIN <<e>> : SeedNews(<<e>>[i]) BY <2>3, <2>4
  <2> QED BY <2>1, <2>2, <2>5
<1>2. ASSUME NEW refresh \in BOOLEAN, Tick(refresh)
      PROVE  \E seed \in Seq(Event) :
                Run(seed) /\ \A i \in DOMAIN seed : SeedNews(seed[i])
  <2>1. PICK fetch, toast \in BOOLEAN : Run(DueTimers(refresh, fetch, toast))
      BY <1>2 DEF Tick
  <2>2. \A k \in {"PeriodicRefreshTick", "PeriodicFetchTick", "ToastExpiryTick"} :
          Plain(k) \in Event /\ Plain(k).kind = k
      BY EventForms DEF PlainEvents
  <2> DEFINE a == IF refresh THEN <<Plain("PeriodicRefreshTick")>> ELSE <<>>
             b == IF fetch THEN <<Plain("PeriodicFetchTick")>> ELSE <<>>
             c == IF toast THEN <<Plain("ToastExpiryTick")>> ELSE <<>>
  <2> HIDE DEF Plain
  <2>3. /\ a \in Seq(Event) /\ b \in Seq(Event) /\ c \in Seq(Event)
        /\ \A i \in DOMAIN a : a[i].kind \in PlainNews
        /\ \A i \in DOMAIN b : b[i].kind \in PlainNews
        /\ \A i \in DOMAIN c : c[i].kind \in PlainNews
      BY <2>2 DEF PlainNews
  <2>4. DueTimers(refresh, fetch, toast) = (a \o b) \o c BY DEF DueTimers
  <2> HIDE DEF a, b, c
  <2>5. a \o b \in Seq(Event) /\ \A i \in DOMAIN (a \o b) : (a \o b)[i].kind \in PlainNews
      BY <2>3, JoinedParts
  <2>6. /\ (a \o b) \o c \in Seq(Event)
        /\ \A i \in DOMAIN ((a \o b) \o c) : ((a \o b) \o c)[i].kind \in PlainNews
      BY <2>3, <2>5, JoinedParts
  <2> QED BY <2>1, <2>4, <2>6 DEF SeedNews
<1> QED BY <1>1, <1>2

\* Outside of run() the line is empty.
LEMMA LineEmpty ==
    ASSUME JobInv, phase \in {"down", "idle"}
    PROVE  Line = <<>> /\ effects = <<>> /\ queue = <<>> /\ followUps = <<>>
<1>1. queue = <<>> /\ effects = <<>> BY DEF JobInv, DebounceInv, FlushDiscipline
<1>2. followUps = <<>> BY DEF JobInv, LineKept
<1>3. Line = <<>> BY <1>1, <1>2 DEF Line
<1> QED BY <1>1, <1>2, <1>3

\* Effects add what they report at the end.
LEMMA FollowUpsJoin ==
    ASSUME TypeOK, NEW t \in Seq(Event), followUps' = followUps \o t, queue' = queue
    PROVE  Line' = Line \o t
<1>1. queue \in Seq(Event) /\ followUps \in Seq(Event) BY LineTypes
<1>2. queue \o (followUps \o t) = (queue \o followUps) \o t BY <1>1, Rejoin, Zenon
<1> QED BY <1>2 DEF Line

LEMMA OneFollows ==
    ASSUME TypeOK, NEW e \in Event, FollowUp(e), queue' = queue
    PROVE  <<e>> \in Seq(Event) /\ Len(<<e>>) = 1 /\ Line' = Line \o <<e>>
<1>1. followUps \in Seq(Event) /\ <<e>> \in Seq(Event) /\ Len(<<e>>) = 1 BY LineTypes
<1>2. followUps \o <<e>> = Append(followUps, e) BY <1>1
<1>3. followUps' = followUps \o <<e>> BY <1>2 DEF FollowUp
<1> QED BY <1>1, <1>3, FollowUpsJoin

LEMMA NothingFollows ==
    ASSUME TypeOK, UNCHANGED <<queue, followUps>>
    PROVE  <<>> \in Seq(Event) /\ DOMAIN <<>> = {} /\ Line' = Line \o <<>>
<1>1. Line \in Seq(Event) BY LineTypes
<1>2. Line' = Line BY DEF Line
<1> QED BY <1>1, <1>2, LineIsQueue

LEMMA LineGrows ==
    ASSUME JobInv, [Next]_vars, ~Dispatch, ~Stop
    PROVE  \E t : GrowsBy(t)
<1>1. /\ TypeOK /\ BackendQuiet /\ backendQ \in Seq(Event) /\ Line \in Seq(Event)
      /\ queue \in Seq(Event) /\ followUps \in Seq(Event)
    BY LineTypes DEF JobInv, DebounceInv
<1>2. ASSUME UNCHANGED <<queue, followUps>>, Delivered(<<>>) PROVE GrowsBy(<<>>)
    BY <1>1, <1>2, NothingFollows DEF GrowsBy
<1>3. ASSUME NEW e \in Event, FollowUp(e), queue' = queue, Fits(e, <<e>>), backendQ' = backendQ
      PROVE  GrowsBy(<<e>>)
  <2>1. \A i \in DOMAIN <<e>> : <<e>>[i] = e OBVIOUS
  <2> QED BY <1>1, <1>3, <2>1, OneFollows DEF GrowsBy, Delivered
<1>4. CASE Environment
  <2>1. UNCHANGED <<queue, followUps>>
      BY <1>4 DEF Environment, ChangeRepo, RemoveRepo, AddRepo, TouchRepo, BackendFails,
                  BackendRecovers, loopVars
  <2>2. ASSUME NEW e, backendQ' = Append(backendQ, e) PROVE Delivered(<<>>)
      BY <1>1, <2>2 DEF Delivered
  <2>3. backendQ' = backendQ \/ \E e : backendQ' = Append(backendQ, e)
      BY <1>4 DEF Environment, ChangeRepo, RemoveRepo, AddRepo, TouchRepo, BackendFails,
                  BackendRecovers, Notify, backendVars
  <2>4. Delivered(<<>>) BY <2>2, <2>3 DEF Delivered
  <2> QED BY <1>2, <2>1, <2>4
<1>5. CASE EndIteration
  <2>1. /\ followUps' = <<>> /\ queue' = IF Remaining = <<>> THEN Flush ELSE Remaining
      BY <1>5 DEF EndIteration
  <2>2. Remaining = Line \o backendQ BY DEF Remaining, Line
  <2>3. ASSUME NEW t \in Seq(Event), queue' = Line \o t PROVE Line' = Line \o t
    <3>1. Line \o t \in Seq(Event) BY <1>1, JoinedParts
    <3> QED BY <2>1, <2>3, <3>1, LineIsQueue DEF Line
  <2>4. CASE Remaining # <<>>
    <3>1. queue' = Line \o backendQ BY <2>1, <2>2, <2>4
    <3>2. Line' = Line \o backendQ BY <1>1, <2>3, <3>1
    <3>3. \A i \in DOMAIN backendQ : Fits(backendQ[i], backendQ) BY <1>1, BackendFits
    <3> QED BY <1>1, <3>2, <3>3 DEF GrowsBy, Delivered
  <2>5. CASE Remaining = <<>>
    <3>1. Len(Line) = 0 /\ Len(backendQ) = 0
      <4>1. Line \o backendQ = <<>> BY <2>2, <2>5, Zenon
      <4>2. Len(<<>>) = 0 OBVIOUS
      <4>3. Len(Line \o backendQ) = Len(Line) + Len(backendQ) BY <1>1
      <4>4. Len(Line \o backendQ) = 0 BY <4>1, <4>2, Zenon
      <4> QED BY <1>1, <4>3, <4>4
    <3>2. Line = <<>> /\ DOMAIN backendQ = {} BY <1>1, <3>1
    <3>3. /\ Plain("WatcherDebounceFlush") \in Event
          /\ Plain("WatcherDebounceFlush").kind = "WatcherDebounceFlush"
        BY EventForms DEF PlainEvents
    <3> HIDE DEF Plain
    <3>4. Flush \in Seq(Event) /\ \A i \in DOMAIN Flush : Flush[i].kind = "WatcherDebounceFlush"
        BY <3>3 DEF Flush
    <3>5. queue' = Line \o Flush BY <2>1, <2>5, <3>2, <3>4, LineIsQueue
    <3>6. Line' = Line \o Flush BY <2>3, <3>4, <3>5
    <3>7. \A i \in DOMAIN Flush : Fits(Flush[i], Flush) BY <3>4, PlainFits DEF PlainNews
    <3> QED BY <3>2, <3>4, <3>6, <3>7 DEF GrowsBy, Delivered
  <2> QED BY <2>4, <2>5
<1>6. CASE ApplyEffect
  <2> USE DEF backendVars, stateVars, EffectDone
  <2>1. /\ \A k \in {"WatcherDegraded", "WatcherRecovered", "RepoScanFailed"} :
              Plain(k) \in Event /\ Plain(k).kind = k
        /\ \A k \in {"RepoSummaryRefreshStarted", "RepoSummaryRefreshFailed",
                     "GitOperationStarted", "GitOperationCompleted", "GitOperationFailed"} :
              \A r \in Repos : About(k, r) \in Event /\ About(k, r).kind = k
      BY EventForms DEF PlainEvents, RepoEvents
  <2>2. effects # <<>> => Head(effects) \in Effect BY <1>1 DEF TypeOK
  <2>3. \A r \in Repos : disk[r] \in Nat BY <1>1 DEF TypeOK
  <2>4. present \in SUBSET Repos BY <1>1 DEF TypeOK
  <2>5. CASE StartRepoScan
    <3> DEFINE e == [kind |-> "RepoScanCompleted", repos |-> present]
    <3>1. e \in Event /\ e.kind = "RepoScanCompleted" /\ e.repos = present
        BY <2>4, EventForms
    <3>2. UNCHANGED <<present, disk, queue, backendQ>> BY <2>5 DEF StartRepoScan
    <3>3. Fits(e, <<e>>) BY <3>1, <3>2 DEF Fits, WatchNews, ReadEvents
    <3>4. Fits(Plain("RepoScanFailed"), <<Plain("RepoScanFailed")>>)
        BY <2>1, PlainFits DEF PlainNews
    <3>5. FollowUp(e) \/ FollowUp(Plain("RepoScanFailed")) BY <2>5 DEF StartRepoScan
    <3> QED BY <1>3, <2>1, <3>1, <3>2, <3>3, <3>4, <3>5
  <2>6. CASE ConfigureWatcher
    <3>1. \A k \in {"WatcherDegraded", "WatcherRecovered"} : Fits(Plain(k), <<Plain(k)>>)
        BY <2>1, <2>6 DEF Fits, OutcomeKinds, ReadEvents
    <3>2. /\ FollowUp(Plain("WatcherDegraded")) \/ FollowUp(Plain("WatcherRecovered"))
          /\ UNCHANGED <<queue, backendQ>>
        BY <2>6 DEF ConfigureWatcher
    <3> QED BY <1>3, <2>1, <3>1, <3>2
  <2>7. CASE ScheduleWatcherDebounce BY <1>2, <2>7 DEF ScheduleWatcherDebounce, Delivered
  <2>8. CASE SpawnSummaryWorker
    <3>1. PICK r \in Head(effects).pending : FollowUp(About("RepoSummaryRefreshStarted", r))
        BY <2>8 DEF SpawnSummaryWorker
    <3>2. r \in Repos BY <2>2, <2>8, <3>1, EffectFields DEF SpawnSummaryWorker, Applying
    <3> DEFINE e == About("RepoSummaryRefreshStarted", r)
    <3>3. e \in Event /\ Fits(e, <<e>>) BY <2>1, <3>2, PlainFits DEF PlainNews
    <3>4. UNCHANGED <<queue, backendQ>> BY <2>8 DEF SpawnSummaryWorker
    <3> QED BY <1>3, <3>1, <3>3, <3>4
  <2>9. CASE ReceiveSummary
    <3>1. PICK r \in Head(effects).running :
            \/ /\ r \in present
               /\ FollowUp([kind |-> "RepoSummaryUpdated", repo |-> r, ver |-> disk[r]])
            \/ FollowUp(About("RepoSummaryRefreshFailed", r))
        BY <2>9 DEF ReceiveSummary
    <3>2. r \in Repos BY <2>2, <2>9, <3>1, EffectFields DEF ReceiveSummary, Applying
    <3>3. UNCHANGED <<present, disk, queue, backendQ>> BY <2>9 DEF ReceiveSummary
    <3> DEFINE u == [kind |-> "RepoSummaryUpdated", repo |-> r, ver |-> disk[r]]
               x == About("RepoSummaryRefreshFailed", r)
    <3>4. /\ u \in Event /\ u.kind = "RepoSummaryUpdated" /\ u.repo = r /\ u.ver = disk[r]
          /\ x \in Event /\ x.kind = "RepoSummaryRefreshFailed"
        BY <2>1, <2>3, <3>2, EventForms DEF ReadEvents
    <3>5. r \in present => Fits(u, <<u>>) BY <3>3, <3>4 DEF Fits, WatchNews
    <3>6. Fits(x, <<x>>) BY <3>3, <3>4 DEF Fits, WatchNews, ReadEvents
    <3> QED BY <1>3, <3>1, <3>3, <3>4, <3>5, <3>6
  <2>10. CASE RefreshDone BY <1>2, <2>10 DEF RefreshDone, Delivered
  <2>11. CASE LoadRepoDetail
    <3> DEFINE r == Head(effects).repo
               e == [kind |-> "RepoDetailLoaded", repo |-> r, ver |-> disk[r]]
    <3>1. r \in Repos BY <2>2, <2>11, EffectFields DEF LoadRepoDetail, Applying
    <3>2. /\ e \in Event /\ e.kind = "RepoDetailLoaded" /\ e.repo = r /\ e.ver = disk[r]
        BY <2>3, <3>1, EventForms DEF ReadEvents
    <3>3. UNCHANGED <<present, disk, queue, backendQ>> BY <2>11 DEF LoadRepoDetail
    <3>4. r \in present => Fits(e, <<e>>) BY <3>2, <3>3 DEF Fits, WatchNews
    <3>5. UNCHANGED followUps \/ (r \in present /\ FollowUp(e)) BY <2>11 DEF LoadRepoDetail
    <3>6. UNCHANGED followUps => GrowsBy(<<>>) BY <1>2, <3>3 DEF Delivered
    <3> QED BY <1>3, <3>2, <3>3, <3>4, <3>5, <3>6
  <2>12. CASE RunGitCommand
    <3> DEFINE r == Head(effects).repo
    <3>1. r \in Repos BY <2>2, <2>12, EffectFields DEF RunGitCommand, Applying
    <3>2. PICK k \in {"GitOperationCompleted", "GitOperationFailed"} :
            followUps' = followUps \o GitEvents(r, k)
        BY <2>12 DEF RunGitCommand
    <3> DEFINE a == About("GitOperationStarted", r)
               b == About(k, r)
    <3>3. a \in Event /\ a.kind \in PlainNews /\ b \in Event /\ b.kind \in PlainNews
        BY <2>1, <3>1 DEF PlainNews
    <3>4. GitEvents(r, k) = <<a, b>> BY DEF GitEvents
    <3> HIDE DEF a, b
    <3>5. <<a, b>> \in Seq(Event) /\ \A i \in DOMAIN <<a, b>> : <<a, b>>[i].kind \in PlainNews
        BY <3>3
    <3>6. \A i \in DOMAIN <<a, b>> : Fits(<<a, b>>[i], <<a, b>>) BY <3>5, PlainFits
    <3>7. queue' = queue BY <2>12 DEF RunGitCommand
    <3>8. Line' = Line \o <<a, b>> BY <1>1, <3>2, <3>4, <3>5, <3>7, FollowUpsJoin
    <3>9. backendQ' = backendQ \/ \E e : backendQ' = Append(backendQ, e)
        BY <2>12 DEF RunGitCommand, Notify
    <3>10. Delivered(<<a, b>>)
      <4>1. CASE backendQ' = backendQ BY <4>1 DEF Delivered
      <4>2. ASSUME NEW e, backendQ' = Append(backendQ, e) PROVE Delivered(<<a, b>>)
          BY <1>1, <4>2 DEF Delivered
      <4> QED BY <3>9, <4>1, <4>2
    <3> QED BY <3>5, <3>6, <3>8, <3>10 DEF GrowsBy
  <2>13. CASE PersistCacheStep BY <1>2, <2>13 DEF PersistCacheStep, Delivered
  <2> QED BY <1>6, <2>5, <2>6, <2>7, <2>8, <2>9, <2>10, <2>11, <2>12, <2>13 DEF ApplyEffect
<1>7. CASE Boot
  <2> DEFINE e == Plain("RefreshVisibleRepos")
  <2>1. e \in Event /\ e.kind \in PlainNews BY EventForms DEF PlainEvents, PlainNews
  <2>2. Line = <<>> /\ followUps = <<>> BY <1>7, LineEmpty DEF Boot
  <2>3. queue' = <<e>> /\ followUps' = <<>> /\ backendQ' = backendQ
      BY <1>7, <2>2 DEF Boot, backendVars
  <2> HIDE DEF e
  <2>4. <<e>> \in Seq(Event) /\ \A i \in DOMAIN <<e>> : <<e>>[i] = e BY <2>1
  <2>5. Line' = Line \o <<e>> BY <2>2, <2>3, <2>4, LineIsQueue DEF Line
  <2> QED BY <2>1, <2>3, <2>4, <2>5, PlainFits DEF GrowsBy, Delivered
<1>8. CASE UserInput \/ \E refresh \in BOOLEAN : Tick(refresh)
  <2>1. PICK seed \in Seq(Event) : Run(seed) /\ \A i \in DOMAIN seed : SeedNews(seed[i])
      BY <1>1, <1>8, SeedsFit
  <2>2. Line = <<>> /\ followUps = <<>> BY <2>1, LineEmpty DEF Run
  <2> DEFINE t == seed \o backendQ
  <2>3. /\ t \in Seq(Event)
        /\ \A k \in DOMAIN backendQ : \E i \in DOMAIN t : t[i] = backendQ[k]
        /\ \A i \in DOMAIN t : \/ i \in DOMAIN seed /\ t[i] = seed[i]
                               \/ \E k \in DOMAIN backendQ : t[i] = backendQ[k]
    <3>1. seed \in Seq(Event) BY <2>1
    <3>2. \A k \in DOMAIN backendQ :
            Len(seed) + k \in DOMAIN t /\ t[Len(seed) + k] = backendQ[k]
        BY <1>1, <3>1, JoinedParts
    <3>3. \A i \in DOMAIN t : \/ i \in DOMAIN seed /\ t[i] = seed[i]
                              \/ \E k \in DOMAIN backendQ : i = Len(seed) + k /\ t[i] = backendQ[k]
        BY <1>1, <3>1, JoinedParts
    <3>4. t \in Seq(Event) BY <1>1, <3>1, JoinedParts
    <3> HIDE DEF t
    <3> QED BY <3>2, <3>3, <3>4, Zenon
  <2>4. queue' = t /\ followUps' = <<>> BY <2>1, <2>2 DEF Run
  <2> HIDE DEF t
  <2>5. Line' = Line \o t BY <2>2, <2>3, <2>4, LineIsQueue DEF Line
  <2>6. \A i \in DOMAIN t : Fits(t[i], t)
    <3>1. ASSUME NEW e, SeedNews(e) PROVE Fits(e, t)
      <4>1. CASE e.kind \in PlainNews BY <4>1, PlainFits
      <4>2. CASE e.kind = "EnterRepoMode" /\ e.repo \in ws.discovered
          BY <2>1, <4>2 DEF Fits, OutcomeKinds, WatchNews, ReadEvents, Run
      <4> QED BY <3>1, <4>1, <4>2 DEF SeedNews
    <3> QED BY <1>1, <2>1, <2>3, <3>1, BackendFits
  <2> QED BY <2>3, <2>5, <2>6 DEF GrowsBy, Delivered
<1>9. CASE UNCHANGED vars
    BY <1>2, <1>9 DEF vars, loopVars, backendVars, Delivered
<1> QED BY <1>4, <1>5, <1>6, <1>7, <1>8, <1>9 DEF Next, Loop

-----------------------------------------------------------------------------
(* What the handlers do to the workspace.                                  *)

FailureOf(e, r) == e.kind = "RepoSummaryRefreshFailed" /\ e.repo = r

\* Four events touch the summaries.
SummariesMove(e) ==
    \A r \in Repos :
        LET s == ws.summaries[r]
            t == ws'.summaries[r]
        IN /\ UpdateOf(e, r) => t = [ver |-> e.ver, fresh |-> "Fresh", error |-> FALSE]
           /\ FailureOf(e, r) => t # None /\ t.error /\ t.ver = IF s = None THEN 0 ELSE s.ver
           /\ e.kind = "WatcherDegraded" =>
                IF s = None THEN t = None
                ELSE t # None /\ t.ver = s.ver /\ t.error = s.error /\ t.fresh = "Stale"
           /\ ~UpdateOf(e, r) /\ ~FailureOf(e, r) /\ e.kind # "WatcherDegraded" => t = s

\* A completed scan replaces the list, the watcher's news its health, and the
\* flush empties what the invalidations fill.
ListMoves(e) ==
    /\ ws'.discovered = IF e.kind = "RepoScanCompleted" THEN e.repos ELSE ws.discovered
    /\ ws'.health = CASE e.kind = "WatcherDegraded" -> "Degraded"
                      [] e.kind = "WatcherRecovered" -> "Healthy"
                      [] OTHER -> ws.health
    /\ ws'.invalidations = CASE e.kind = "RepoInvalidated" -> ws.invalidations \cup {e.repo}
                             [] e.kind = "WatcherDebounceFlush" -> {}
                             [] OTHER -> ws.invalidations

\* None is no summary.
LEMMA SummaryCases ==
    /\ [ver |-> 0, fresh |-> "Stale", error |-> TRUE] # None
    /\ \A v \in Nat : [ver |-> v, fresh |-> "Fresh", error |-> FALSE] # None
    /\ \A s \in Summary :
        /\ s # None
        /\ [s EXCEPT !.error = TRUE] # None
        /\ [s EXCEPT !.error = TRUE].error /\ [s EXCEPT !.error = TRUE].ver = s.ver
        /\ [s EXCEPT !.fresh = "Stale"] # None
        /\ [s EXCEPT !.fresh = "Stale"].fresh = "Stale"
        /\ [s EXCEPT !.fresh = "Stale"].ver = s.ver
        /\ [s EXCEPT !.fresh = "Stale"].error = s.error
<1>1. [ver |-> 0, fresh |-> "Stale", error |-> TRUE] \in Summary BY DEF Summary, Freshness
<1>2. \A v \in Nat : [ver |-> v, fresh |-> "Fresh", error |-> FALSE] \in Summary
    BY DEF Summary, Freshness
<1>3. \A s \in Summary : /\ [s EXCEPT !.error = TRUE] \in Summary
                         /\ [s EXCEPT !.fresh = "Stale"] \in Summary
    BY DEF Summary, Freshness
<1>4. \A s \in Summary : s # None BY OptionAssumption DEF OptionAssumption
<1>5. \A s \in Summary :
        /\ [s EXCEPT !.error = TRUE].error /\ [s EXCEPT !.error = TRUE].ver = s.ver
        /\ [s EXCEPT !.fresh = "Stale"].fresh = "Stale"
        /\ [s EXCEPT !.fresh = "Stale"].ver = s.ver
        /\ [s EXCEPT !.fresh = "Stale"].error = s.error
    BY DEF Summary
<1> QED BY <1>1, <1>2, <1>3, <1>4, <1>5

LEMMA ReduceWorkspace ==
    ASSUME TypeOK, NEW e \in Event, Reduce(e)
    PROVE  SummariesMove(e) /\ ListMoves(e)
<1>1. /\ ws \in Workspace /\ ws.summaries \in [Repos -> Summary \cup {None}]
    BY DEF TypeOK, Workspace
<1>2. ASSUME ws'.summaries = ws.summaries,
             e.kind \notin {"RepoSummaryUpdated", "RepoSummaryRefreshFailed", "WatcherDegraded"}
      PROVE  SummariesMove(e)
    BY <1>2 DEF SummariesMove, UpdateOf, FailureOf
<1>3. ASSUME UNCHANGED <<ws.summaries, ws.discovered, ws.health, ws.invalidations>>,
             e.kind \notin {"RepoSummaryUpdated", "RepoSummaryRefreshFailed", "WatcherDegraded",
                            "WatcherRecovered", "RepoInvalidated", "WatcherDebounceFlush",
                            "RepoScanCompleted"}
      PROVE  SummariesMove(e) /\ ListMoves(e)
    BY <1>2, <1>3 DEF ListMoves
<1>4. \A s : LET w == [ws EXCEPT !.scanStatus = s]
             IN /\ w.summaries = ws.summaries /\ w.discovered = ws.discovered
                /\ w.health = ws.health /\ w.invalidations = ws.invalidations
    BY <1>1 DEF Workspace
<1>5. CASE ReduceRefreshVisibleRepos(e) BY <1>3, <1>4, <1>5 DEF ReduceRefreshVisibleRepos
<1>6. CASE ReduceRefreshSelectedRepo(e) BY <1>3, <1>6 DEF ReduceRefreshSelectedRepo
<1>7. CASE ReduceRefreshSelectedRepoDeep(e) BY <1>3, <1>7 DEF ReduceRefreshSelectedRepoDeep
<1>8. CASE ReduceEnterRepoMode(e) BY <1>3, <1>8 DEF ReduceEnterRepoMode
<1>9. CASE ReduceLeaveRepoMode(e) BY <1>3, <1>9 DEF ReduceLeaveRepoMode
<1>10. CASE ReduceGitAction(e) BY <1>3, <1>10 DEF ReduceGitAction, EnqueueGitJob
<1>30. CASE ReduceDetachSelectedWorktree(e)
    BY <1>3, <1>30 DEF ReduceDetachSelectedWorktree
<1>11. CASE ReducePeriodicFetchTick(e)
    BY <1>3, <1>11 DEF ReducePeriodicFetchTick, EnqueueGitJob, stateVars
<1>12. CASE ReduceRepoScanFailed(e) BY <1>3, <1>4, <1>12 DEF ReduceRepoScanFailed
<1>13. CASE ReduceRepoScanCompleted(e)
  <2>1. e.kind = "RepoScanCompleted"
        /\ ws' = [ws EXCEPT !.discovered = e.repos, !.scanStatus = "Complete"]
      BY <1>13 DEF ReduceRepoScanCompleted
  <2>2. /\ ws'.summaries = ws.summaries /\ ws'.discovered = e.repos
        /\ ws'.health = ws.health /\ ws'.invalidations = ws.invalidations
      BY <1>1, <2>1 DEF Workspace
  <2> QED BY <1>2, <2>1, <2>2 DEF ListMoves
<1>14. CASE ReduceRepoSummaryRefreshStarted(e)
    BY <1>3, <1>14 DEF ReduceRepoSummaryRefreshStarted
<1>15. ASSUME NEW r \in Repos, NEW s, ws' = [ws EXCEPT !.summaries[r] = s]
       PROVE  /\ ws'.summaries[r] = s /\ \A q \in Repos : q # r => ws'.summaries[q] = ws.summaries[q]
              /\ ws'.discovered = ws.discovered /\ ws'.health = ws.health
              /\ ws'.invalidations = ws.invalidations
  <2>1. /\ ws'.summaries = [ws.summaries EXCEPT ![r] = s]
        /\ ws'.discovered = ws.discovered /\ ws'.health = ws.health
        /\ ws'.invalidations = ws.invalidations
      BY <1>1, <1>15 DEF Workspace
  <2> QED BY <1>1, <2>1
<1>16. CASE ReduceRepoSummaryUpdated(e)
  <2>1. e.kind = "RepoSummaryUpdated" /\ e.repo \in Repos
      BY <1>16, EventFields DEF ReduceRepoSummaryUpdated, ReadEvents
  <2> DEFINE new == [ver |-> e.ver, fresh |-> "Fresh", error |-> FALSE]
  <2>2. ws' = [ws EXCEPT !.summaries[e.repo] = new] BY <1>16 DEF ReduceRepoSummaryUpdated
  <2> HIDE DEF new
  <2>3. /\ ws'.summaries[e.repo] = new
        /\ \A q \in Repos : q # e.repo => ws'.summaries[q] = ws.summaries[q]
        /\ ws'.discovered = ws.discovered /\ ws'.health = ws.health
        /\ ws'.invalidations = ws.invalidations
      BY <1>15, <2>1, <2>2
  <2>4. SummariesMove(e) BY <2>1, <2>3 DEF SummariesMove, UpdateOf, FailureOf, new
  <2> QED BY <2>1, <2>3, <2>4 DEF ListMoves
<1>17. CASE ReduceRepoSummaryRefreshFailed(e)
  <2>1. e.kind = "RepoSummaryRefreshFailed" /\ e.repo \in Repos
      BY <1>17, EventFields DEF ReduceRepoSummaryRefreshFailed, RepoEvents
  <2> DEFINE old == ws.summaries[e.repo]
             new == IF old = None THEN [ver |-> 0, fresh |-> "Stale", error |-> TRUE]
                    ELSE [old EXCEPT !.error = TRUE]
  <2>2. ws' = [ws EXCEPT !.summaries[e.repo] = new]
      BY <1>17, <1>1, <2>1 DEF ReduceRepoSummaryRefreshFailed, Workspace
  <2>3. old \in Summary \cup {None} BY <1>1, <2>1
  <2>4. new # None /\ new.error /\ new.ver = IF old = None THEN 0 ELSE old.ver
    <3> HIDE DEF old
    <3> QED BY <2>3, SummaryCases
  <2> HIDE DEF new
  <2>5. /\ ws'.summaries[e.repo] = new
        /\ \A q \in Repos : q # e.repo => ws'.summaries[q] = ws.summaries[q]
        /\ ws'.discovered = ws.discovered /\ ws'.health = ws.health
        /\ ws'.invalidations = ws.invalidations
      BY <1>15, <2>1, <2>2
  <2>6. SummariesMove(e) BY <2>1, <2>4, <2>5 DEF SummariesMove, UpdateOf, FailureOf
  <2> QED BY <2>1, <2>5, <2>6 DEF ListMoves
<1>18. CASE ReduceRepoDetailLoaded(e) BY <1>3, <1>18 DEF ReduceRepoDetailLoaded
<1>19. CASE ReduceGitOperationStarted(e) BY <1>3, <1>19 DEF ReduceGitOperationStarted
<1>20. CASE ReduceGitOperationDone(e) BY <1>3, <1>20 DEF ReduceGitOperationDone
<1>21. CASE ReduceRepoInvalidated(e)
  <2>1. e.kind = "RepoInvalidated"
        /\ ws' = [ws EXCEPT !.invalidations = ws.invalidations \cup {e.repo},
                            !.debouncePending = TRUE]
      BY <1>21, <1>1 DEF ReduceRepoInvalidated, Workspace
  <2>2. /\ ws'.summaries = ws.summaries /\ ws'.discovered = ws.discovered
        /\ ws'.health = ws.health /\ ws'.invalidations = ws.invalidations \cup {e.repo}
      BY <1>1, <2>1 DEF Workspace
  <2> QED BY <1>2, <2>1, <2>2 DEF ListMoves
<1>22. CASE ReduceWatcherDegraded(e)
  <2> DEFINE new == [r \in Repos |-> IF ws.summaries[r] = None THEN None
                                     ELSE [ws.summaries[r] EXCEPT !.fresh = "Stale"]]
  <2>1. e.kind = "WatcherDegraded"
        /\ ws' = [ws EXCEPT !.health = "Degraded", !.summaries = new]
      BY <1>22, <1>1 DEF ReduceWatcherDegraded, Workspace
  <2>2. \A r \in Repos : new[r] = IF ws.summaries[r] = None THEN None
                                  ELSE [ws.summaries[r] EXCEPT !.fresh = "Stale"]
      OBVIOUS
  <2> HIDE DEF new
  <2>3. /\ ws'.summaries = new /\ ws'.discovered = ws.discovered
        /\ ws'.health = "Degraded" /\ ws'.invalidations = ws.invalidations
      BY <1>1, <2>1 DEF Workspace
  <2>4. ASSUME NEW r \in Repos
        PROVE  IF ws.summaries[r] = None THEN new[r] = None
               ELSE /\ new[r] # None /\ new[r].ver = ws.summaries[r].ver
                    /\ new[r].error = ws.summaries[r].error /\ new[r].fresh = "Stale"
    <3>1. PICK s \in Summary \cup {None} : s = ws.summaries[r] BY <1>1
    <3>2. new[r] = IF s = None THEN None ELSE [s EXCEPT !.fresh = "Stale"] BY <2>2, <3>1
    <3>3. CASE s = None BY <3>1, <3>2, <3>3
    <3>4. CASE s \in Summary
      <4>1. s # None BY <3>4, SummaryCases
      <4>2. new[r] = [s EXCEPT !.fresh = "Stale"] BY <3>2, <4>1
      <4> QED BY <3>1, <3>4, <4>1, <4>2, SummaryCases
    <3> QED BY <3>3, <3>4
  <2>5. SummariesMove(e) BY <2>1, <2>3, <2>4 DEF SummariesMove, UpdateOf, FailureOf
  <2> QED BY <2>1, <2>3, <2>5 DEF ListMoves
<1>23. CASE ReduceWatcherRecovered(e)
  <2>1. e.kind = "WatcherRecovered" /\ ws' = [ws EXCEPT !.health = "Healthy"]
      BY <1>23 DEF ReduceWatcherRecovered
  <2>2. /\ ws'.summaries = ws.summaries /\ ws'.discovered = ws.discovered
        /\ ws'.health = "Healthy" /\ ws'.invalidations = ws.invalidations
      BY <1>1, <2>1 DEF Workspace
  <2> QED BY <1>2, <2>1, <2>2 DEF ListMoves
<1>24. CASE ReducePeriodicRefreshTick(e)
    BY <1>3, <1>4, <1>24 DEF ReducePeriodicRefreshTick
<1>25. CASE ReduceWatcherDebounceFlush(e)
  <2>1. e.kind = "WatcherDebounceFlush"
        /\ ws' = [ws EXCEPT !.invalidations = {}, !.debouncePending = FALSE]
      BY <1>25 DEF ReduceWatcherDebounceFlush
  <2>2. /\ ws'.summaries = ws.summaries /\ ws'.discovered = ws.discovered
        /\ ws'.health = ws.health /\ ws'.invalidations = {}
      BY <1>1, <2>1 DEF Workspace
  <2> QED BY <1>2, <2>1, <2>2 DEF ListMoves
<1>26. CASE ReduceToastExpiryTick(e) BY <1>3, <1>26 DEF ReduceToastExpiryTick, stateVars
<1> QED BY <1>5, <1>6, <1>7, <1>8, <1>9, <1>10, <1>11, <1>12, <1>13, <1>14, <1>16, <1>17,
           <1>18, <1>19, <1>20, <1>21, <1>22, <1>23, <1>24, <1>25, <1>26, <1>30 DEF Reduce

\* What the handlers ask for: a completed scan asks for the watch ahead of the
\* refresh, an outcome for the cache, and the flush for a refresh of all that
\* was invalidated.
LEMMA ReduceAsks ==
    ASSUME TypeOK, NEW e \in Event, Reduce(e)
    PROVE  /\ e.kind = "RepoScanCompleted" => effects' = ScanEffects(e.repos)
           /\ e.kind = "RepoSummaryUpdated" => effects' = <<PersistCache>>
           /\ e.kind # "RepoScanCompleted" =>
                \A i \in DOMAIN effects' : effects'[i].kind # "ConfigureWatcher"
           /\ e.kind = "WatcherDebounceFlush" =>
                \A r \in ws.invalidations : \E i \in DOMAIN effects' : effects'[i] = Refresh({r})
<1> USE DEF Plain, About, LoadDetail, Refresh, Pool, PersistCache
<1>3. CASE ReduceRefreshVisibleRepos(e) BY <1>3 DEF ReduceRefreshVisibleRepos
<1>4. CASE ReduceRefreshSelectedRepo(e) BY <1>4 DEF ReduceRefreshSelectedRepo
<1>5. CASE ReduceRefreshSelectedRepoDeep(e) BY <1>5 DEF ReduceRefreshSelectedRepoDeep
<1>6. CASE ReduceEnterRepoMode(e) BY <1>6 DEF ReduceEnterRepoMode
<1>7. CASE ReduceLeaveRepoMode(e) BY <1>7 DEF ReduceLeaveRepoMode
<1>8. CASE ReduceGitAction(e) BY <1>8 DEF ReduceGitAction, EnqueueGitJob
<1>30. CASE ReduceDetachSelectedWorktree(e) BY <1>30 DEF ReduceDetachSelectedWorktree
<1>9. CASE ReducePeriodicFetchTick(e) BY <1>9 DEF ReducePeriodicFetchTick, EnqueueGitJob
<1>10. CASE ReduceRepoScanFailed(e) BY <1>10 DEF ReduceRepoScanFailed
<1>11. CASE ReduceRepoScanCompleted(e) BY <1>11 DEF ReduceRepoScanCompleted
<1>12. CASE ReduceRepoSummaryRefreshStarted(e)
    BY <1>12 DEF ReduceRepoSummaryRefreshStarted
<1>13. CASE ReduceRepoSummaryUpdated(e)
    BY <1>13 DEF ReduceRepoSummaryUpdated, UpdatedEffects
<1>14. CASE ReduceRepoSummaryRefreshFailed(e)
    BY <1>14 DEF ReduceRepoSummaryRefreshFailed, RefreshFailedEffects
<1>15. CASE ReduceRepoDetailLoaded(e) BY <1>15 DEF ReduceRepoDetailLoaded
<1>16. CASE ReduceGitOperationStarted(e) BY <1>16 DEF ReduceGitOperationStarted
<1>17. CASE ReduceGitOperationDone(e) BY <1>17 DEF ReduceGitOperationDone
<1>18. CASE ReduceRepoInvalidated(e)
    BY <1>18 DEF ReduceRepoInvalidated, InvalidationEffects
<1>19. CASE ReduceWatcherDegraded(e) BY <1>19 DEF ReduceWatcherDegraded
<1>20. CASE ReduceWatcherRecovered(e) BY <1>20 DEF ReduceWatcherRecovered
<1>21. CASE ReducePeriodicRefreshTick(e)
    BY <1>21 DEF ReducePeriodicRefreshTick, PollEffects, LoadActiveDetail
<1>22. CASE ReduceWatcherDebounceFlush(e)
  <2> DEFINE S == ws.invalidations \ {active}
  <2>1. PICK others \in Orders(S) :
          effects' = (IF active \in ws.invalidations THEN FlushActive(active) ELSE <<>>)
                     \o [k \in DOMAIN others |-> Refresh({others[k]})]
      BY <1>22 DEF ReduceWatcherDebounceFlush
  <2> DEFINE first == IF active \in ws.invalidations THEN FlushActive(active) ELSE <<>>
             rest == [k \in DOMAIN others |-> Refresh({others[k]})]
  <2>2. ws.invalidations \in SUBSET Repos BY DEF TypeOK, Workspace
  <2>3. /\ \A k \in DOMAIN first : first[k].kind # "ConfigureWatcher"
        /\ \A k \in DOMAIN rest : rest[k].kind # "ConfigureWatcher"
      BY DEF FlushActive
  <2> HIDE DEF Refresh, Pool, LoadDetail, About, Plain, PersistCache
  <2>4. active \in ws.invalidations => 1 \in DOMAIN first /\ first[1] = Refresh({active})
      BY DEF FlushActive
  <2>5. \A q \in S : \E k \in DOMAIN others : others[k] = q
    <3>1. IsFiniteSet(S)
      <4>1. S \in SUBSET Repos BY <2>2
      <4> QED BY <4>1, RuntimeAssumption, FS_Subset DEF RuntimeAssumption
    <3> DEFINE n == Cardinality(S)
    <3>2. n \in Nat BY <3>1, FS_CardinalityType
    <3>3. /\ others \in [1..n -> S]
          /\ \A i, k \in 1..n : others[i] = others[k] => i = k
        BY <2>1 DEF Orders
    <3>4. IsFiniteSet(1..n) /\ Cardinality(1..n) = n
        BY <3>2, FS_Interval
    <3> HIDE DEF n, S
    <3>5. others \in Injection(1..n, S) BY <3>3 DEF Injection, IsInjective
    <3>6. Cardinality(1..n) = Cardinality(S) BY <3>4 DEF n
    <3>7. others \in Surjection(1..n, S) BY <3>1, <3>5, <3>6, FS_Injection
    <3>8. \A q \in S : \E k \in 1..n : others[k] = q BY <3>7 DEF Surjection
    <3>9. DOMAIN others = 1..n BY <3>3
    <3> QED BY <3>8, <3>9
  <2>6. \A q \in S : \E k \in DOMAIN rest : rest[k] = Refresh({q})
      BY <2>5
  <2>7. first \in Seq(Effect) BY <2>2, EffectForms DEF FlushActive
  <2>8. rest \in Seq(Effect)
    <3>1. S \in SUBSET Repos BY <2>2
    <3> HIDE DEF S
    <3> QED BY <3>1, <2>1, RefreshEach
  <2>9. effects' = first \o rest BY <2>1
  <2>10. \A r \in ws.invalidations : r = active \/ r \in S OBVIOUS
  <2> HIDE DEF first, rest, S
  <2>11. /\ \A k \in DOMAIN first : k \in DOMAIN (first \o rest) /\ (first \o rest)[k] = first[k]
         /\ \A k \in DOMAIN rest : Len(first) + k \in DOMAIN (first \o rest)
                                   /\ (first \o rest)[Len(first) + k] = rest[k]
         /\ \A i \in DOMAIN (first \o rest) :
              \/ i \in DOMAIN first /\ (first \o rest)[i] = first[i]
              \/ i - Len(first) \in DOMAIN rest /\ (first \o rest)[i] = rest[i - Len(first)]
      BY <2>7, <2>8
  <2>12. \A i \in DOMAIN effects' : effects'[i].kind # "ConfigureWatcher"
      BY <2>3, <2>9, <2>11
  <2>13. ASSUME NEW r \in ws.invalidations
         PROVE  \E i \in DOMAIN effects' : effects'[i] = Refresh({r})
    <3>1. CASE r = active BY <2>4, <2>9, <2>11, <3>1
    <3>2. CASE r \in S
      <4>1. PICK k \in DOMAIN rest : rest[k] = Refresh({r}) BY <2>6, <3>2
      <4> QED BY <2>9, <2>11, <4>1
    <3> QED BY <2>10, <3>1, <3>2
  <2>14. e.kind = "WatcherDebounceFlush" BY <1>22 DEF ReduceWatcherDebounceFlush
  <2> QED BY <2>12, <2>13, <2>14
<1>23. CASE ReduceToastExpiryTick(e) BY <1>23 DEF ReduceToastExpiryTick
<1> QED BY <1>3, <1>4, <1>5, <1>6, <1>7, <1>8, <1>9, <1>10, <1>11, <1>12, <1>13,
           <1>14, <1>15, <1>16, <1>17, <1>18, <1>19, <1>20, <1>21, <1>22, <1>23, <1>30
        DEF Reduce

-----------------------------------------------------------------------------
(* Versions only rise.                                                     *)

\* The faults met so far only grow, and a process keeps its watcher backend.
LEMMA FaultsRemembered ==
    ASSUME TypeOK, [Next]_vars
    PROVE  /\ env.suffered \subseteq env'.suffered
           /\ watcher'.backend = watcher.backend
<1>1. /\ \A n : [env EXCEPT !.left = n].suffered = env.suffered
      /\ \A f, n : [left |-> n, suffered |-> env.suffered \cup {f}].suffered
                  = env.suffered \cup {f}
      /\ \A b : [watcher EXCEPT !.up = b].backend = watcher.backend
      /\ \A b : Unconfigured(b).backend = b
    BY DEF TypeOK, Environments, Watchers, Unconfigured
<1>2. Spend => env.suffered \subseteq env'.suffered BY <1>1 DEF Spend
<1>9. ASSUME NEW f, Fault(f)
      PROVE  env.suffered \subseteq env'.suffered /\ f \in env'.suffered
  <2>1. env' = [left |-> env.left - 1, suffered |-> env.suffered \cup {f}]
      BY <1>9 DEF Fault
  <2> QED BY <2>1
<1>3. CASE Environment
  <2>1. CASE \E r \in Repos : ChangeRepo(r) \/ RemoveRepo(r) \/ AddRepo(r) \/ TouchRepo(r)
      BY <1>2, <1>9, <2>1 DEF ChangeRepo, RemoveRepo, AddRepo, TouchRepo, backendVars
  <2>2. CASE BackendFails BY <1>1, <1>9, <2>2 DEF BackendFails
  <2>3. CASE BackendRecovers BY <1>1, <2>3 DEF BackendRecovers, envVars
  <2> QED BY <1>3, <2>1, <2>2, <2>3 DEF Environment
<1>4. CASE Dispatch \/ EndIteration
    BY <1>4 DEF Dispatch, EndIteration, envVars, backendVars
<1>5. CASE ApplyEffect
  <2>1. CASE ConfigureWatcher
    <3>1. env' = env \/ Fault("configure") BY <2>1 DEF ConfigureWatcher
    <3>2. \/ watcher' = watcher
          \/ \E s : watcher' = [watcher EXCEPT !.configured = TRUE, !.up = TRUE, !.paths = s]
        BY <2>1 DEF ConfigureWatcher
    <3>3. watcher'.backend = watcher.backend BY <3>2 DEF TypeOK, Watchers
    <3> QED BY <1>9, <3>1, <3>3
  <2>2. CASE ~ConfigureWatcher
      BY <1>2, <1>5, <1>9, <2>2 DEF ApplyEffect, StartRepoScan, ScheduleWatcherDebounce,
         SpawnSummaryWorker, ReceiveSummary, RefreshDone, LoadRepoDetail, RunGitCommand,
         PersistCacheStep, envVars, backendVars
  <2> QED BY <2>1, <2>2
<1>6. CASE Stop BY <1>1, <1>9, <1>6 DEF Stop
<1>7. CASE Boot \/ UserInput \/ \E refresh \in BOOLEAN : Tick(refresh)
    BY <1>7 DEF Boot, UserInput, Tick, Run, envVars, backendVars
<1>8. CASE UNCHANGED vars BY <1>8 DEF vars, envVars, backendVars
<1> QED BY <1>3, <1>4, <1>5, <1>6, <1>7, <1>8 DEF Next, Loop

LEMMA DiskRises ==
    ASSUME TypeOK, [Next]_vars
    PROVE  \A r \in Repos : disk[r] \in Nat /\ disk'[r] \in Nat /\ disk[r] <= disk'[r]
<1>1. disk \in [Repos -> Nat] BY DEF TypeOK
<1>2. ASSUME NEW q, disk' = [disk EXCEPT ![q] = @ + 1]
      PROVE  \A r \in Repos : disk[r] \in Nat /\ disk'[r] \in Nat /\ disk[r] <= disk'[r]
    BY <1>1, <1>2
<1>3. disk' = disk \/ \E q : disk' = [disk EXCEPT ![q] = @ + 1]
  <2>1. CASE Environment
      BY <2>1 DEF Environment, ChangeRepo, RemoveRepo, AddRepo, TouchRepo, BackendFails,
                  BackendRecovers, envVars
  <2>2. CASE Loop
      BY <2>2 DEF Loop, Dispatch, EndIteration, ApplyEffect, StartRepoScan, ConfigureWatcher,
                  ScheduleWatcherDebounce, SpawnSummaryWorker, ReceiveSummary, RefreshDone,
                  LoadRepoDetail, RunGitCommand, PersistCacheStep, envVars
  <2>3. CASE Boot \/ UserInput \/ (\E refresh \in BOOLEAN : Tick(refresh)) \/ Stop
      BY <2>3 DEF Boot, UserInput, Tick, Run, Stop, envVars
  <2>4. CASE UNCHANGED vars BY <2>4 DEF vars, envVars
  <2> QED BY <2>1, <2>2, <2>3, <2>4 DEF Next
<1>4. disk' = disk => \A r \in Repos : disk[r] \in Nat /\ disk'[r] \in Nat /\ disk[r] <= disk'[r]
    BY <1>1
<1> QED BY <1>2, <1>3, <1>4

\* The cache is left alone, lost, or made from the workspace.
LEMMA CacheMoves ==
    ASSUME [Next]_vars, ~Stop
    PROVE  /\ cache' \in {cache, None} \/ (cache' = CacheDocument /\ ws' = ws)
           /\ ~PersistCacheStep => cache' = cache
           /\ PersistCacheStep /\ "persist" \notin env'.suffered => cache' = CacheDocument
<1>1. CASE PersistCacheStep BY <1>1 DEF PersistCacheStep, Fault, stateVars
<1>2. CASE ~PersistCacheStep
  <2>1. CASE Environment
      BY <1>2, <2>1 DEF Environment, ChangeRepo, RemoveRepo, AddRepo, TouchRepo, BackendFails,
                  BackendRecovers
  <2>2. CASE Loop
      BY <1>2, <2>2 DEF Loop, Dispatch, EndIteration, ApplyEffect, StartRepoScan,
                  ConfigureWatcher, ScheduleWatcherDebounce, SpawnSummaryWorker,
                  ReceiveSummary, RefreshDone, LoadRepoDetail, RunGitCommand
  <2>3. CASE Boot \/ UserInput \/ \E refresh \in BOOLEAN : Tick(refresh)
      BY <1>2, <2>3 DEF Boot, UserInput, Tick, Run
  <2>4. CASE UNCHANGED vars BY <1>2, <2>4 DEF vars
  <2> QED BY <2>1, <2>2, <2>3, <2>4 DEF Next
<1> QED BY <1>1, <1>2

\* A restart takes up the cached list and versions.
LEMMA BootLoads ==
    ASSUME Boot
    PROVE  /\ ws'.discovered # {} => cache # None /\ ws'.discovered = cache.discovered
           /\ \A r \in Repos :
                ws'.summaries[r] # None =>
                    /\ cache # None /\ cache.summaries[r] # None
                    /\ TypeOK => ws'.summaries[r].ver = cache.summaries[r].ver
<1>1. CASE cache = None
  <2>1. ws' = EmptyWorkspace BY <1>1 DEF Boot
  <2> QED BY <2>1 DEF EmptyWorkspace
<1>2. CASE cache # None
  <2>1. PICK stale \in BOOLEAN : ws' = LoadedWorkspace(stale) BY <1>2 DEF Boot
  <2>2. ws'.discovered = cache.discovered BY <2>1 DEF LoadedWorkspace
  <2>3. ASSUME NEW r \in Repos, ws'.summaries[r] # None
        PROVE  /\ cache.summaries[r] # None
               /\ TypeOK => ws'.summaries[r].ver = cache.summaries[r].ver
    <3>1. PICK s : s = cache.summaries[r] OBVIOUS
    <3>2. ws'.summaries[r] = IF s # None /\ stale THEN [s EXCEPT !.fresh = "Stale"] ELSE s
        BY <2>1, <3>1 DEF LoadedWorkspace
    <3>3. TypeOK => s \in Summary \cup {None} BY <1>2, <3>1 DEF TypeOK, Document
    <3>4. s # None BY <2>3, <3>2
    <3> QED BY <3>1, <3>2, <3>3, <3>4, SummaryCases
  <2> QED BY <1>2, <2>2, <2>3
<1> QED BY <1>1, <1>2

LEMMA InitVersions == Init => VersionsRise
<1> SUFFICES ASSUME Init PROVE VersionsRise
    OBVIOUS
<1>1. /\ Line = <<>> /\ cache = None /\ \A r \in Repos : ws.summaries[r] = None
    BY DEF Init, Line, EmptyWorkspace
<1> QED BY <1>1 DEF VersionsRise

\* What a dispatched event does to the versions on the screen.
LEMMA DispatchVersions ==
    ASSUME JobInv, VersionsRise, Dispatch, NEW r \in Repos, ws'.summaries[r] # None
    PROVE  LET v == ws'.summaries[r].ver
           IN /\ v \in Nat /\ v <= disk[r]
              /\ \A i \in DOMAIN Line : i > 1 /\ UpdateOf(Line[i], r) => v <= Line[i].ver
              /\ ws.summaries[r] # None => ws.summaries[r].ver <= v
<1> DEFINE h == Head(queue)
           v == ws'.summaries[r].ver
<1>1. /\ TypeOK /\ Reduce(h) /\ queue \in Seq(Event) /\ queue # <<>> /\ followUps = <<>>
      /\ TypeOK'
    BY LineTypes, StepTypes DEF JobInv, DebounceInv, Dispatch, LineKept, Next, Loop
<1>2. h = queue[1] /\ h \in Event /\ 1 \in DOMAIN queue BY <1>1, TailParts
<1>3. Line = queue BY <1>1, LineIsQueue DEF Line
<1>4. SummariesMove(h) BY <1>1, <1>2, ReduceWorkspace
<1>5. disk[r] \in Nat BY <1>1 DEF TypeOK
<1>6. v \in Nat BY <1>1 DEF TypeOK, Workspace, Summary
<1>7. ws.summaries[r] # None => ws.summaries[r].ver \in Nat
    BY <1>1 DEF TypeOK, Workspace, Summary
<1>8. \A i \in DOMAIN Line : UpdateOf(Line[i], r) => Line[i].ver \in Nat
  <2>1. \A i \in DOMAIN queue : queue[i] \in Event BY <1>1
  <2> QED BY <1>3, <2>1, EventFields DEF UpdateOf, ReadEvents
<1> HIDE DEF h, v
<1>9. /\ ws.summaries[r] # None => ws.summaries[r].ver <= disk[r]
      /\ \A i \in DOMAIN Line :
            UpdateOf(Line[i], r) =>
                /\ Line[i].ver <= disk[r]
                /\ ws.summaries[r] # None => ws.summaries[r].ver <= Line[i].ver
                /\ \A k \in DOMAIN Line :
                    k >= i /\ UpdateOf(Line[k], r) => Line[i].ver <= Line[k].ver
    BY DEF VersionsRise
<1>10. CASE UpdateOf(h, r)
  <2>1. v = h.ver BY <1>4, <1>10 DEF SummariesMove, v
  <2>2. 1 \in DOMAIN Line /\ Line[1] = h BY <1>2, <1>3
  <2>3. \A i \in DOMAIN Line : i > 1 => i >= 1 BY <1>1, <1>3
  <2> QED BY <1>6, <1>9, <1>10, <2>1, <2>2, <2>3 DEF v
<1>11. CASE FailureOf(h, r)
  <2>1. v = IF ws.summaries[r] = None THEN 0 ELSE ws.summaries[r].ver
      BY <1>4, <1>11 DEF SummariesMove, v
  <2> QED BY <1>5, <1>6, <1>7, <1>8, <1>9, <2>1 DEF v
<1>12. CASE ~UpdateOf(h, r) /\ ~FailureOf(h, r)
  <2>1. ws.summaries[r] # None /\ v = ws.summaries[r].ver
      BY <1>4, <1>12 DEF SummariesMove, v
  <2> QED BY <1>6, <1>7, <1>9, <2>1 DEF v
<1> QED BY <1>10, <1>11, <1>12

LEMMA StepVersions == JobInv /\ VersionsRise /\ [Next]_vars => VersionsRise'
<1> SUFFICES ASSUME JobInv, VersionsRise, [Next]_vars, NEW r \in Repos
             PROVE  /\ ws'.summaries[r] # None => ws'.summaries[r].ver <= disk'[r]
                    /\ cache' # None /\ cache'.summaries[r] # None =>
                            cache'.summaries[r].ver <= disk'[r]
                    /\ \A i \in DOMAIN Line' :
                        UpdateOf(Line'[i], r) =>
                            /\ Line'[i].ver <= disk'[r]
                            /\ ws'.summaries[r] # None => ws'.summaries[r].ver <= Line'[i].ver
                            /\ \A k \in DOMAIN Line' :
                                k >= i /\ UpdateOf(Line'[k], r) => Line'[i].ver <= Line'[k].ver
    BY DEF VersionsRise
<1>1. /\ TypeOK /\ queue \in Seq(Event) /\ Line \in Seq(Event)
    BY LineTypes DEF JobInv, DebounceInv
<1>2. disk[r] \in Nat /\ disk'[r] \in Nat /\ disk[r] <= disk'[r] BY <1>1, DiskRises
<1>3. /\ ws.summaries[r] # None => ws.summaries[r].ver \in Nat /\ ws.summaries[r].ver <= disk[r]
      /\ cache # None /\ cache.summaries[r] # None =>
            cache.summaries[r].ver \in Nat /\ cache.summaries[r].ver <= disk[r]
    BY <1>1 DEF VersionsRise, TypeOK, Workspace, Document, Summary
<1>4. \A i \in DOMAIN Line :
        UpdateOf(Line[i], r) =>
            /\ Line[i].ver \in Nat
            /\ Line[i].ver <= disk[r]
            /\ ws.summaries[r] # None => ws.summaries[r].ver <= Line[i].ver
            /\ \A k \in DOMAIN Line :
                k >= i /\ UpdateOf(Line[k], r) => Line[i].ver <= Line[k].ver
  <2>1. \A i \in DOMAIN Line : Line[i] \in Event BY <1>1
  <2> QED BY <2>1, EventFields DEF VersionsRise, UpdateOf, ReadEvents
<1>5. CASE Dispatch
  <2>1. /\ queue # <<>> /\ followUps = <<>> /\ followUps' = <<>> /\ queue' = Tail(queue)
        /\ disk' = disk /\ cache' = cache
      BY <1>5 DEF Dispatch, JobInv, LineKept, envVars
  <2>2. Line = queue BY <1>1, <2>1, LineIsQueue DEF Line
  <2>3. Line' = Tail(queue)
    <3>1. Tail(queue) \in Seq(Event) BY <1>1, <2>1, TailParts
    <3> QED BY <2>1, <3>1, LineIsQueue DEF Line
  <2>4. \A i \in DOMAIN Line' : /\ i \in Nat /\ i > 0 /\ i + 1 \in DOMAIN Line
                                /\ Line'[i] = Line[i + 1]
      BY <1>1, <2>1, <2>2, <2>3
  <2>5. ws'.summaries[r] # None =>
          /\ ws'.summaries[r].ver <= disk[r]
          /\ \A i \in DOMAIN Line : i > 1 /\ UpdateOf(Line[i], r) =>
                ws'.summaries[r].ver <= Line[i].ver
      BY <1>5, DispatchVersions
  <2>6. \A i, k \in DOMAIN Line' : /\ i + 1 > 1
                                   /\ k >= i => k + 1 >= i + 1
      BY <2>4
  <2> QED BY <1>2, <1>3, <1>4, <2>1, <2>4, <2>5, <2>6
<1>6. CASE Stop
  <2>1. ws'.summaries[r] = None BY <1>6 DEF Stop, EmptyWorkspace
  <2>2. cache' \in {cache, None} BY <1>6 DEF Stop
  <2>3. Line' = <<>> BY <1>6 DEF Stop, Line
  <2> QED BY <1>2, <1>3, <2>1, <2>2, <2>3
<1>7. CASE ~Dispatch /\ ~Stop
  <2>1. PICK t : GrowsBy(t) BY <1>7, LineGrows
  <2>2. t \in Seq(Event) /\ Line' = Line \o t BY <2>1 DEF GrowsBy
  <2>3. \A i \in DOMAIN Line' :
          \/ i \in DOMAIN Line /\ Line'[i] = Line[i]
          \/ \E k \in DOMAIN t : i = Len(Line) + k /\ Line'[i] = t[k]
      BY <1>1, <2>2, JoinedParts
  <2>4. ASSUME NEW k \in DOMAIN t, UpdateOf(t[k], r)
        PROVE  t[k].ver = disk[r] /\ disk' = disk
    <3>1. Fits(t[k], t) BY <2>1 DEF GrowsBy
    <3> QED BY <2>4, <3>1 DEF Fits, UpdateOf, ReadEvents, OutcomeKinds
  <2>5. /\ ws'.summaries[r] # None => ws'.summaries[r].ver \in Nat /\ ws'.summaries[r].ver <= disk[r]
        /\ \A i \in DOMAIN Line :
              UpdateOf(Line[i], r) /\ ws'.summaries[r] # None =>
                    ws'.summaries[r].ver <= Line[i].ver
    <3>1. CASE ws' = ws BY <1>3, <1>4, <3>1
    <3>2. CASE Boot
      <4>1. Line = <<>> BY <3>2, LineEmpty DEF Boot
      <4>2. ws'.summaries[r] # None =>
              /\ cache # None /\ cache.summaries[r] # None
              /\ ws'.summaries[r].ver = cache.summaries[r].ver
          BY <1>1, <3>2, BootLoads
      <4> QED BY <1>3, <4>1, <4>2
    <3>3. ws' = ws \/ Boot
      <4>1. phase' = "down" \/ phase' # "down" OBVIOUS
      <4>2. CASE phase' # "down" BY <1>7, <4>2, OnlyDispatch
      <4>3. CASE phase' = "down"
          BY <1>7, <4>3 DEF Next, Loop, Environment, ChangeRepo, RemoveRepo, AddRepo, TouchRepo,
                BackendFails, BackendRecovers, EndIteration, ApplyEffect, StartRepoScan,
                ConfigureWatcher, ScheduleWatcherDebounce, SpawnSummaryWorker, ReceiveSummary,
                RefreshDone, LoadRepoDetail, RunGitCommand, PersistCacheStep, UserInput, Tick,
                Run, stateVars, vars
      <4> QED BY <4>1, <4>2, <4>3
    <3> QED BY <3>1, <3>2, <3>3
  <2>6. cache' # None /\ cache'.summaries[r] # None => cache'.summaries[r].ver <= disk'[r]
    <3>1. CASE cache' \in {cache, None} BY <1>2, <1>3, <3>1
    <3>2. CASE cache' = CacheDocument
      <4>1. cache'.summaries = ws.summaries BY <3>2 DEF CacheDocument
      <4> QED BY <1>2, <1>3, <4>1
    <3> QED BY <1>7, <3>1, <3>2, CacheMoves
  <2>7. ASSUME NEW i \in DOMAIN Line', UpdateOf(Line'[i], r)
        PROVE  /\ Line'[i].ver \in Nat /\ Line'[i].ver <= disk[r] /\ Line'[i].ver <= disk'[r]
               /\ ws'.summaries[r] # None => ws'.summaries[r].ver <= Line'[i].ver
               /\ \A k \in DOMAIN Line' :
                    k >= i /\ UpdateOf(Line'[k], r) => Line'[i].ver <= Line'[k].ver
    <3>1. CASE i \in DOMAIN Line /\ Line'[i] = Line[i]
      <4>1. ASSUME NEW k \in DOMAIN Line', k >= i, UpdateOf(Line'[k], r)
            PROVE  Line'[i].ver <= Line'[k].ver
        <5>1. CASE k \in DOMAIN Line /\ Line'[k] = Line[k] BY <1>4, <2>7, <3>1, <4>1, <5>1
        <5>2. CASE \E m \in DOMAIN t : k = Len(Line) + m /\ Line'[k] = t[m]
          <6>1. Line'[k].ver = disk[r] BY <2>4, <4>1, <5>2
          <6> QED BY <1>4, <2>7, <3>1, <6>1
        <5> QED BY <2>3, <5>1, <5>2
      <4>2. /\ Line[i].ver \in Nat /\ Line[i].ver <= disk[r]
            /\ ws'.summaries[r] # None => ws'.summaries[r].ver <= Line[i].ver
          BY <1>4, <2>5, <2>7, <3>1
      <4> QED BY <1>2, <3>1, <4>1, <4>2
    <3>2. CASE \E m \in DOMAIN t : i = Len(Line) + m /\ Line'[i] = t[m]
      <4>1. PICK m \in DOMAIN t : i = Len(Line) + m /\ Line'[i] = t[m] BY <3>2
      <4>2. Line'[i].ver = disk[r] /\ disk' = disk BY <2>4, <2>7, <4>1
      <4>3. ASSUME NEW k \in DOMAIN Line', k >= i, UpdateOf(Line'[k], r)
            PROVE  Line'[k].ver = disk[r]
        <5>1. m > 0 /\ m \in Nat /\ Len(Line) \in Nat BY <1>1, <2>2, <4>1
        <5>2. k \notin DOMAIN Line BY <1>1, <4>1, <4>3, <5>1
        <5>3. PICK n \in DOMAIN t : Line'[k] = t[n] BY <2>3, <5>2
        <5> QED BY <2>4, <4>3, <5>3
      <4> QED BY <1>2, <2>5, <4>2, <4>3
    <3> QED BY <2>3, <3>1, <3>2
  <2> QED BY <1>2, <2>5, <2>6, <2>7
<1> QED BY <1>5, <1>6, <1>7

\* Within one process what is shown of a repository never gets older,
\* whatever the order in which workers hand in what they read.
THEOREM SummariesNeverGoBackHolds == Spec => SummariesNeverGoBack
<1> DEFINE Inv == JobInv /\ VersionsRise
<1>1. ASSUME Inv, [Next]_vars
      PROVE  [phase # "down" /\ phase' # "down" =>
                \A r \in Repos :
                    ws.summaries[r] # None =>
                        ws'.summaries[r] # None
                        /\ ws'.summaries[r].ver >= ws.summaries[r].ver]_vars
  <2> SUFFICES ASSUME phase # "down", phase' # "down", NEW r \in Repos, ws.summaries[r] # None
               PROVE  ws'.summaries[r] # None /\ ws'.summaries[r].ver >= ws.summaries[r].ver
      OBVIOUS
  <2>1. TypeOK BY <1>1 DEF JobInv, DebounceInv
  <2>2. ws.summaries[r].ver \in Nat BY <2>1 DEF TypeOK, Workspace, Summary
  <2>3. CASE Dispatch
    <3> DEFINE h == Head(queue)
    <3>1. Reduce(h) /\ h \in Event BY <2>1, <2>3, LineTypes, TailParts DEF Dispatch
    <3>2. SummariesMove(h) BY <2>1, <3>1, ReduceWorkspace
    <3>3. UpdateOf(h, r) => h.ver \in Nat BY <3>1, EventFields DEF UpdateOf, ReadEvents
    <3>4. ws'.summaries[r] # None
      <4> HIDE DEF h
      <4>1. CASE UpdateOf(h, r) BY <3>2, <3>3, <4>1, SummaryCases DEF SummariesMove
      <4>2. CASE ~UpdateOf(h, r) BY <3>2, <4>2 DEF SummariesMove
      <4> QED BY <4>1, <4>2
    <3>5. ws.summaries[r].ver <= ws'.summaries[r].ver /\ ws'.summaries[r].ver \in Nat
        BY <1>1, <2>3, <3>4, DispatchVersions
    <3> QED BY <2>2, <3>4, <3>5
  <2>4. CASE ~Dispatch
    <3>1. ws' = ws \/ Boot BY <1>1, <2>4, OnlyDispatch
    <3>2. ~Boot BY DEF Boot
    <3> QED BY <2>2, <3>1, <3>2
  <2> QED BY <2>3, <2>4
<1>2. Init => Inv BY InitJobs, InitVersions
<1>3. Inv /\ [Next]_vars => Inv' BY StepJobs, StepVersions
<1> QED BY <1>1, <1>2, <1>3, PTL DEF Spec, SummariesNeverGoBack

-----------------------------------------------------------------------------
(* The cache.                                                              *)

\* Between two dispatches the first effect is done, or goes on as a pool.
LEMMA EffectsShrink ==
    ASSUME JobInv, [Next]_vars, ~Dispatch, ~Stop
    PROVE  /\ ApplyEffect => effects # <<>>
           /\ ~ApplyEffect => effects' = effects
           /\ \A i \in DOMAIN effects :
                \/ \E k \in DOMAIN effects' : effects'[k] = effects[i]
                \/ i = 1 /\ ApplyEffect
           /\ \A k \in DOMAIN effects' :
                \/ \E i \in DOMAIN effects : effects'[k] = effects[i]
                \/ k = 1 /\ effects'[k].kind = "RefreshRepoSummaries"
<1>1. TypeOK /\ effects \in Seq(Effect) BY LineTypes DEF JobInv, DebounceInv
<1>2. ASSUME EffectDone, effects # <<>>
      PROVE  /\ \A i \in DOMAIN effects :
                    i = 1 \/ \E k \in DOMAIN effects' : effects'[k] = effects[i]
             /\ \A k \in DOMAIN effects' : \E i \in DOMAIN effects : effects'[k] = effects[i]
  <2>1. /\ \A i \in DOMAIN effects :
            i = 1 \/ (i - 1 \in DOMAIN Tail(effects) /\ Tail(effects)[i - 1] = effects[i])
        /\ \A k \in DOMAIN Tail(effects) :
            k + 1 \in DOMAIN effects /\ Tail(effects)[k] = effects[k + 1]
      BY <1>1, <1>2
  <2> QED BY <1>2, <2>1 DEF EffectDone
<1>3. ASSUME NEW p, NEW n, PoolBecomes(p, n), effects # <<>>
      PROVE  /\ \A i \in DOMAIN effects :
                    i = 1 \/ \E k \in DOMAIN effects' : effects'[k] = effects[i]
             /\ \A k \in DOMAIN effects' :
                    \/ \E i \in DOMAIN effects : effects'[k] = effects[i]
                    \/ k = 1 /\ effects'[k].kind = "RefreshRepoSummaries"
  <2> DEFINE q == Pool(p, n)
  <2>1. q.kind = "RefreshRepoSummaries" BY DEF Pool
  <2>2. effects' = <<q>> \o Tail(effects) BY <1>3 DEF PoolBecomes
  <2> HIDE DEF q
  <2>3. /\ \A i \in DOMAIN effects : i = 1 \/ (i \in DOMAIN effects' /\ effects'[i] = effects[i])
        /\ \A k \in DOMAIN effects' :
            \/ k = 1 /\ effects'[k] = q
            \/ k \in DOMAIN effects /\ effects'[k] = effects[k]
      BY <1>1, <1>3, <2>2
  <2> QED BY <2>1, <2>3
<1>4. CASE ApplyEffect
  <2>1. effects # <<>> /\ (EffectDone \/ \E p, n : PoolBecomes(p, n))
      BY <1>4 DEF ApplyEffect, StartRepoScan, ConfigureWatcher, ScheduleWatcherDebounce,
                  SpawnSummaryWorker, ReceiveSummary, RefreshDone, LoadRepoDetail,
                  RunGitCommand, PersistCacheStep, Applying
  <2> QED BY <1>2, <1>3, <1>4, <2>1
<1>5. CASE ~ApplyEffect
  <2>1. effects' = effects
    <3>1. CASE Environment
        BY <3>1 DEF Environment, ChangeRepo, RemoveRepo, AddRepo, TouchRepo, BackendFails,
                    BackendRecovers, loopVars
    <3>2. CASE EndIteration BY <3>2 DEF EndIteration
    <3>3. CASE Boot \/ UserInput \/ \E refresh \in BOOLEAN : Tick(refresh)
        BY <3>3 DEF Boot, UserInput, Tick, Run
    <3>4. CASE UNCHANGED vars BY <3>4 DEF vars, loopVars
    <3> QED BY <1>5, <3>1, <3>2, <3>3, <3>4 DEF Next, Loop
  <2> QED BY <1>5, <2>1
<1> QED BY <1>4, <1>5

\* Between two dispatches the workspace stays, but for a restart.
LEMMA WorkspaceStays ==
    ASSUME [Next]_vars, ~Dispatch, ~Stop
    PROVE  UNCHANGED <<ws, active, detail>> \/ Boot
<1>1. CASE phase' # "down" BY <1>1, OnlyDispatch
<1>2. CASE phase' = "down"
    BY <1>2 DEF Next, Loop, Environment, ChangeRepo, RemoveRepo, AddRepo, TouchRepo,
          BackendFails, BackendRecovers, EndIteration, ApplyEffect, StartRepoScan,
          ConfigureWatcher, ScheduleWatcherDebounce, SpawnSummaryWorker, ReceiveSummary,
          RefreshDone, LoadRepoDetail, RunGitCommand, PersistCacheStep, UserInput, Tick,
          Run, stateVars, vars
<1> QED BY <1>1, <1>2

\* What the step of a handler leaves of the queue and asks for.
LEMMA Dispatched ==
    ASSUME JobInv, Dispatch
    PROVE  LET h == Head(queue)
           IN /\ TypeOK /\ h \in Event /\ Reduce(h) /\ effects = <<>>
              /\ queue # <<>> /\ Line = queue /\ Line' = Tail(queue) /\ h = Line[1]
              /\ 1 \in DOMAIN Line
              /\ \A i \in DOMAIN Line : i = 1 \/ (i - 1 \in DOMAIN Line' /\ Line'[i - 1] = Line[i])
              /\ \A i \in DOMAIN Line' : i + 1 \in DOMAIN Line /\ Line'[i] = Line[i + 1]
              /\ \A i \in DOMAIN Line' : i \in Nat /\ i > 0
              /\ \A i \in DOMAIN Line : i \in Nat
<1>1. /\ TypeOK /\ Reduce(Head(queue)) /\ queue \in Seq(Event) /\ queue # <<>>
      /\ followUps = <<>> /\ followUps' = <<>> /\ queue' = Tail(queue)
    BY LineTypes DEF JobInv, DebounceInv, Dispatch, LineKept
<1>2. Tail(queue) \in Seq(Event) BY <1>1, TailParts
<1>3. effects = <<>> BY DEF JobInv, DebounceInv, FlushDiscipline, Dispatch
<1>4. Line = queue /\ Line' = Tail(queue) BY <1>1, <1>2, LineIsQueue DEF Line
<1>5. /\ Head(queue) \in Event /\ Head(queue) = queue[1] /\ 1 \in DOMAIN queue
      /\ \A i \in DOMAIN queue :
            i = 1 \/ (i - 1 \in DOMAIN Tail(queue) /\ Tail(queue)[i - 1] = queue[i])
      /\ \A i \in DOMAIN Tail(queue) :
            i + 1 \in DOMAIN queue /\ Tail(queue)[i] = queue[i + 1] /\ i \in Nat /\ i > 0
      /\ \A i \in DOMAIN queue : i \in Nat
    BY <1>1
<1> QED BY <1>1, <1>3, <1>4, <1>5

LEMMA StepCache ==
    ASSUME "persist" \notin env'.suffered, JobInv, CacheInv, [Next]_vars
    PROVE  CacheInv'
<1>1. TypeOK BY DEF JobInv, DebounceInv
<1>2. CASE Dispatch
  <2> DEFINE h == Head(queue)
  <2>1. h \in Event /\ Reduce(h) /\ effects = <<>> BY <1>2, Dispatched
  <2>2. SummariesMove(h) /\ ListMoves(h) BY <1>1, <2>1, ReduceWorkspace
  <2>3. /\ h.kind = "RepoScanCompleted" => effects' = ScanEffects(h.repos)
        /\ h.kind = "RepoSummaryUpdated" => effects' = <<PersistCache>>
      BY <1>1, <2>1, ReduceAsks
  <2>4. cache' = cache BY <1>2 DEF Dispatch
  <2>5. CacheHolds BY <2>1 DEF CacheInv
  <2> HIDE DEF h
  <2>6. CASE h.kind = "RepoScanCompleted"
    <3>1. 3 \in DOMAIN effects' /\ effects'[3] = PersistCache
        BY <2>3, <2>6 DEF ScanEffects
    <3> QED BY <3>1 DEF CacheInv, PersistCache, Plain
  <2>7. CASE h.kind = "RepoSummaryUpdated"
    <3>1. 1 \in DOMAIN effects' /\ effects'[1] = PersistCache BY <2>3, <2>7
    <3> QED BY <3>1 DEF CacheInv, PersistCache, Plain
  <2>8. CASE h.kind \notin {"RepoScanCompleted", "RepoSummaryUpdated"}
    <3>1. ws'.discovered = ws.discovered BY <2>2, <2>8 DEF ListMoves
    <3>2. ASSUME NEW r \in Repos, ws'.summaries[r] # None, ws'.summaries[r].ver > 0
          PROVE  ws.summaries[r] # None /\ ws'.summaries[r].ver = ws.summaries[r].ver
      <4>1. ~UpdateOf(h, r) BY <2>8 DEF UpdateOf
      <4> QED BY <2>2, <3>2, <4>1 DEF SummariesMove
    <3> QED BY <2>4, <2>5, <3>1, <3>2 DEF CacheInv, CacheHolds
  <2> QED BY <2>6, <2>7, <2>8
<1>3. CASE Stop
  <2>1. ws'.discovered = {} BY <1>3 DEF Stop, EmptyWorkspace
  <2> QED BY <2>1 DEF CacheInv, CacheHolds
<1>4. CASE ~Dispatch /\ ~Stop
  <2>1. CASE Boot
    <3>1. effects = <<>> /\ cache' = cache BY <2>1, LineEmpty DEF Boot
    <3>2. CacheHolds BY <3>1 DEF CacheInv
    <3>3. /\ ws'.discovered # {} => cache # None /\ ws'.discovered = cache.discovered
          /\ \A r \in Repos :
                ws'.summaries[r] # None =>
                    /\ cache.summaries[r] # None
                    /\ ws'.summaries[r].ver = cache.summaries[r].ver
        BY <1>1, <2>1, BootLoads
    <3> QED BY <3>1, <3>3 DEF CacheInv, CacheHolds
  <2>2. CASE ws' = ws /\ PersistCacheStep
    <3>1. cache' = CacheDocument BY <1>4, <2>2, CacheMoves
    <3>2. CacheDocument \in Document
        BY <1>1 DEF CacheDocument, Document, TypeOK, Workspace
    <3>3. cache' # None BY <3>1, <3>2, OptionAssumption DEF OptionAssumption
    <3>4. cache'.discovered = ws.discovered /\ cache'.summaries = ws.summaries
        BY <3>1 DEF CacheDocument
    <3> QED BY <2>2, <3>3, <3>4 DEF CacheInv, CacheHolds
  <2>3. CASE ws' = ws /\ ~PersistCacheStep
    <3>1. cache' = cache BY <1>4, <2>3, CacheMoves
    <3>2. CASE CacheHolds BY <2>3, <3>1, <3>2 DEF CacheInv, CacheHolds
    <3>3. ASSUME NEW i \in DOMAIN effects, effects[i].kind = "PersistCache"
          PROVE  CacheInv'
      <4>1. \/ \E k \in DOMAIN effects' : effects'[k] = effects[i]
            \/ i = 1 /\ ApplyEffect
          BY <1>4, EffectsShrink
      <4>2. ASSUME i = 1, ApplyEffect PROVE FALSE
        <5>1. Head(effects).kind = "PersistCache"
          <6>1. effects # <<>> BY <1>4, <4>2, EffectsShrink
          <6> QED BY <3>3, <4>2, <6>1, Applied
        <5> QED BY <2>3, <4>2, <5>1
              DEF ApplyEffect, StartRepoScan, ConfigureWatcher, ScheduleWatcherDebounce,
                  SpawnSummaryWorker, ReceiveSummary, RefreshDone, LoadRepoDetail,
                  RunGitCommand, Applying
      <4> QED BY <3>3, <4>1, <4>2 DEF CacheInv
    <3> QED BY <3>2, <3>3 DEF CacheInv
  <2> QED BY <1>4, <2>1, <2>2, <2>3, WorkspaceStays
<1> QED BY <1>2, <1>3, <1>4

\* Unless a write of the cache fails, the cache file holds, whenever run()
\* has returned, the list and the versions on the screen.
THEOREM CacheMatchesHolds == Spec => []CacheMatchesWhenIdle
<1> DEFINE Inv == JobInv /\ ("persist" \in env.suffered \/ CacheInv)
<1>1. Init => Inv
  <2>1. Init => CacheInv
    <3>1. EmptyWorkspace.discovered = {} BY DEF EmptyWorkspace
    <3> QED BY <3>1 DEF Init, CacheInv, CacheHolds
  <2> QED BY <2>1, InitJobs
<1>2. Inv /\ [Next]_vars => Inv'
  <2> SUFFICES ASSUME JobInv, "persist" \in env.suffered \/ CacheInv, [Next]_vars,
                      "persist" \notin env'.suffered
               PROVE  CacheInv'
      BY StepJobs
  <2>1. "persist" \notin env.suffered BY FaultsRemembered DEF JobInv, DebounceInv
  <2> QED BY <2>1, StepCache
<1>3. Inv => CacheMatchesWhenIdle
  <2> SUFFICES ASSUME JobInv, CacheInv, phase = "idle" PROVE CacheHolds
      BY DEF CacheMatchesWhenIdle, CacheHolds
  <2>1. effects = <<>> BY LineEmpty
  <2> QED BY <2>1 DEF CacheInv
<1> QED BY <1>1, <1>2, <1>3, PTL DEF Spec

-----------------------------------------------------------------------------
(* Freshness.                                                              *)

LEMMA OutcomeForms ==
    \A e, r : r \in Repos =>
        (Outcome(e, r) <=> /\ e.kind \in {"RepoSummaryUpdated", "RepoSummaryRefreshFailed"}
                           /\ e.repo = r)
<1> SUFFICES ASSUME NEW e, NEW r \in Repos
             PROVE  Outcome(e, r) <=> /\ e.kind \in {"RepoSummaryUpdated", "RepoSummaryRefreshFailed"}
                                      /\ e.repo = r
    OBVIOUS
<1>1. PICK j \in Worked : j = <<"summary-refresh", r>> BY JobParts
<1>2. j[1] = "summary-refresh" /\ j[2] = r BY <1>1
<1> QED BY <1>1, <1>2, JobEvents DEF Outcome

\* The places of a line that has grown.
LEMMA GrownParts ==
    ASSUME JobInv, NEW t, GrowsBy(t)
    PROVE  /\ Line \in Seq(Event) /\ t \in Seq(Event)
           /\ \A i \in DOMAIN Line : i \in DOMAIN Line' /\ Line'[i] = Line[i]
           /\ \A k \in DOMAIN t : Len(Line) + k \in DOMAIN Line' /\ Line'[Len(Line) + k] = t[k]
           /\ \A i \in DOMAIN Line' :
                \/ i \in DOMAIN Line /\ Line'[i] = Line[i]
                \/ \E k \in DOMAIN t : i = Len(Line) + k /\ Line'[i] = t[k]
<1>1. TypeOK BY DEF JobInv, DebounceInv
<1>2. Line \in Seq(Event) /\ t \in Seq(Event) /\ Line' = Line \o t
    BY <1>1, LineTypes DEF GrowsBy
<1> QED BY <1>2, JoinedParts

\* An outcome that has just been handed in is the last one, and right.
LEMMA LastArrives ==
    ASSUME JobInv, NEW t, GrowsBy(t), NEW r \in Repos, NEW k \in DOMAIN t, Outcome(t[k], r)
    PROVE  LastTells(r)'
<1>1. Fits(t[k], t) BY DEF GrowsBy
<1>2. t[k].kind \in {"RepoSummaryUpdated", "RepoSummaryRefreshFailed"} /\ t[k].repo = r
    BY OutcomeForms
<1>3. Len(t) = 1 /\ UNCHANGED <<present, disk>> BY <1>1, <1>2 DEF Fits, OutcomeKinds
<1>4. /\ Line \in Seq(Event) /\ t \in Seq(Event) /\ Line' = Line \o t
      /\ Len(Line) + k \in DOMAIN Line' /\ Line'[Len(Line) + k] = t[k]
    BY GrownParts DEF GrowsBy
<1>5. /\ t[k].kind = "RepoSummaryRefreshFailed"
      \/ (r \in present' /\ t[k].ver = disk'[r])
    BY <1>1, <1>2, <1>3 DEF Fits, ReadEvents
<1>6. \A m \in DOMAIN Line' : m <= Len(Line) + k
  <2>1. \A m \in DOMAIN Line' : m \in DOMAIN Line \/ \E n \in DOMAIN t : m = Len(Line) + n
      BY GrownParts
  <2>2. DOMAIN t = 1..1 BY <1>3, <1>4
  <2>3. \A m \in DOMAIN Line : m \in Nat /\ m <= Len(Line) BY <1>4
  <2>4. Len(Line) \in Nat BY <1>4
  <2> QED BY <2>1, <2>2, <2>3, <2>4
<1> QED BY <1>4, <1>5, <1>6 DEF LastTells, Tells

\* As long as the repository stays as it is, what is under way stays right.
LEMMA LastKept ==
    ASSUME JobInv, NEW t, GrowsBy(t), NEW r \in Repos, LastTells(r), ws' = ws,
           disk'[r] = disk[r], r \in present' <=> r \in present
    PROVE  LastTells(r)'
<1>1. CASE \E k \in DOMAIN t : Outcome(t[k], r) BY <1>1, LastArrives
<1>2. CASE \A k \in DOMAIN t : ~Outcome(t[k], r)
  <2>1. \A i \in DOMAIN Line' : Outcome(Line'[i], r) => i \in DOMAIN Line /\ Line'[i] = Line[i]
      BY <1>2, GrownParts
  <2>2. CASE (\A i \in DOMAIN Line : ~Outcome(Line[i], r)) /\ ShownRight(r)
    <3>1. \A i \in DOMAIN Line' : ~Outcome(Line'[i], r) BY <2>1, <2>2
    <3>2. ShownRight(r)' BY <2>2 DEF ShownRight
    <3> QED BY <3>1, <3>2 DEF LastTells
  <2>3. ASSUME NEW i \in DOMAIN Line, Outcome(Line[i], r), Tells(Line[i], r),
               \A k \in DOMAIN Line : Outcome(Line[k], r) => k <= i
        PROVE  LastTells(r)'
    <3>1. i \in DOMAIN Line' /\ Line'[i] = Line[i] BY GrownParts
    <3>2. \A k \in DOMAIN Line' : Outcome(Line'[k], r) => k <= i BY <2>1, <2>3
    <3>3. Line[i].kind = "RepoSummaryRefreshFailed" \/ (r \in present' /\ Line[i].ver = disk'[r])
        BY <2>3 DEF Tells
    <3> QED BY <2>3, <3>1, <3>2, <3>3 DEF LastTells, Tells
  <2> QED BY <2>2, <2>3 DEF LastTells
<1> QED BY <1>1, <1>2

\* A watch that counts as lost stays lost until news of it arrive.
LEMMA LostKept ==
    ASSUME JobInv, NEW t, GrowsBy(t), WatchLost, \A k \in DOMAIN t : ~WatchNews(t[k]),
           ws' = ws, watcher'.configured = watcher.configured
    PROVE  WatchLost'
<1>1. \A i \in DOMAIN Line' : WatchNews(Line'[i]) => i \in DOMAIN Line /\ Line'[i] = Line[i]
    BY GrownParts
<1>2. CASE ~watcher.configured BY <1>2 DEF WatchLost
<1>3. CASE (\A i \in DOMAIN Line : ~WatchNews(Line[i])) /\ ws.health # "Healthy"
    BY <1>1, <1>3 DEF WatchLost
<1>4. ASSUME NEW i \in DOMAIN Line, Line[i].kind = "WatcherDegraded",
             \A k \in DOMAIN Line : WatchNews(Line[k]) => k <= i
      PROVE  WatchLost'
  <2>1. i \in DOMAIN Line' /\ Line'[i] = Line[i] BY GrownParts
  <2> QED BY <1>1, <1>4, <2>1 DEF WatchLost
<1> QED BY <1>2, <1>3, <1>4 DEF WatchLost

\* What an effect reports is all the line grows by.
LEMMA OneArrives ==
    ASSUME JobInv, NEW t, GrowsBy(t), NEW e \in Event, FollowUp(e), queue' = queue
    PROVE  1 \in DOMAIN t /\ t[1] = e
<1>1. Line' = Line \o <<e>> /\ <<e>> \in Seq(Event)
    BY OneFollows DEF JobInv, DebounceInv
<1>2. Line \in Seq(Event) /\ t \in Seq(Event) /\ Line' = Line \o t
    BY GrownParts DEF GrowsBy
<1>3. Len(t) = 1
  <2>1. Len(Line \o t) = Len(Line) + Len(t) /\ Len(Line \o <<e>>) = Len(Line) + 1
      BY <1>1, <1>2
  <2> QED BY <1>1, <1>2, <2>1
<1>4. 1 \in DOMAIN t BY <1>2, <1>3
<1>5. (Line \o t)[Len(Line) + 1] = t[1]
  <2>1. \A n \in DOMAIN t : (Line \o t)[Len(Line) + n] = t[n] BY <1>2, JoinedParts
  <2> QED BY <1>4, <2>1, Zenon
<1>6. (Line \o <<e>>)[Len(Line) + 1] = e
  <2>1. 1 \in DOMAIN <<e>> /\ <<e>>[1] = e OBVIOUS
  <2>2. \A n \in DOMAIN <<e>> : (Line \o <<e>>)[Len(Line) + n] = <<e>>[n]
      BY <1>1, <1>2, JoinedParts
  <2> QED BY <2>1, <2>2, Zenon
<1>7. t[1] = e BY <1>1, <1>2, <1>5, <1>6, Zenon
<1> QED BY <1>4, <1>7

\* A repository leaves the pool only with an outcome.
LEMMA PoolKept ==
    ASSUME JobInv, [Next]_vars, ~Dispatch, ~Stop, NEW t, GrowsBy(t), NEW r \in Repos,
           NEW i \in DOMAIN effects, InPool(effects[i], r)
    PROVE  \/ \E k \in DOMAIN effects' : InPool(effects'[k], r)
           \/ \E k \in DOMAIN t : Outcome(t[k], r)
<1>1. CASE \E k \in DOMAIN effects' : effects'[k] = effects[i] BY <1>1
<1>2. CASE i = 1 /\ ApplyEffect
  <2>1. /\ effects # <<>> /\ Head(effects) = effects[1] /\ TypeOK
        /\ Tail(effects) \in Seq(Effect)
      BY <1>2, EffectsShrink, Applied
  <2> DEFINE f == Head(effects)
  <2>2. InPool(f, r) /\ f.kind = "RefreshRepoSummaries" BY <1>2, <2>1 DEF InPool
  <2>3. ASSUME NEW p, NEW n, PoolBecomes(p, n), r \in p \/ r \in n
        PROVE  \E k \in DOMAIN effects' : InPool(effects'[k], r)
    <3> DEFINE q == Pool(p, n)
    <3>1. InPool(q, r) BY <2>3 DEF Pool, InPool
    <3>2. effects' = <<q>> \o Tail(effects) BY <2>3 DEF PoolBecomes
    <3> HIDE DEF q
    <3>3. 1 \in DOMAIN effects' /\ effects'[1] = q BY <2>1, <3>2
    <3> QED BY <3>1, <3>3
  <2>4. CASE SpawnSummaryWorker
    <3>1. PICK s \in f.pending : PoolBecomes(f.pending \ {s}, f.running \cup {s})
        BY <2>4 DEF SpawnSummaryWorker
    <3>2. r \in f.pending \ {s} \/ r \in f.running \cup {s} BY <2>2 DEF InPool
    <3> HIDE DEF f
    <3> QED BY <2>3, <3>1, <3>2
  <2>5. CASE ReceiveSummary
    <3>1. PICK s \in f.running :
            /\ PoolBecomes(f.pending, f.running \ {s})
            /\ \/ FollowUp([kind |-> "RepoSummaryUpdated", repo |-> s, ver |-> disk[s]])
               \/ FollowUp(About("RepoSummaryRefreshFailed", s))
        BY <2>5 DEF ReceiveSummary
    <3>2. CASE s # r
      <4>1. r \in f.pending \/ r \in f.running \ {s} BY <2>2, <3>2 DEF InPool
      <4> HIDE DEF f
      <4> QED BY <2>3, <3>1, <4>1
    <3>3. CASE s = r
      <4>1. disk[r] \in Nat BY <2>1 DEF TypeOK
      <4>2. PICK e \in Event : FollowUp(e) /\ e.repo = r
                               /\ e.kind \in {"RepoSummaryUpdated", "RepoSummaryRefreshFailed"}
        <5> DEFINE u == [kind |-> "RepoSummaryUpdated", repo |-> r, ver |-> disk[r]]
                   x == About("RepoSummaryRefreshFailed", r)
        <5>1. /\ u \in Event /\ u.kind = "RepoSummaryUpdated" /\ u.repo = r
              /\ x \in Event /\ x.kind = "RepoSummaryRefreshFailed" /\ x.repo = r
            BY <4>1, EventForms DEF RepoEvents, ReadEvents, About
        <5>2. FollowUp(u) \/ FollowUp(x) BY <3>1, <3>3
        <5> HIDE DEF u, x
        <5> QED BY <5>1, <5>2
      <4>3. queue' = queue BY <2>5 DEF ReceiveSummary
      <4>4. 1 \in DOMAIN t /\ t[1] = e BY <4>2, <4>3, OneArrives
      <4>5. Outcome(t[1], r) BY <4>2, <4>4, OutcomeForms
      <4> QED BY <4>4, <4>5
    <3> QED BY <3>2, <3>3
  <2>6. CASE RefreshDone
    <3>1. f.pending = {} /\ f.running = {} BY <2>6 DEF RefreshDone
    <3> QED BY <2>2, <3>1 DEF InPool
  <2>7. SpawnSummaryWorker \/ ReceiveSummary \/ RefreshDone
      BY <1>2, <2>2 DEF ApplyEffect, StartRepoScan, ConfigureWatcher, ScheduleWatcherDebounce,
          LoadRepoDetail, RunGitCommand, PersistCacheStep, Applying
  <2> QED BY <2>4, <2>5, <2>6, <2>7
<1> QED BY <1>1, <1>2, EffectsShrink

\* A repository that changes is reported if it is watched; one that appears
\* is not.
LEMMA ChangesNotify ==
    ASSUME TypeOK, [Next]_vars, NEW r \in Repos
    PROVE  \/ disk'[r] = disk[r] /\ (r \in present' <=> r \in present)
           \/ Notify(r)
           \/ AddRepo(r)
<1>1. disk \in [Repos -> Nat] BY DEF TypeOK
<1>2. CASE Environment
  <2>1. CASE ChangeRepo(r) \/ RemoveRepo(r) \/ AddRepo(r) \/ TouchRepo(r)
      BY <2>1 DEF ChangeRepo, RemoveRepo, TouchRepo
  <2>2. ASSUME NEW q \in Repos, q # r,
               ChangeRepo(q) \/ RemoveRepo(q) \/ AddRepo(q) \/ TouchRepo(q)
        PROVE  disk'[r] = disk[r] /\ (r \in present' <=> r \in present)
      BY <1>1, <2>2 DEF ChangeRepo, RemoveRepo, AddRepo, TouchRepo
  <2>3. CASE BackendFails \/ BackendRecovers
      BY <2>3 DEF BackendFails, BackendRecovers, envVars
  <2> QED BY <1>2, <2>1, <2>2, <2>3 DEF Environment
<1>3. CASE RunGitCommand
  <2>1. CASE disk' = disk BY <1>3, <2>1 DEF RunGitCommand
  <2>2. ASSUME NEW q, disk' = [disk EXCEPT ![q] = @ + 1], Notify(q), q = r \/ q # r
        PROVE  Notify(r) \/ disk'[r] = disk[r]
      BY <1>1, <2>2
  <2> QED BY <1>3, <2>1, <2>2 DEF RunGitCommand
<1>4. CASE Loop /\ ~RunGitCommand
    BY <1>4 DEF Loop, Dispatch, EndIteration, ApplyEffect, StartRepoScan, ConfigureWatcher,
                ScheduleWatcherDebounce, SpawnSummaryWorker, ReceiveSummary, RefreshDone,
                LoadRepoDetail, PersistCacheStep, envVars
<1>5. CASE Boot \/ UserInput \/ (\E refresh \in BOOLEAN : Tick(refresh)) \/ Stop
    BY <1>5 DEF Boot, UserInput, Tick, Run, Stop, envVars
<1>6. CASE UNCHANGED vars BY <1>6 DEF vars, envVars
<1> QED BY <1>2, <1>3, <1>4, <1>5, <1>6 DEF Next
\* What the watcher and its backlog go through while the backend does not fail.
LEMMA WatcherMoves ==
    ASSUME "backend" \notin env'.suffered, TypeOK, WatchFirst, [Next]_vars, ~Stop
    PROVE  /\ \/ watcher' = watcher
              \/ /\ ConfigureWatcher /\ FollowUp(Plain("WatcherRecovered"))
                 /\ watcher'.configured /\ watcher'.up
                 /\ watcher'.paths = Head(effects).repos
           /\ \/ backendQ' \in {backendQ, <<>>}
              \/ \E r : backendQ' = Append(backendQ, About("RepoInvalidated", r))
           /\ phase' = "down" => phase = "down"
<1>1. watcher.configured => watcher.up BY DEF WatchFirst
<1>2. CASE Environment
  <2>1. ~BackendFails /\ ~BackendRecovers BY <1>1 DEF BackendFails, BackendRecovers, Fault
  <2>2. PICK r \in Repos : ChangeRepo(r) \/ RemoveRepo(r) \/ AddRepo(r) \/ TouchRepo(r)
      BY <1>2, <2>1 DEF Environment
  <2> QED BY <2>2 DEF ChangeRepo, RemoveRepo, AddRepo, TouchRepo, Notify, loopVars, backendVars
<1>3. CASE Dispatch BY <1>3 DEF Dispatch, backendVars
<1>4. CASE EndIteration BY <1>4 DEF EndIteration
<1>5. CASE ConfigureWatcher
  <2> DEFINE w == [watcher EXCEPT !.configured = TRUE, !.up = TRUE,
                                  !.paths = Head(effects).repos]
  <2>1. w.configured /\ w.up /\ w.paths = Head(effects).repos BY DEF TypeOK, Watchers
  <2>2. \/ watcher' = w /\ FollowUp(Plain("WatcherRecovered"))
        \/ watcher' = watcher
      BY <1>5 DEF ConfigureWatcher
  <2>3. backendQ' = backendQ /\ phase' = phase BY <1>5 DEF ConfigureWatcher
  <2> HIDE DEF w
  <2> QED BY <1>5, <2>1, <2>2, <2>3
<1>6. CASE RunGitCommand BY <1>6 DEF RunGitCommand, Applying, Notify
<1>7. CASE ApplyEffect /\ ~ConfigureWatcher /\ ~RunGitCommand
    BY <1>7 DEF ApplyEffect, StartRepoScan, ScheduleWatcherDebounce, SpawnSummaryWorker,
                ReceiveSummary, RefreshDone, LoadRepoDetail, PersistCacheStep, Applying,
                backendVars
<1>8. CASE Boot \/ UserInput \/ \E refresh \in BOOLEAN : Tick(refresh)
    BY <1>8 DEF Boot, UserInput, Tick, Run, backendVars
<1>9. CASE UNCHANGED vars BY <1>9 DEF vars, backendVars, loopVars
<1> QED BY <1>2, <1>3, <1>4, <1>5, <1>6, <1>7, <1>8, <1>9 DEF Next, Loop

\* A watch is asked for as long as it has not been applied.
LEMMA AskedKept ==
    ASSUME JobInv, WatchFirst, [Next]_vars, ~Dispatch, ~Stop
    PROVE  /\ WatchAsked' => effects' = effects /\ WatchAsked
           /\ WatchAsked => effects' = effects \/ ConfigureWatcher
           /\ ConfigureWatcher => /\ WatchAsked /\ effects = ScanEffects(ws.discovered)
                                  /\ effects' = Tail(effects)
<1>1. ASSUME WatchAsked
      PROVE  /\ effects = ScanEffects(ws.discovered) /\ effects # <<>>
             /\ Head(effects) = Watch(ws.discovered)
             /\ Head(effects).kind = "ConfigureWatcher"
  <2>1. effects = ScanEffects(ws.discovered) BY <1>1 DEF WatchFirst
  <2> DEFINE a == Watch(ws.discovered)
             b == Refresh(ws.discovered)
  <2>2. a.kind = "ConfigureWatcher" BY DEF Watch
  <2>3. effects = <<a, b, PersistCache>> BY <2>1 DEF ScanEffects
  <2> HIDE DEF a, b
  <2>4. effects # <<>> /\ Head(effects) = a BY <2>3
  <2> QED BY <2>1, <2>2, <2>4 DEF a
<1>2. ASSUME ApplyEffect, WatchAsked PROVE ConfigureWatcher
    BY <1>1, <1>2 DEF ApplyEffect, StartRepoScan, ScheduleWatcherDebounce, SpawnSummaryWorker,
          ReceiveSummary, RefreshDone, LoadRepoDetail, RunGitCommand, PersistCacheStep, Applying
<1>3. ~ApplyEffect => effects' = effects BY EffectsShrink
<1>4. ASSUME ConfigureWatcher
      PROVE  /\ WatchAsked /\ effects = ScanEffects(ws.discovered) /\ effects' = Tail(effects)
             /\ ~WatchAsked'
  <2>1. /\ effects # <<>> /\ Head(effects).kind = "ConfigureWatcher" /\ effects' = Tail(effects)
      BY <1>4 DEF ConfigureWatcher, Applying, EffectDone
  <2>2. TypeOK /\ effects \in Seq(Effect) BY LineTypes DEF JobInv, DebounceInv
  <2>3. 1 \in DOMAIN effects /\ Head(effects) = effects[1] BY <2>1, <2>2
  <2>4. WatchAsked BY <2>1, <2>3 DEF WatchAsked
  <2> DEFINE a == Watch(ws.discovered)
             b == Refresh(ws.discovered)
  <2>5. b.kind # "ConfigureWatcher" /\ PersistCache.kind # "ConfigureWatcher"
      BY DEF Refresh, Pool, PersistCache, Plain
  <2>6. effects = <<a, b, PersistCache>> BY <1>1, <2>4 DEF ScanEffects
  <2> HIDE DEF a, b
  <2>7. effects' = <<b, PersistCache>> BY <2>1, <2>6
  <2>8. \A i \in DOMAIN effects' : effects'[i].kind # "ConfigureWatcher" BY <2>5, <2>7
  <2> QED BY <1>1, <2>1, <2>4, <2>8 DEF WatchAsked
<1>5. ASSUME WatchAsked' PROVE effects' = effects /\ WatchAsked
  <2>1. ApplyEffect => WatchAsked
    <3>1. PICK k \in DOMAIN effects' : effects'[k].kind = "ConfigureWatcher"
        BY <1>5 DEF WatchAsked
    <3>2. \/ \E i \in DOMAIN effects : effects'[k] = effects[i]
          \/ k = 1 /\ effects'[k].kind = "RefreshRepoSummaries"
        BY <3>1, EffectsShrink
    <3> QED BY <3>1, <3>2 DEF WatchAsked
  <2>2. ~ApplyEffect BY <1>2, <1>4, <1>5, <2>1
  <2> QED BY <1>3, <1>5, <2>2 DEF WatchAsked
<1> QED BY <1>1, <1>2, <1>3, <1>4, <1>5

\* Outside of handlers and restarts the list of repositories stays.
LEMMA LoopStays ==
    ASSUME [Next]_vars, ~Dispatch, ~Stop, phase # "down"
    PROVE  UNCHANGED <<ws, active, detail>>
    BY WorkspaceStays DEF Boot

\* News of the watch come from the watcher itself.
LEMMA NewsFits ==
    ASSUME WatchFirst, NEW t, GrowsBy(t), ~ConfigureWatcher
    PROVE  \A k \in DOMAIN t : ~WatchNews(t[k])
    BY DEF GrowsBy, Fits, WatchFirst, WatchNews
\* What the line tells last of a repository, a handler shows.
LEMMA DispatchTells ==
    ASSUME NEW h \in Event, NEW r \in Repos, TypeOK, SummariesMove(h), LastTells(r),
           UNCHANGED <<present, disk>>, h = Line[1], 1 \in DOMAIN Line,
           \A i \in DOMAIN Line : i = 1 \/ (i - 1 \in DOMAIN Line' /\ Line'[i - 1] = Line[i]),
           \A i \in DOMAIN Line' : i + 1 \in DOMAIN Line /\ Line'[i] = Line[i + 1],
           \A i \in DOMAIN Line' : i \in Nat /\ i > 0,
           \A i \in DOMAIN Line : i \in Nat
    PROVE  LastTells(r)'
<1>1. PICK s, n : s = ws.summaries[r] /\ n = ws'.summaries[r] OBVIOUS
<1>2. /\ UpdateOf(h, r) => n = [ver |-> h.ver, fresh |-> "Fresh", error |-> FALSE]
      /\ FailureOf(h, r) => n # None /\ n.error
      /\ h.kind = "WatcherDegraded" =>
           IF s = None THEN n = None
           ELSE n # None /\ n.ver = s.ver /\ n.error = s.error /\ n.fresh = "Stale"
      /\ ~UpdateOf(h, r) /\ ~FailureOf(h, r) /\ h.kind # "WatcherDegraded" => n = s
    BY <1>1 DEF SummariesMove
<1>3. Outcome(h, r) <=> UpdateOf(h, r) \/ FailureOf(h, r)
    BY OutcomeForms DEF UpdateOf, FailureOf
<1>4. ShownRight(r) <=>
        s # None /\ (s.error \/ (r \in present /\ (s.fresh = "Fresh" => s.ver = disk[r])))
    BY <1>1 DEF ShownRight
<1>5. ShownRight(r)' <=>
        n # None /\ (n.error \/ (r \in present' /\ (n.fresh = "Fresh" => n.ver = disk'[r])))
    BY <1>1 DEF ShownRight
<1>6. CASE (\A i \in DOMAIN Line : ~Outcome(Line[i], r)) /\ ShownRight(r)
  <2>1. ~UpdateOf(h, r) /\ ~FailureOf(h, r) BY <1>3, <1>6
  <2>2. ShownRight(r)' BY <1>2, <1>4, <1>5, <1>6, <2>1
  <2>3. \A i \in DOMAIN Line' : ~Outcome(Line'[i], r) BY <1>6
  <2> QED BY <2>2, <2>3 DEF LastTells
<1>7. ASSUME NEW i \in DOMAIN Line, Outcome(Line[i], r), Tells(Line[i], r),
             \A k \in DOMAIN Line : Outcome(Line[k], r) => k <= i
      PROVE  LastTells(r)'
  <2>1. CASE i = 1
    <3>1. UpdateOf(h, r) \/ FailureOf(h, r) BY <1>3, <1>7, <2>1
    <3>2. ShownRight(r)'
      <4>1. CASE FailureOf(h, r) BY <1>2, <1>5, <4>1
      <4>2. CASE UpdateOf(h, r)
        <5>1. r \in present /\ h.ver = disk[r] /\ disk[r] \in Nat
            BY <1>7, <2>1, <4>2 DEF Tells, UpdateOf, TypeOK
        <5>2. n # None /\ n.ver = disk[r] BY <1>2, <4>2, <5>1, SummaryCases
        <5> QED BY <1>5, <5>1, <5>2
      <4> QED BY <3>1, <4>1, <4>2
    <3>3. ASSUME NEW k \in DOMAIN Line', Outcome(Line'[k], r) PROVE FALSE
      <4>1. k + 1 \in DOMAIN Line /\ Outcome(Line[k + 1], r) /\ k \in Nat /\ k > 0 BY <3>3
      <4>2. k + 1 <= 1 BY <1>7, <2>1, <4>1
      <4> QED BY <4>1, <4>2
    <3> QED BY <3>2, <3>3 DEF LastTells
  <2>2. CASE i # 1
    <3>1. i - 1 \in DOMAIN Line' /\ Line'[i - 1] = Line[i] /\ i \in Nat BY <2>2
    <3>2. ASSUME NEW k \in DOMAIN Line', Outcome(Line'[k], r) PROVE k <= i - 1
      <4>1. k + 1 \in DOMAIN Line /\ Outcome(Line[k + 1], r) /\ k \in Nat BY <3>2
      <4>2. k + 1 <= i BY <1>7, <4>1
      <4> QED BY <3>1, <4>1, <4>2
    <3>3. Line[i].kind = "RepoSummaryRefreshFailed" \/ (r \in present' /\ Line[i].ver = disk'[r])
        BY <1>7 DEF Tells
    <3> QED BY <1>7, <3>1, <3>2, <3>3 DEF LastTells, Tells
  <2> QED BY <2>1, <2>2
<1> QED BY <1>6, <1>7 DEF LastTells

LEMMA WatchFirstKept ==
    ASSUME "backend" \notin env'.suffered, JobInv, WatchFirst, [Next]_vars
    PROVE  /\ WatchAsked' => effects' = ScanEffects(ws'.discovered)
           /\ watcher'.configured => watcher'.up /\ phase' # "down"
           /\ \A i \in DOMAIN backendQ' : ~WatchNews(backendQ'[i])
<1>1. TypeOK /\ backendQ \in Seq(Event) BY LineTypes DEF JobInv, DebounceInv
<1>2. CASE Stop
  <2>1. effects' = <<>> /\ backendQ' = <<>> /\ ~watcher'.configured
      BY <1>2 DEF Stop, Unconfigured
  <2> QED BY <2>1 DEF WatchAsked
<1>3. CASE ~Stop
  <2>1. \A i \in DOMAIN backendQ' : ~WatchNews(backendQ'[i])
    <3>1. \A i \in DOMAIN backendQ : ~WatchNews(backendQ[i]) BY DEF WatchFirst
    <3>2. ASSUME NEW r, backendQ' = Append(backendQ, About("RepoInvalidated", r))
          PROVE  \A i \in DOMAIN backendQ' : ~WatchNews(backendQ'[i])
      <4> DEFINE e == About("RepoInvalidated", r)
      <4>1. ~WatchNews(e) BY DEF About, WatchNews
      <4> HIDE DEF e
      <4>2. \A i \in DOMAIN backendQ' : \/ backendQ'[i] = e
                                        \/ i \in DOMAIN backendQ /\ backendQ'[i] = backendQ[i]
          BY <1>1, <3>2 DEF e
      <4> QED BY <3>1, <4>1, <4>2
    <3> QED BY <1>1, <1>3, <3>1, <3>2, WatcherMoves
  <2>2. watcher'.configured => watcher'.up /\ phase' # "down"
    <3>1. watcher' = watcher \/ (ConfigureWatcher /\ watcher'.up) BY <1>1, <1>3, WatcherMoves
    <3>2. ConfigureWatcher => phase # "down" BY DEF ConfigureWatcher, Applying
    <3>3. phase' = "down" => phase = "down" BY <1>1, <1>3, WatcherMoves
    <3> QED BY <3>1, <3>2, <3>3 DEF WatchFirst
  <2>3. WatchAsked' => effects' = ScanEffects(ws'.discovered)
    <3>1. CASE Dispatch
      <4>1. PICK h \in Event : Reduce(h) BY <3>1, Dispatched
      <4>2. /\ h.kind = "RepoScanCompleted" => effects' = ScanEffects(h.repos)
            /\ h.kind # "RepoScanCompleted" =>
                 \A i \in DOMAIN effects' : effects'[i].kind # "ConfigureWatcher"
          BY <1>1, <4>1, ReduceAsks
      <4>3. ListMoves(h) BY <1>1, <4>1, ReduceWorkspace
      <4> QED BY <4>2, <4>3 DEF WatchAsked, ListMoves
    <3>2. CASE ~Dispatch
      <4> SUFFICES ASSUME WatchAsked' PROVE effects' = ScanEffects(ws'.discovered)
          OBVIOUS
      <4>1. effects' = effects /\ WatchAsked BY <1>3, <3>2, AskedKept
      <4>2. phase # "down"
        <5>1. effects # <<>> BY <4>1 DEF WatchAsked
        <5> QED BY <5>1, LineEmpty
      <4>3. ws' = ws BY <1>3, <3>2, <4>2, LoopStays
      <4> QED BY <4>1, <4>3 DEF WatchFirst
    <3> QED BY <3>1, <3>2
  <2> QED BY <2>1, <2>2, <2>3
<1> QED BY <1>2, <1>3

\* A handler makes right what it takes from the line.
LEMMA DispatchFresh ==
    ASSUME JobInv, FreshInv, Dispatch
    PROVE  /\ WatchLost' \/ WatchAsked' \/ ws'.discovered \subseteq watcher'.paths
           /\ WatchLost' \/ \A r \in ws'.discovered : (OnItsWay(r) \/ LastTells(r))'
<1>1. PICK h \in Event :
        /\ TypeOK /\ Reduce(h) /\ effects = <<>> /\ h = Line[1] /\ 1 \in DOMAIN Line
        /\ \A i \in DOMAIN Line : i = 1 \/ (i - 1 \in DOMAIN Line' /\ Line'[i - 1] = Line[i])
        /\ \A i \in DOMAIN Line' : i + 1 \in DOMAIN Line /\ Line'[i] = Line[i + 1]
        /\ \A i \in DOMAIN Line' : i \in Nat /\ i > 0
        /\ \A i \in DOMAIN Line : i \in Nat
    BY Dispatched
<1>2. UNCHANGED <<present, disk, watcher, backendQ>> BY DEF Dispatch, envVars, backendVars
<1>3. SummariesMove(h) /\ ListMoves(h) BY <1>1, ReduceWorkspace
<1>4. /\ h.kind = "RepoScanCompleted" => effects' = ScanEffects(h.repos)
      /\ h.kind = "WatcherDebounceFlush" =>
           \A r \in ws.invalidations : \E i \in DOMAIN effects' : effects'[i] = Refresh({r})
    BY <1>1, ReduceAsks
<1>5. ~WatchAsked BY <1>1 DEF WatchAsked
<1>6. ASSUME WatchLost PROVE WatchLost'
  <2>1. CASE ~watcher.configured BY <1>2, <2>1 DEF WatchLost
  <2>2. CASE (\A i \in DOMAIN Line : ~WatchNews(Line[i])) /\ ws.health # "Healthy"
    <3>1. ws'.health = ws.health BY <1>1, <1>3, <2>2 DEF ListMoves, WatchNews
    <3>2. \A i \in DOMAIN Line' : ~WatchNews(Line'[i]) BY <1>1, <2>2
    <3> QED BY <2>2, <3>1, <3>2 DEF WatchLost
  <2>3. ASSUME NEW i \in DOMAIN Line, Line[i].kind = "WatcherDegraded",
               \A k \in DOMAIN Line : WatchNews(Line[k]) => k <= i
        PROVE  WatchLost'
    <3>1. CASE i = 1
      <4>1. ws'.health # "Healthy" BY <1>1, <1>3, <2>3, <3>1 DEF ListMoves
      <4>2. \A k \in DOMAIN Line' : ~WatchNews(Line'[k])
        <5> SUFFICES ASSUME NEW k \in DOMAIN Line', WatchNews(Line'[k]) PROVE FALSE
            OBVIOUS
        <5>1. k + 1 \in DOMAIN Line /\ Line'[k] = Line[k + 1] /\ k \in Nat /\ k > 0 BY <1>1
        <5>2. k + 1 <= 1 BY <2>3, <3>1, <5>1
        <5> QED BY <5>1, <5>2
      <4> QED BY <4>1, <4>2 DEF WatchLost
    <3>2. CASE i # 1
      <4>1. i - 1 \in DOMAIN Line' /\ Line'[i - 1] = Line[i] /\ i \in Nat BY <1>1, <3>2
      <4>2. \A k \in DOMAIN Line' : WatchNews(Line'[k]) => k <= i - 1
        <5> SUFFICES ASSUME NEW k \in DOMAIN Line', WatchNews(Line'[k]) PROVE k <= i - 1
            OBVIOUS
        <5>1. k + 1 \in DOMAIN Line /\ Line'[k] = Line[k + 1] /\ k \in Nat BY <1>1
        <5>2. k + 1 <= i BY <2>3, <5>1
        <5> QED BY <4>1, <5>1, <5>2
      <4> QED BY <2>3, <4>1, <4>2 DEF WatchLost
    <3> QED BY <3>1, <3>2
  <2> QED BY <1>6, <2>1, <2>2, <2>3 DEF WatchLost
<1>7. CASE ~WatchLost /\ h.kind = "RepoScanCompleted"
  <2> DEFINE a == Watch(h.repos)
             b == Refresh(h.repos)
  <2>1. a.kind = "ConfigureWatcher" /\ \A r \in h.repos : InPool(b, r)
      BY DEF Watch, Refresh, Pool, InPool
  <2>2. effects' = <<a, b, PersistCache>> BY <1>4, <1>7 DEF ScanEffects
  <2> HIDE DEF a, b
  <2>3. 1 \in DOMAIN effects' /\ effects'[1] = a /\ 2 \in DOMAIN effects' /\ effects'[2] = b
      BY <2>2
  <2>4. ws'.discovered = h.repos BY <1>3, <1>7 DEF ListMoves
  <2>5. WatchAsked' BY <2>1, <2>3 DEF WatchAsked
  <2>6. ASSUME NEW r \in ws'.discovered PROVE OnItsWay(r)'
    <3>1. InPool(effects'[2], r) BY <2>1, <2>3, <2>4
    <3> QED BY <2>3, <3>1 DEF OnItsWay, InPool
  <2> QED BY <2>5, <2>6
<1>8. CASE ~WatchLost /\ h.kind # "RepoScanCompleted"
  <2>1. ws'.discovered = ws.discovered BY <1>3, <1>8 DEF ListMoves
  <2>2. ws.discovered \subseteq watcher.paths BY <1>5, <1>8 DEF FreshInv, WatchFirst
  <2>3. ASSUME NEW r \in ws.discovered PROVE (OnItsWay(r) \/ LastTells(r))'
    <3>1. r \in Repos /\ (OnItsWay(r) \/ LastTells(r))
        BY <1>1, <1>8 DEF FreshInv, TypeOK, Workspace
    <3>2. CASE r \in ws.invalidations
      <4>1. CASE h.kind = "WatcherDebounceFlush"
        <5>1. PICK i \in DOMAIN effects' : effects'[i] = Refresh({r}) BY <1>4, <3>2, <4>1
        <5>2. InPool(effects'[i], r) BY <5>1 DEF Refresh, Pool, InPool
        <5> QED BY <5>2 DEF OnItsWay, InPool
      <4>2. CASE h.kind # "WatcherDebounceFlush"
        <5>1. r \in ws'.invalidations BY <1>3, <3>2, <4>2 DEF ListMoves
        <5> QED BY <5>1 DEF OnItsWay
      <4> QED BY <4>1, <4>2
    <3>3. ASSUME NEW i \in DOMAIN Line, Line[i] = About("RepoInvalidated", r)
          PROVE  OnItsWay(r)'
      <4>1. CASE i = 1
        <5>1. h.kind = "RepoInvalidated" /\ h.repo = r BY <1>1, <3>3, <4>1 DEF About
        <5>2. r \in ws'.invalidations BY <1>3, <5>1 DEF ListMoves
        <5> QED BY <5>2 DEF OnItsWay
      <4>2. CASE i # 1
        <5>1. i - 1 \in DOMAIN Line' /\ Line'[i - 1] = About("RepoInvalidated", r)
            BY <1>1, <3>3, <4>2
        <5> QED BY <5>1 DEF OnItsWay, About
      <4> QED BY <4>1, <4>2
    <3>4. CASE \E i \in DOMAIN backendQ : backendQ[i] = About("RepoInvalidated", r)
        BY <1>2, <3>4 DEF OnItsWay, About
    <3>5. CASE \E i \in DOMAIN effects : InPool(effects[i], r) BY <1>1, <3>5
    <3>6. CASE LastTells(r) BY <1>1, <1>2, <1>3, <3>1, <3>6, DispatchTells
    <3> QED BY <3>1, <3>2, <3>3, <3>4, <3>5, <3>6 DEF OnItsWay
  <2> QED BY <1>2, <2>1, <2>2, <2>3
<1> QED BY <1>6, <1>7, <1>8
\* Outside of handlers a step reports what it changes.
LEMMA LoopFresh ==
    ASSUME "backend" \notin env'.suffered, Reporting, JobInv, FreshInv, [Next]_vars,
           ~Dispatch, ~Stop, phase # "down"
    PROVE  /\ WatchLost' \/ WatchAsked' \/ ws'.discovered \subseteq watcher'.paths
           /\ WatchLost' \/ \A r \in ws'.discovered : (OnItsWay(r) \/ LastTells(r))'
<1>1. ws' = ws /\ TypeOK /\ WatchFirst BY LoopStays DEF JobInv, DebounceInv, FreshInv
<1>2. PICK t : GrowsBy(t) BY LineGrows
<1>3. CASE ConfigureWatcher
  <2>1. effects = ScanEffects(ws.discovered) /\ effects' = Tail(effects)
      BY <1>1, <1>3, AskedKept
  <2> DEFINE a == Watch(ws.discovered)
             b == Refresh(ws.discovered)
  <2>2. effects = <<a, b, PersistCache>> BY <2>1 DEF ScanEffects
  <2>3. \A r \in ws.discovered : InPool(b, r) BY DEF Refresh, Pool, InPool
  <2>4. a.repos = ws.discovered BY DEF Watch
  <2> HIDE DEF a, b
  <2>5. effects' = <<b, PersistCache>> /\ Head(effects) = a BY <2>1, <2>2
  <2>6. 1 \in DOMAIN effects' /\ effects'[1] = b BY <2>5
  <2>7. CASE watcher'.paths = Head(effects).repos
    <3>1. ws'.discovered \subseteq watcher'.paths BY <1>1, <2>4, <2>5, <2>7
    <3>2. ASSUME NEW r \in ws'.discovered PROVE OnItsWay(r)'
      <4>1. InPool(effects'[1], r) BY <1>1, <2>3, <2>6, <3>2
      <4> QED BY <2>6, <4>1 DEF OnItsWay, InPool
    <3> QED BY <3>1, <3>2
  <2>8. CASE FollowUp(Plain("WatcherDegraded"))
    <3> DEFINE e == Plain("WatcherDegraded")
    <3>1. e \in Event /\ e.kind = "WatcherDegraded" BY EventForms DEF PlainEvents, Plain
    <3>2. queue' = queue BY <1>3 DEF ConfigureWatcher
    <3>3. FollowUp(e) BY <2>8
    <3> HIDE DEF e
    <3>4. Line' = Line \o <<e>> /\ <<e>> \in Seq(Event) /\ Line \in Seq(Event)
        BY <1>1, <3>1, <3>2, <3>3, OneFollows, LineTypes
    <3>5. 1 \in DOMAIN <<e>> /\ <<e>>[1] = e /\ Len(<<e>>) = 1 OBVIOUS
    <3>6. Len(Line) + 1 \in DOMAIN Line' /\ Line'[Len(Line) + 1] = e
      <4>1. \A n \in DOMAIN <<e>> : /\ Len(Line) + n \in DOMAIN (Line \o <<e>>)
                                    /\ (Line \o <<e>>)[Len(Line) + n] = <<e>>[n]
          BY <3>4, JoinedParts
      <4> QED BY <3>4, <3>5, <4>1, Zenon
    <3>7. \A m \in DOMAIN Line' : m <= Len(Line) + 1
      <4>1. Line' \in Seq(Event) /\ Len(Line') = Len(Line) + 1 BY <3>4, <3>5
      <4> QED BY <4>1
    <3>8. WatchLost' BY <3>1, <3>6, <3>7 DEF WatchLost
    <3> QED BY <3>8
  <2>9. watcher'.paths = Head(effects).repos \/ FollowUp(Plain("WatcherDegraded"))
      BY <1>1, <1>3 DEF ConfigureWatcher, TypeOK, Watchers
  <2> QED BY <2>7, <2>8, <2>9
<1>4. CASE ~ConfigureWatcher
  <2>1. watcher' = watcher BY <1>1, <1>4, WatcherMoves
  <2>2. \A k \in DOMAIN t : ~WatchNews(t[k]) BY <1>1, <1>2, <1>4, NewsFits
  <2>3. WatchLost => WatchLost' BY <1>1, <1>2, <2>1, <2>2, LostKept
  <2>4. WatchAsked => WatchAsked' BY <1>1, <1>4, AskedKept DEF WatchAsked
  <2>5. WatchLost' \/ WatchAsked' \/ ws'.discovered \subseteq watcher'.paths
      BY <1>1, <2>1, <2>3, <2>4 DEF WatchFirst
  <2>6. ASSUME ~WatchLost, NEW r \in ws.discovered PROVE (OnItsWay(r) \/ LastTells(r))'
    <3>1. r \in Repos /\ (OnItsWay(r) \/ LastTells(r))
        BY <1>1, <2>6 DEF FreshInv, TypeOK, Workspace
    <3>2. CASE r \in ws.invalidations BY <1>1, <3>2 DEF OnItsWay
    <3>3. ASSUME NEW i \in DOMAIN Line, Line[i] = About("RepoInvalidated", r)
          PROVE  OnItsWay(r)'
      <4>1. i \in DOMAIN Line' /\ Line'[i] = Line[i] BY <1>2, GrownParts
      <4> QED BY <3>3, <4>1 DEF OnItsWay, About
    <3>4. ASSUME NEW k \in DOMAIN backendQ, backendQ[k] = About("RepoInvalidated", r)
          PROVE  OnItsWay(r)'
      <4>1. \/ k \in DOMAIN backendQ' /\ backendQ'[k] = backendQ[k]
            \/ \E i \in DOMAIN t : t[i] = backendQ[k]
          BY <1>2 DEF GrowsBy, Delivered
      <4>2. CASE k \in DOMAIN backendQ' /\ backendQ'[k] = backendQ[k]
          BY <3>4, <4>2 DEF OnItsWay, About
      <4>3. ASSUME NEW i \in DOMAIN t, t[i] = backendQ[k] PROVE OnItsWay(r)'
        <5>1. Len(Line) + i \in DOMAIN Line' /\ Line'[Len(Line) + i] = t[i]
            BY <1>2, GrownParts
        <5> QED BY <3>4, <4>3, <5>1 DEF OnItsWay, About
      <4> QED BY <4>1, <4>2, <4>3
    <3>5. ASSUME NEW i \in DOMAIN effects, InPool(effects[i], r)
          PROVE  (OnItsWay(r) \/ LastTells(r))'
      <4>1. \/ \E k \in DOMAIN effects' : InPool(effects'[k], r)
            \/ \E k \in DOMAIN t : Outcome(t[k], r)
          BY <1>2, <3>1, <3>5, PoolKept
      <4>2. CASE \E k \in DOMAIN effects' : InPool(effects'[k], r)
          BY <4>2 DEF OnItsWay, InPool
      <4>3. CASE \E k \in DOMAIN t : Outcome(t[k], r) BY <1>2, <3>1, <4>3, LastArrives
      <4> QED BY <4>1, <4>2, <4>3
    <3>6. CASE LastTells(r)
      <4>1. CASE disk'[r] = disk[r] /\ (r \in present' <=> r \in present)
          BY <1>1, <1>2, <3>1, <3>6, <4>1, LastKept
      <4>2. CASE Notify(r)
        <5>1. CASE WatchAsked
          <6>1. effects' = effects /\ effects = ScanEffects(ws.discovered)
              BY <1>1, <1>4, <5>1, AskedKept DEF WatchFirst
          <6> DEFINE a == Watch(ws.discovered)
                     b == Refresh(ws.discovered)
          <6>2. effects' = <<a, b, PersistCache>> BY <6>1 DEF ScanEffects
          <6>3. InPool(b, r) BY <2>6 DEF Refresh, Pool, InPool
          <6> HIDE DEF a, b
          <6>4. 2 \in DOMAIN effects' /\ effects'[2] = b BY <6>2
          <6>5. InPool(effects'[2], r) BY <6>3, <6>4
          <6> QED BY <6>4, <6>5 DEF OnItsWay, InPool
        <5>2. CASE ~WatchAsked
          <6>1. watcher.configured BY <2>6 DEF WatchLost
          <6>2. Watching(r) BY <1>1, <2>6, <5>2, <6>1 DEF WatchFirst, Watching
          <6> DEFINE e == About("RepoInvalidated", r)
          <6>3. backendQ' = Append(backendQ, e) BY <4>2, <6>2 DEF Notify
          <6>4. backendQ \in Seq(Event) BY <1>1, LineTypes
          <6>5. e = About("RepoInvalidated", r) OBVIOUS
          <6> HIDE DEF e
          <6>6. /\ Len(backendQ) + 1 \in DOMAIN backendQ'
                /\ backendQ'[Len(backendQ) + 1] = e
              BY <6>3, <6>4
          <6> QED BY <6>5, <6>6 DEF OnItsWay, About
        <5> QED BY <5>1, <5>2
      <4>3. CASE AddRepo(r)
        <5>1. r \notin present /\ UNCHANGED <<queue, followUps>>
            BY <4>3 DEF AddRepo, loopVars
        <5>2. Line' = Line BY <5>1 DEF Line
        <5>3. CASE (\A i \in DOMAIN Line : ~Outcome(Line[i], r)) /\ ShownRight(r)
          <6>1. ShownRight(r)' BY <1>1, <5>1, <5>3 DEF ShownRight
          <6> QED BY <5>2, <5>3, <6>1 DEF LastTells
        <5>4. ASSUME NEW i \in DOMAIN Line, Outcome(Line[i], r), Tells(Line[i], r),
                     \A k \in DOMAIN Line : Outcome(Line[k], r) => k <= i
              PROVE  LastTells(r)'
          <6>1. Line[i].kind = "RepoSummaryRefreshFailed" BY <5>1, <5>4 DEF Tells
          <6> QED BY <5>2, <5>4, <6>1 DEF LastTells, Tells
        <5> QED BY <3>6, <5>3, <5>4 DEF LastTells
      <4> QED BY <1>1, <3>1, <4>1, <4>2, <4>3, ChangesNotify
    <3> QED BY <3>1, <3>2, <3>3, <3>4, <3>5, <3>6 DEF OnItsWay
  <2> QED BY <1>1, <2>3, <2>5, <2>6
<1> QED BY <1>3, <1>4

LEMMA StepFresh ==
    ASSUME "backend" \notin env'.suffered, Reporting, JobInv, FreshInv, [Next]_vars
    PROVE  FreshInv'
<1>1. WatchFirst /\ TypeOK BY DEF FreshInv, JobInv, DebounceInv
<1>2. /\ WatchAsked' => effects' = ScanEffects(ws'.discovered)
      /\ watcher'.configured => watcher'.up /\ phase' # "down"
      /\ \A i \in DOMAIN backendQ' : ~WatchNews(backendQ'[i])
    BY <1>1, WatchFirstKept
<1>3. /\ WatchLost' \/ WatchAsked' \/ ws'.discovered \subseteq watcher'.paths
      /\ WatchLost' \/ \A r \in ws'.discovered : (OnItsWay(r) \/ LastTells(r))'
  <2>1. CASE Dispatch BY <2>1, DispatchFresh
  <2>2. CASE Stop
    <3>1. ~watcher'.configured BY <2>2 DEF Stop, Unconfigured
    <3> QED BY <3>1 DEF WatchLost
  <2>3. CASE ~Dispatch /\ ~Stop /\ phase # "down" BY <2>3, LoopFresh
  <2>4. CASE ~Dispatch /\ ~Stop /\ phase = "down"
    <3>1. ~watcher.configured BY <1>1, <2>4 DEF WatchFirst
    <3>2. ~ConfigureWatcher BY <2>4 DEF ConfigureWatcher, Applying
    <3>3. watcher' = watcher BY <1>1, <2>4, <3>2, WatcherMoves
    <3> QED BY <3>1, <3>3 DEF WatchLost
  <2> QED BY <2>1, <2>2, <2>3, <2>4
<1> QED BY <1>2, <1>3 DEF FreshInv, WatchFirst

\* Under a reporting backend that has not failed on its own, a repository that
\* run() leaves on the screen as fresh, under a live watch, is shown as it is on
\* disk: whatever changed it was reported, and what was reported has been read
\* since.  The null backend reports nothing, and nothing is promised of it.
THEOREM NeverFalselyFreshHolds == Spec => []NeverFalselyFresh
<1> DEFINE Heard == Reporting /\ "backend" \notin env.suffered
           Inv == JobInv /\ (Heard => FreshInv)
<1>1. Init => Inv
  <2>1. Init => FreshInv
    <3> SUFFICES ASSUME Init PROVE FreshInv
        OBVIOUS
    <3>1. effects = <<>> /\ backendQ = <<>> /\ ~watcher.configured
        BY DEF Init, Unconfigured
    <3> QED BY <3>1 DEF FreshInv, WatchFirst, WatchLost, WatchAsked
  <2> QED BY <2>1, InitJobs
<1>2. Inv /\ [Next]_vars => Inv'
  <2> SUFFICES ASSUME JobInv, Heard => FreshInv, [Next]_vars, Heard' PROVE FreshInv'
      BY StepJobs
  <2>1. Heard BY FaultsRemembered DEF JobInv, DebounceInv, Reporting
  <2> QED BY <2>1, StepFresh
<1>3. Inv => NeverFalselyFresh
  <2> SUFFICES ASSUME JobInv, FreshInv, phase = "idle", backendQ = <<>>,
                      watcher.configured, ws.health = "Healthy", NEW r \in ws.discovered
               PROVE  ShownRight(r)
      BY DEF NeverFalselyFresh, ShownRight
  <2>1. Line = <<>> /\ effects = <<>> BY LineEmpty
  <2>2. ws.invalidations = {}
    <3>1. queue = <<>> /\ effects = <<>> /\ ~debounceScheduled
        BY DEF JobInv, DebounceInv, FlushDiscipline
    <3>2. ~ScheduleAsked /\ ~FlushQueued BY <3>1 DEF ScheduleAsked, FlushQueued
    <3> QED BY <3>1, <3>2 DEF JobInv, DebounceInv, DebounceCoupled
  <2>3. ~WatchLost BY <2>1 DEF WatchLost
  <2>4. OnItsWay(r) \/ LastTells(r) BY <2>3 DEF FreshInv
  <2>5. ~OnItsWay(r) BY <2>1, <2>2 DEF OnItsWay
  <2> QED BY <2>1, <2>4, <2>5 DEF LastTells
<1> QED BY <1>1, <1>2, <1>3, PTL DEF Spec
-----------------------------------------------------------------------------
(* The detail of the repository in repo mode.                              *)

LoadedOf(e, r) == e.kind = "RepoDetailLoaded" /\ e.repo = r

\* A new read of the detail of the repository in repo mode will be made.
DetailAsked ==
    \/ active \in ws.invalidations
    \/ \E i \in DOMAIN Line : Line[i] = About("RepoInvalidated", active)
    \/ \E i \in DOMAIN backendQ : backendQ[i] = About("RepoInvalidated", active)
    \/ \E i \in DOMAIN effects : effects[i] = LoadDetail(active)

\* The last read of the detail under way, or the detail itself, is right.
DetailTells ==
    \/ /\ \A i \in DOMAIN Line : ~LoadedOf(Line[i], active)
       /\ detail = disk[active]
    \/ \E i \in DOMAIN Line :
        /\ LoadedOf(Line[i], active) /\ Line[i].ver = disk[active]
        /\ \A k \in DOMAIN Line : LoadedOf(Line[k], active) => k <= i

\* A scan that leads to a watch has been asked for, or is under way: its
\* results, or, for a process that took up a cached list, the scan it starts
\* with, as long as none has failed.
ScanUnderWay ==
    \/ WatchAsked
    \/ \E i \in DOMAIN Line : Line[i].kind = "RepoScanCompleted"
    \/ /\ "crash" \in env.suffered /\ "scan" \notin env.suffered
       /\ \/ \E i \in DOMAIN Line : Line[i].kind = "RefreshVisibleRepos"
          \/ \E i \in DOMAIN effects : effects[i].kind = "StartRepoScan"

\* The list, the watch and the cache know the repositories that are there; a
\* repository can be entered only once it is watched.
WatchCovers ==
    /\ ws.discovered \subseteq present
    /\ cache # None => cache.discovered \subseteq present
    /\ cache # None /\ phase = "down" => "crash" \in env.suffered
    /\ WatchAsked => ws.discovered = present
    /\ watcher.configured => watcher.paths = present
    /\ ws.discovered # {} => watcher.configured \/ ScanUnderWay
    /\ active # None => watcher.configured /\ active \in present
    /\ \A i \in DOMAIN Line :
        /\ Line[i].kind = "RepoScanCompleted" => Line[i].repos = present
        /\ Line[i].kind = "EnterRepoMode" =>
            watcher.configured /\ Line[i].repo \in present

DetailInv ==
    /\ WatchFirst
    /\ WatchCovers
    /\ active # None => DetailAsked \/ DetailTells
\* The handlers of some events.
LEMMA HandlerOf ==
    ASSUME NEW e, Reduce(e)
    PROVE  /\ e.kind = "RefreshVisibleRepos" => ReduceRefreshVisibleRepos(e)
           /\ e.kind = "EnterRepoMode" => ReduceEnterRepoMode(e)
           /\ e.kind = "LeaveRepoMode" => ReduceLeaveRepoMode(e)
           /\ e.kind = "RepoDetailLoaded" => ReduceRepoDetailLoaded(e)
           /\ e.kind = "WatcherDebounceFlush" => ReduceWatcherDebounceFlush(e)
    BY DEF Reduce, ReduceRefreshVisibleRepos, ReduceRefreshSelectedRepo,
           ReduceRefreshSelectedRepoDeep, ReduceEnterRepoMode, ReduceLeaveRepoMode,
           ReduceGitAction, ReduceDetachSelectedWorktree,
          ReducePeriodicFetchTick, ReduceRepoScanFailed,
           ReduceRepoScanCompleted, ReduceRepoSummaryRefreshStarted,
           ReduceRepoSummaryUpdated, ReduceRepoSummaryRefreshFailed,
           ReduceRepoDetailLoaded, ReduceGitOperationStarted, ReduceGitOperationDone,
           ReduceRepoInvalidated, ReduceWatcherDegraded, ReduceWatcherRecovered,
           ReducePeriodicRefreshTick, ReduceWatcherDebounceFlush, ReduceToastExpiryTick

\* What the handlers do to the repository in repo mode and its detail.
LEMMA ReduceView ==
    ASSUME TypeOK, NEW e \in Event, Reduce(e)
    PROVE  /\ active' = IF e.kind = "EnterRepoMode" THEN e.repo
                        ELSE IF e.kind = "LeaveRepoMode" THEN None ELSE active
           /\ e.kind \notin {"EnterRepoMode", "LeaveRepoMode"} =>
                detail' = IF LoadedOf(e, active) THEN e.ver ELSE detail
           /\ e.kind = "EnterRepoMode" => effects' = <<LoadDetail(e.repo)>>
           /\ e.kind = "RefreshVisibleRepos" => effects' = <<Plain("StartRepoScan")>>
           /\ e.kind = "WatcherDebounceFlush" /\ active \in ws.invalidations =>
                \E i \in DOMAIN effects' : effects'[i] = LoadDetail(active)
<1> USE DEF LoadedOf
<1>1. CASE e.kind \in {"RefreshVisibleRepos", "EnterRepoMode", "LeaveRepoMode",
                       "RepoDetailLoaded"}
  <2>1. CASE e.kind = "RefreshVisibleRepos"
      BY <2>1, HandlerOf DEF ReduceRefreshVisibleRepos
  <2>2. CASE e.kind = "EnterRepoMode"
      BY <2>2, HandlerOf DEF ReduceEnterRepoMode
  <2>3. CASE e.kind = "LeaveRepoMode"
      BY <2>3, HandlerOf DEF ReduceLeaveRepoMode
  <2>4. CASE e.kind = "RepoDetailLoaded"
      BY <2>4, HandlerOf DEF ReduceRepoDetailLoaded
  <2> QED BY <1>1, <2>1, <2>2, <2>3, <2>4
<1>2. CASE e.kind \notin {"RefreshVisibleRepos", "EnterRepoMode", "LeaveRepoMode",
                          "RepoDetailLoaded", "WatcherDebounceFlush"}
  <2>1. active' = active /\ detail' = detail
      BY <1>2 DEF Reduce, ReduceRefreshVisibleRepos, ReduceRefreshSelectedRepo,
          ReduceRefreshSelectedRepoDeep, ReduceEnterRepoMode, ReduceLeaveRepoMode,
          ReduceGitAction, ReduceDetachSelectedWorktree,
          ReducePeriodicFetchTick, ReduceRepoScanFailed,
          ReduceRepoScanCompleted, ReduceRepoSummaryRefreshStarted,
          ReduceRepoSummaryUpdated, ReduceRepoSummaryRefreshFailed,
          ReduceRepoDetailLoaded, ReduceGitOperationStarted, ReduceGitOperationDone,
          ReduceRepoInvalidated, ReduceWatcherDegraded, ReduceWatcherRecovered,
          ReducePeriodicRefreshTick, ReduceWatcherDebounceFlush, ReduceToastExpiryTick,
          EnqueueGitJob, stateVars
  <2> QED BY <1>2, <2>1
<1>3. CASE e.kind = "WatcherDebounceFlush"
  <2>1. ReduceWatcherDebounceFlush(e) BY <1>3, HandlerOf
  <2>2. active' = active /\ detail' = detail BY <2>1 DEF ReduceWatcherDebounceFlush
  <2>3. ASSUME active \in ws.invalidations
        PROVE  \E i \in DOMAIN effects' : effects'[i] = LoadDetail(active)
    <3> DEFINE S == ws.invalidations \ {active}
    <3>1. PICK others \in Orders(S) :
            effects' = FlushActive(active) \o [k \in DOMAIN others |-> Refresh({others[k]})]
        BY <2>1, <2>3 DEF ReduceWatcherDebounceFlush
    <3> DEFINE rest == [k \in DOMAIN others |-> Refresh({others[k]})]
               a == Refresh({active})
               b == LoadDetail(active)
    <3>2. ws.invalidations \in SUBSET Repos BY DEF TypeOK, Workspace
    <3>3. rest \in Seq(Effect)
      <4>1. S \in SUBSET Repos BY <3>2
      <4> HIDE DEF S
      <4> QED BY <4>1, <3>1, RefreshEach
    <3>4. a \in Effect /\ b \in Effect BY <2>3, <3>2, EffectForms
    <3>5. effects' = <<a, b>> \o rest BY <3>1 DEF FlushActive
    <3> HIDE DEF a, b, rest
    <3>6. 2 \in DOMAIN effects' /\ effects'[2] = b BY <3>3, <3>4, <3>5
    <3> QED BY <3>6 DEF b
  <2> QED BY <1>3, <2>2, <2>3
<1> QED BY <1>1, <1>2, <1>3

\* What the line tells last of the detail, a handler shows.
LEMMA DispatchDetail ==
    ASSUME NEW h, DetailTells, h = Line[1], 1 \in DOMAIN Line,
           active' = active, detail' = IF LoadedOf(h, active) THEN h.ver ELSE detail,
           disk' = disk,
           \A i \in DOMAIN Line : i = 1 \/ (i - 1 \in DOMAIN Line' /\ Line'[i - 1] = Line[i]),
           \A i \in DOMAIN Line' : i + 1 \in DOMAIN Line /\ Line'[i] = Line[i + 1],
           \A i \in DOMAIN Line' : i \in Nat /\ i > 0,
           \A i \in DOMAIN Line : i \in Nat
    PROVE  DetailTells'
<1> USE DEF LoadedOf
<1>1. CASE (\A i \in DOMAIN Line : ~LoadedOf(Line[i], active)) /\ detail = disk[active]
    BY <1>1 DEF DetailTells
<1>2. ASSUME NEW i \in DOMAIN Line, LoadedOf(Line[i], active), Line[i].ver = disk[active],
             \A k \in DOMAIN Line : LoadedOf(Line[k], active) => k <= i
      PROVE  DetailTells'
  <2>1. CASE i = 1
    <3>1. detail' = disk'[active'] BY <1>2, <2>1
    <3>2. ASSUME NEW k \in DOMAIN Line', LoadedOf(Line'[k], active) PROVE FALSE
      <4>1. k + 1 \in DOMAIN Line /\ LoadedOf(Line[k + 1], active) /\ k \in Nat /\ k > 0
          BY <3>2
      <4>2. k + 1 <= 1 BY <1>2, <2>1, <4>1
      <4> QED BY <4>1, <4>2
    <3> QED BY <3>1, <3>2 DEF DetailTells
  <2>2. CASE i # 1
    <3>1. i - 1 \in DOMAIN Line' /\ Line'[i - 1] = Line[i] /\ i \in Nat BY <2>2
    <3>2. ASSUME NEW k \in DOMAIN Line', LoadedOf(Line'[k], active) PROVE k <= i - 1
      <4>1. k + 1 \in DOMAIN Line /\ LoadedOf(Line[k + 1], active) /\ k \in Nat BY <3>2
      <4>2. k + 1 <= i BY <1>2, <4>1
      <4> QED BY <3>1, <4>1, <4>2
    <3> QED BY <1>2, <3>1, <3>2 DEF DetailTells
  <2> QED BY <2>1, <2>2
<1> QED BY <1>1, <1>2 DEF DetailTells

\* A detail that has just been read is the last one, and right.
LEMMA DetailArrives ==
    ASSUME JobInv, NEW t, GrowsBy(t), active \in Repos, active' = active,
           NEW k \in DOMAIN t, LoadedOf(t[k], active)
    PROVE  DetailTells'
<1>1. Fits(t[k], t) /\ t[k].kind = "RepoDetailLoaded" /\ t[k].repo = active
    BY DEF GrowsBy, LoadedOf
<1>2. Len(t) = 1 /\ UNCHANGED disk /\ t[k].ver = disk[active]
    BY <1>1 DEF Fits, OutcomeKinds, ReadEvents
<1>3. /\ Line \in Seq(Event) /\ t \in Seq(Event)
      /\ Len(Line) + k \in DOMAIN Line' /\ Line'[Len(Line) + k] = t[k]
    BY GrownParts DEF GrowsBy
<1>4. \A m \in DOMAIN Line' : m <= Len(Line) + k
  <2>1. \A m \in DOMAIN Line' : m \in DOMAIN Line \/ \E n \in DOMAIN t : m = Len(Line) + n
      BY GrownParts
  <2>2. DOMAIN t = 1..1 BY <1>2, <1>3
  <2>3. \A m \in DOMAIN Line : m \in Nat /\ m <= Len(Line) BY <1>3
  <2>4. Len(Line) \in Nat BY <1>3
  <2> QED BY <2>1, <2>2, <2>3, <2>4
<1> QED BY <1>1, <1>2, <1>3, <1>4 DEF DetailTells, LoadedOf

\* As long as the repository stays as it is, what is under way stays right.
LEMMA DetailKept ==
    ASSUME JobInv, NEW t, GrowsBy(t), active \in Repos, DetailTells,
           UNCHANGED <<active, detail>>, disk'[active] = disk[active]
    PROVE  DetailTells'
<1>1. CASE \E k \in DOMAIN t : LoadedOf(t[k], active) BY <1>1, DetailArrives
<1>2. CASE \A k \in DOMAIN t : ~LoadedOf(t[k], active)
  <2>1. \A i \in DOMAIN Line' :
          LoadedOf(Line'[i], active) => i \in DOMAIN Line /\ Line'[i] = Line[i]
      BY <1>2, GrownParts
  <2>2. CASE (\A i \in DOMAIN Line : ~LoadedOf(Line[i], active)) /\ detail = disk[active]
    <3>1. \A i \in DOMAIN Line' : ~LoadedOf(Line'[i], active) BY <2>1, <2>2
    <3> QED BY <2>2, <3>1 DEF DetailTells, LoadedOf
  <2>3. ASSUME NEW i \in DOMAIN Line, LoadedOf(Line[i], active), Line[i].ver = disk[active],
               \A k \in DOMAIN Line : LoadedOf(Line[k], active) => k <= i
        PROVE  DetailTells'
    <3>1. i \in DOMAIN Line' /\ Line'[i] = Line[i] BY GrownParts
    <3>2. \A k \in DOMAIN Line' : LoadedOf(Line'[k], active) => k <= i BY <2>1, <2>3
    <3> QED BY <2>3, <3>1, <3>2 DEF DetailTells, LoadedOf
  <2> QED BY <2>2, <2>3 DEF DetailTells
<1> QED BY <1>1, <1>2
LEMMA PresentStays ==
    ASSUME WatchKept', [Next]_vars
    PROVE  present' = present
<1>5. ~Fault("move") BY DEF Fault, WatchKept
<1>1. CASE Environment
    BY <1>1, <1>5 DEF Environment, ChangeRepo, RemoveRepo, AddRepo, TouchRepo, BackendFails,
                BackendRecovers, envVars
<1>2. CASE Loop
    BY <1>2 DEF Loop, Dispatch, EndIteration, ApplyEffect, StartRepoScan, ConfigureWatcher,
                ScheduleWatcherDebounce, SpawnSummaryWorker, ReceiveSummary, RefreshDone,
                LoadRepoDetail, RunGitCommand, PersistCacheStep, envVars
<1>3. CASE Boot \/ UserInput \/ (\E refresh \in BOOLEAN : Tick(refresh)) \/ Stop
    BY <1>3 DEF Boot, UserInput, Tick, Run, Stop, envVars
<1>4. CASE UNCHANGED vars BY <1>4 DEF vars, envVars
<1> QED BY <1>1, <1>2, <1>3, <1>4 DEF Next

\* The cache file outlives only a process that ended.
LEMMA CacheOutlives ==
    ASSUME [Next]_vars, phase' = "down", ~Stop
    PROVE  phase = "down" /\ cache' = cache
<1>1. CASE Environment
    BY <1>1 DEF Environment, ChangeRepo, RemoveRepo, AddRepo, TouchRepo, BackendFails,
                BackendRecovers, loopVars
<1>2. ~Loop
    BY DEF Loop, Dispatch, EndIteration, ApplyEffect, StartRepoScan, ConfigureWatcher,
           ScheduleWatcherDebounce, SpawnSummaryWorker, ReceiveSummary, RefreshDone,
           LoadRepoDetail, RunGitCommand, PersistCacheStep, Applying
<1>3. ~Boot /\ ~UserInput /\ ~\E refresh \in BOOLEAN : Tick(refresh)
    BY DEF Boot, UserInput, Tick, Run
<1>4. CASE UNCHANGED vars BY <1>4 DEF vars, loopVars
<1> QED BY <1>1, <1>2, <1>3, <1>4 DEF Next

LEMMA CoverCache ==
    ASSUME WatchKept', JobInv, WatchCovers, [Next]_vars
    PROVE  /\ cache' # None => cache'.discovered \subseteq present'
           /\ cache' # None /\ phase' = "down" => "crash" \in env'.suffered
<1>1. present' = present BY PresentStays
<1>2. CASE Stop
  <2>1. cache' \in {cache, None} /\ "crash" \in env'.suffered BY <1>2 DEF Stop, Fault
  <2> QED BY <1>1, <2>1 DEF WatchCovers
<1>3. CASE ~Stop
  <2>1. CacheDocument.discovered = ws.discovered BY DEF CacheDocument
  <2>2. cache' \in {cache, None} \/ cache' = CacheDocument BY <1>3, CacheMoves
  <2>3. cache' # None => cache'.discovered \subseteq present'
      BY <1>1, <2>1, <2>2 DEF WatchCovers
  <2>4. phase' = "down" => phase = "down" /\ cache' = cache BY <1>3, CacheOutlives
  <2>5. env.suffered \subseteq env'.suffered BY FaultsRemembered DEF JobInv, DebounceInv
  <2> QED BY <2>3, <2>4, <2>5 DEF WatchCovers
<1> QED BY <1>2, <1>3

\* The part of WatchCovers a handler can disturb.
LEMMA CoverDispatch ==
    ASSUME JobInv, WatchCovers, Dispatch
    PROVE  /\ ws'.discovered \subseteq present'
           /\ WatchAsked' => ws'.discovered = present'
           /\ watcher'.configured => watcher'.paths = present'
           /\ ws'.discovered # {} => watcher'.configured \/ ScanUnderWay'
           /\ active' # None => watcher'.configured /\ active' \in present'
           /\ \A i \in DOMAIN Line' :
                /\ Line'[i].kind = "RepoScanCompleted" => Line'[i].repos = present'
                /\ Line'[i].kind = "EnterRepoMode" =>
                    watcher'.configured /\ Line'[i].repo \in present'
<1>1. PICK h \in Event :
        /\ TypeOK /\ Reduce(h) /\ effects = <<>> /\ h = Line[1] /\ 1 \in DOMAIN Line
        /\ \A i \in DOMAIN Line : i = 1 \/ (i - 1 \in DOMAIN Line' /\ Line'[i - 1] = Line[i])
        /\ \A i \in DOMAIN Line' : i + 1 \in DOMAIN Line /\ Line'[i] = Line[i + 1]
    BY Dispatched
<1>2. UNCHANGED <<present, watcher, env>> BY DEF Dispatch, envVars, backendVars
<1>3. ListMoves(h) BY <1>1, ReduceWorkspace
<1>4. /\ h.kind = "RepoScanCompleted" => effects' = ScanEffects(h.repos)
      /\ h.kind # "RepoScanCompleted" =>
           \A i \in DOMAIN effects' : effects'[i].kind # "ConfigureWatcher"
    BY <1>1, ReduceAsks
<1>5. /\ active' = IF h.kind = "EnterRepoMode" THEN h.repo
                   ELSE IF h.kind = "LeaveRepoMode" THEN None ELSE active
      /\ h.kind = "RefreshVisibleRepos" => effects' = <<Plain("StartRepoScan")>>
    BY <1>1, ReduceView
<1>6. /\ ws.discovered \subseteq present
      /\ watcher.configured => watcher.paths = present
      /\ active # None => watcher.configured /\ active \in present
      /\ h.kind = "RepoScanCompleted" => h.repos = present
      /\ h.kind = "EnterRepoMode" => watcher.configured /\ h.repo \in present
    BY <1>1 DEF WatchCovers
<1>7. /\ ws'.discovered \subseteq present'
      /\ WatchAsked' => ws'.discovered = present'
    BY <1>2, <1>3, <1>4, <1>6 DEF ListMoves, WatchAsked
<1>8. active' # None => watcher'.configured /\ active' \in present' BY <1>2, <1>5, <1>6
<1>9. \A i \in DOMAIN Line' :
        /\ Line'[i].kind = "RepoScanCompleted" => Line'[i].repos = present'
        /\ Line'[i].kind = "EnterRepoMode" => watcher'.configured /\ Line'[i].repo \in present'
    BY <1>1, <1>2 DEF WatchCovers
<1>10. ASSUME ws'.discovered # {}, ~watcher'.configured PROVE ScanUnderWay'
  <2>1. CASE h.kind = "RepoScanCompleted"
    <3> DEFINE a == Watch(h.repos)
               b == Refresh(h.repos)
    <3>1. a.kind = "ConfigureWatcher" BY DEF Watch
    <3>2. effects' = <<a, b, PersistCache>> BY <1>4, <2>1 DEF ScanEffects
    <3> HIDE DEF a, b
    <3>3. 1 \in DOMAIN effects' /\ effects'[1] = a BY <3>2
    <3>4. WatchAsked' BY <3>1, <3>3 DEF WatchAsked
    <3> QED BY <3>4 DEF ScanUnderWay
  <2>2. CASE h.kind # "RepoScanCompleted"
    <3>1. ScanUnderWay /\ ~WatchAsked
        BY <1>1, <1>2, <1>3, <1>10, <2>2 DEF WatchCovers, ListMoves, WatchAsked
    <3>2. ~\E i \in DOMAIN effects : effects[i].kind = "StartRepoScan" BY <1>1
    <3>3. PICK i \in DOMAIN Line :
            \/ Line[i].kind = "RepoScanCompleted"
            \/ /\ "crash" \in env.suffered /\ "scan" \notin env.suffered
               /\ Line[i].kind = "RefreshVisibleRepos"
        BY <3>1, <3>2 DEF ScanUnderWay
    <3>4. CASE i # 1
      <4>1. i - 1 \in DOMAIN Line' /\ Line'[i - 1] = Line[i] BY <1>1, <3>4
      <4> QED BY <1>2, <3>3, <4>1 DEF ScanUnderWay
    <3>5. CASE i = 1
      <4> DEFINE a == Plain("StartRepoScan")
      <4>1. a.kind = "StartRepoScan" BY DEF Plain
      <4>2. h.kind = "RefreshVisibleRepos" BY <1>1, <2>2, <3>3, <3>5
      <4>3. effects' = <<a>> BY <1>5, <4>2
      <4> HIDE DEF a
      <4>4. 1 \in DOMAIN effects' /\ effects'[1] = a BY <4>3
      <4>5. "crash" \in env'.suffered /\ "scan" \notin env'.suffered
          BY <1>1, <1>2, <2>2, <3>3, <3>5
      <4> QED BY <4>1, <4>4, <4>5 DEF ScanUnderWay
    <3> QED BY <3>4, <3>5
  <2> QED BY <2>1, <2>2
<1>11. watcher'.configured => watcher'.paths = present' BY <1>2, <1>6
<1> QED BY <1>7, <1>8, <1>9, <1>10, <1>11

\* A scan under way goes on until the watch is there.
LEMMA ScanGoesOn ==
    ASSUME WatchKept', JobInv, WatchFirst, [Next]_vars, ~Dispatch, ~Stop,
           NEW t, GrowsBy(t), ScanUnderWay
    PROVE  watcher'.configured \/ ScanUnderWay'
<1>6. env.suffered \subseteq env'.suffered BY FaultsRemembered DEF JobInv, DebounceInv
<1>7. "crash" \in env.suffered => "crash" \in env'.suffered /\ "scan" \notin env'.suffered
    BY <1>6 DEF WatchKept
<1>1. \A i \in DOMAIN Line : i \in DOMAIN Line' /\ Line'[i] = Line[i] BY GrownParts
<1>2. CASE WatchAsked
  <2>1. CASE effects' = effects BY <1>2, <2>1 DEF ScanUnderWay, WatchAsked
  <2>2. CASE ConfigureWatcher
    <3>1. ~Fault("configure") BY DEF Fault, WatchKept
    <3>2. watcher' = [watcher EXCEPT !.configured = TRUE, !.up = TRUE,
                                     !.paths = Head(effects).repos]
        BY <2>2, <3>1 DEF ConfigureWatcher
    <3>3. watcher \in Watchers BY DEF JobInv, DebounceInv, TypeOK
    <3> QED BY <3>2, <3>3 DEF Watchers
  <2> QED BY <1>2, <2>1, <2>2, AskedKept
<1>3. CASE \E i \in DOMAIN Line : Line[i].kind = "RepoScanCompleted"
    BY <1>1, <1>3 DEF ScanUnderWay
<1>4. CASE /\ "crash" \in env.suffered
           /\ \E i \in DOMAIN Line : Line[i].kind = "RefreshVisibleRepos"
    BY <1>1, <1>4, <1>7 DEF ScanUnderWay
<1>5. ASSUME "crash" \in env.suffered, NEW i \in DOMAIN effects, effects[i].kind = "StartRepoScan"
      PROVE  ScanUnderWay'
  <2>1. CASE \E k \in DOMAIN effects' : effects'[k] = effects[i]
      BY <1>5, <1>7, <2>1 DEF ScanUnderWay
  <2>2. CASE i = 1 /\ ApplyEffect
    <3>1. Head(effects).kind = "StartRepoScan"
      <4>1. effects # <<>> BY <2>2, EffectsShrink
      <4> QED BY <1>5, <2>2, <4>1, Applied
    <3>2. StartRepoScan
        BY <2>2, <3>1 DEF ApplyEffect, ConfigureWatcher, ScheduleWatcherDebounce,
            SpawnSummaryWorker, ReceiveSummary, RefreshDone, LoadRepoDetail, RunGitCommand,
            PersistCacheStep, Applying
    <3> DEFINE e == [kind |-> "RepoScanCompleted", repos |-> present]
    <3>3. FollowUp(e) /\ queue' = queue
      <4>1. ~Fault("scan") BY <1>5, <1>7 DEF Fault
      <4> QED BY <3>2, <4>1 DEF StartRepoScan
    <3>4. e \in Event /\ e.kind = "RepoScanCompleted"
      <4>1. present \in SUBSET Repos BY DEF JobInv, DebounceInv, TypeOK
      <4> QED BY <4>1, EventForms
    <3> HIDE DEF e
    <3>5. 1 \in DOMAIN t /\ t[1] = e BY <3>3, <3>4, OneArrives
    <3>6. Len(Line) + 1 \in DOMAIN Line' /\ Line'[Len(Line) + 1] = e BY <3>5, GrownParts
    <3> QED BY <3>4, <3>6 DEF ScanUnderWay
  <2> QED BY <2>1, <2>2, EffectsShrink
<1> QED BY <1>2, <1>3, <1>4, <1>5 DEF ScanUnderWay
\* The part of WatchCovers the rest of the loop can disturb.
LEMMA CoverLoop ==
    ASSUME WatchKept', JobInv, WatchFirst, WatchCovers, [Next]_vars, ~Dispatch, ~Stop
    PROVE  /\ ws'.discovered \subseteq present'
           /\ WatchAsked' => ws'.discovered = present'
           /\ watcher'.configured => watcher'.paths = present'
           /\ ws'.discovered # {} => watcher'.configured \/ ScanUnderWay'
           /\ active' # None => watcher'.configured /\ active' \in present'
           /\ \A i \in DOMAIN Line' :
                /\ Line'[i].kind = "RepoScanCompleted" => Line'[i].repos = present'
                /\ Line'[i].kind = "EnterRepoMode" =>
                    watcher'.configured /\ Line'[i].repo \in present'
<1>1. PICK t : GrowsBy(t) BY LineGrows
<1>2. present' = present BY PresentStays
<1>3. /\ \/ watcher' = watcher
         \/ /\ ConfigureWatcher
            /\ watcher'.configured /\ watcher'.paths = Head(effects).repos
    BY WatcherMoves DEF WatchKept, JobInv, DebounceInv
<1>4. watcher.configured => watcher'.configured BY <1>3
<1>5. watcher'.configured => watcher'.paths = present'
  <2>1. CASE watcher' = watcher BY <1>2, <2>1 DEF WatchCovers
  <2>2. CASE ConfigureWatcher /\ watcher'.paths = Head(effects).repos
    <3>1. WatchAsked /\ effects = ScanEffects(ws.discovered) BY <2>2, AskedKept
    <3> DEFINE a == Watch(ws.discovered)
               b == Refresh(ws.discovered)
    <3>2. a.repos = ws.discovered BY DEF Watch
    <3>3. effects = <<a, b, PersistCache>> BY <3>1 DEF ScanEffects
    <3> HIDE DEF a, b
    <3>4. Head(effects) = a BY <3>3
    <3> QED BY <1>2, <2>2, <3>1, <3>2, <3>4 DEF WatchCovers
  <2> QED BY <1>3, <2>1, <2>2
<1>6. \A i \in DOMAIN Line' :
        /\ Line'[i].kind = "RepoScanCompleted" => Line'[i].repos = present'
        /\ Line'[i].kind = "EnterRepoMode" => watcher'.configured /\ Line'[i].repo \in present'
  <2>1. ASSUME NEW i \in DOMAIN Line
        PROVE  /\ Line[i].kind = "RepoScanCompleted" => Line[i].repos = present'
               /\ Line[i].kind = "EnterRepoMode" =>
                    watcher'.configured /\ Line[i].repo \in present'
      BY <1>2, <1>4 DEF WatchCovers
  <2>2. ASSUME NEW k \in DOMAIN t
        PROVE  /\ t[k].kind = "RepoScanCompleted" => t[k].repos = present'
               /\ t[k].kind = "EnterRepoMode" =>
                    watcher'.configured /\ t[k].repo \in present'
    <3>1. Fits(t[k], t) BY <1>1 DEF GrowsBy
    <3>2. t[k].kind = "RepoScanCompleted" => t[k].repos = present BY <3>1 DEF Fits
    <3>3. ASSUME t[k].kind = "EnterRepoMode"
          PROVE  watcher.configured /\ t[k].repo \in present
      <4>1. phase = "idle" /\ t[k].repo \in ws.discovered BY <3>1, <3>3 DEF Fits
      <4>2. Line = <<>> /\ effects = <<>> BY <4>1, LineEmpty
      <4>3. ~ScanUnderWay BY <4>2 DEF ScanUnderWay, WatchAsked
      <4> QED BY <4>1, <4>3 DEF WatchCovers
    <3> QED BY <1>2, <1>4, <3>2, <3>3
  <2> QED BY <1>1, <2>1, <2>2, GrownParts
<1>7. CASE Boot
  <2>1. Line = <<>> /\ effects = <<>> /\ followUps = <<>> BY <1>7, LineEmpty DEF Boot
  <2>2. /\ effects' = <<>> /\ active' = active /\ phase = "down" /\ watcher' = watcher
        /\ queue' = <<Plain("RefreshVisibleRepos")>> /\ followUps' = <<>>
      BY <1>7, <2>1 DEF Boot, backendVars
  <2>3. ~WatchAsked' BY <2>2 DEF WatchAsked
  <2>4. active' = None BY <2>2 DEF WatchCovers, WatchFirst
  <2>5. ws'.discovered # {} => cache # None /\ ws'.discovered = cache.discovered
      BY <1>7, BootLoads
  <2>6. ws'.discovered \subseteq present' BY <1>2, <2>5 DEF WatchCovers
  <2>7. ASSUME ws'.discovered # {} PROVE ScanUnderWay'
    <3>1. "crash" \in env'.suffered /\ "scan" \notin env'.suffered
      <4>1. env' = env BY <1>7 DEF Boot, envVars
      <4>2. "crash" \in env.suffered BY <2>2, <2>5, <2>7 DEF WatchCovers
      <4> QED BY <4>1, <4>2 DEF WatchKept
    <3> DEFINE e == Plain("RefreshVisibleRepos")
    <3>2. e \in Event /\ e.kind = "RefreshVisibleRepos" BY EventForms DEF PlainEvents, Plain
    <3>3. queue' = <<e>> BY <2>2
    <3> HIDE DEF e
    <3>4. <<e>> \in Seq(Event) BY <3>2
    <3>5. Line' = <<e>> BY <2>2, <3>3, <3>4, LineIsQueue DEF Line
    <3>6. 1 \in DOMAIN Line' /\ Line'[1] = e BY <3>5
    <3> QED BY <3>1, <3>2, <3>6 DEF ScanUnderWay
  <2> QED BY <1>5, <1>6, <2>3, <2>4, <2>6, <2>7
<1>8. CASE UNCHANGED <<ws, active, detail>>
  <2>1. WatchAsked' => WatchAsked BY AskedKept
  <2>2. ws.discovered # {} => watcher'.configured \/ ScanUnderWay'
      BY <1>1, <1>4, ScanGoesOn DEF WatchCovers
  <2> QED BY <1>2, <1>4, <1>5, <1>6, <1>8, <2>1, <2>2 DEF WatchCovers
<1> QED BY <1>7, <1>8, WorkspaceStays

LEMMA StepCovers ==
    ASSUME WatchKept', JobInv, WatchFirst, WatchCovers, [Next]_vars
    PROVE  WatchCovers'
<1>1. /\ cache' # None => cache'.discovered \subseteq present'
      /\ cache' # None /\ phase' = "down" => "crash" \in env'.suffered
    BY CoverCache
<1>2. CASE Dispatch BY <1>1, <1>2, CoverDispatch DEF WatchCovers
<1>3. CASE ~Dispatch /\ ~Stop BY <1>1, <1>3, CoverLoop DEF WatchCovers
<1>4. CASE Stop
  <2>1. /\ ws'.discovered = {} /\ effects' = <<>> /\ ~watcher'.configured /\ active' = None
        /\ queue' = <<>> /\ followUps' = <<>>
      BY <1>4 DEF Stop, EmptyWorkspace, Unconfigured
  <2>2. Line' = <<>> BY <2>1 DEF Line
  <2>3. ~WatchAsked' BY <2>1 DEF WatchAsked
  <2> QED BY <1>1, <2>1, <2>2, <2>3 DEF WatchCovers
<1> QED BY <1>2, <1>3, <1>4

\* A handler reloads the detail, or shows the one that has been read.
LEMMA DispatchLooks ==
    ASSUME JobInv, DetailInv, Dispatch, active' # None
    PROVE  (DetailAsked \/ DetailTells)'
<1>1. PICK h \in Event :
        /\ TypeOK /\ Reduce(h) /\ effects = <<>> /\ h = Line[1] /\ 1 \in DOMAIN Line
        /\ \A i \in DOMAIN Line : i = 1 \/ (i - 1 \in DOMAIN Line' /\ Line'[i - 1] = Line[i])
        /\ \A i \in DOMAIN Line' : i + 1 \in DOMAIN Line /\ Line'[i] = Line[i + 1]
        /\ \A i \in DOMAIN Line' : i \in Nat /\ i > 0
        /\ \A i \in DOMAIN Line : i \in Nat
    BY Dispatched
<1>2. UNCHANGED <<disk, backendQ>> BY DEF Dispatch, envVars, backendVars
<1>3. ListMoves(h) BY <1>1, ReduceWorkspace
<1>4. /\ active' = IF h.kind = "EnterRepoMode" THEN h.repo
                   ELSE IF h.kind = "LeaveRepoMode" THEN None ELSE active
      /\ h.kind \notin {"EnterRepoMode", "LeaveRepoMode"} =>
           detail' = IF LoadedOf(h, active) THEN h.ver ELSE detail
      /\ h.kind = "EnterRepoMode" => effects' = <<LoadDetail(h.repo)>>
      /\ h.kind = "WatcherDebounceFlush" /\ active \in ws.invalidations =>
           \E i \in DOMAIN effects' : effects'[i] = LoadDetail(active)
    BY <1>1, ReduceView
<1>5. CASE h.kind = "EnterRepoMode"
  <2>1. active' = h.repo /\ effects' = <<LoadDetail(h.repo)>> BY <1>4, <1>5
  <2>2. PICK a : a = LoadDetail(h.repo) OBVIOUS
  <2>3. 1 \in DOMAIN effects' /\ effects'[1] = a BY <2>1, <2>2
  <2> QED BY <2>1, <2>2, <2>3 DEF DetailAsked, LoadDetail, About
<1>6. CASE h.kind # "EnterRepoMode"
  <2>1. /\ h.kind # "LeaveRepoMode" /\ active' = active /\ active # None
        /\ detail' = IF LoadedOf(h, active) THEN h.ver ELSE detail
      BY <1>4, <1>6
  <2>2. DetailAsked \/ DetailTells BY <2>1 DEF DetailInv
  <2>3. CASE active \in ws.invalidations
    <3>1. CASE h.kind = "WatcherDebounceFlush"
      <4>1. PICK i \in DOMAIN effects' : effects'[i] = LoadDetail(active)
          BY <1>4, <2>3, <3>1
      <4> QED BY <2>1, <4>1 DEF DetailAsked, LoadDetail, About
    <3>2. CASE h.kind # "WatcherDebounceFlush"
      <4>1. active \in ws'.invalidations BY <1>3, <2>3, <3>2 DEF ListMoves
      <4> QED BY <2>1, <4>1 DEF DetailAsked
    <3> QED BY <3>1, <3>2
  <2>4. ASSUME NEW i \in DOMAIN Line, Line[i] = About("RepoInvalidated", active)
        PROVE  DetailAsked'
    <3>1. CASE i = 1
      <4>1. h.kind = "RepoInvalidated" /\ h.repo = active BY <1>1, <2>4, <3>1 DEF About
      <4>2. active \in ws'.invalidations BY <1>3, <4>1 DEF ListMoves
      <4> QED BY <2>1, <4>2 DEF DetailAsked
    <3>2. CASE i # 1
      <4>1. i - 1 \in DOMAIN Line' /\ Line'[i - 1] = About("RepoInvalidated", active)
          BY <1>1, <2>4, <3>2
      <4> QED BY <2>1, <4>1 DEF DetailAsked, About
    <3> QED BY <3>1, <3>2
  <2>5. CASE \E i \in DOMAIN backendQ : backendQ[i] = About("RepoInvalidated", active)
      BY <1>2, <2>1, <2>5 DEF DetailAsked, About
  <2>6. CASE \E i \in DOMAIN effects : effects[i] = LoadDetail(active) BY <1>1, <2>6
  <2>7. CASE DetailTells BY <1>1, <1>2, <2>1, <2>7, DispatchDetail
  <2> QED BY <2>2, <2>3, <2>4, <2>5, <2>6, <2>7 DEF DetailAsked
<1> QED BY <1>5, <1>6

\* Between two handlers the detail is read when that was asked for, and a
\* change under the watch is reported.
LEMMA LoopLooks ==
    ASSUME WatchKept', Reporting, JobInv, DetailInv, [Next]_vars, ~Dispatch, ~Stop, active' # None
    PROVE  (DetailAsked \/ DetailTells)'
<1>1. PICK t : GrowsBy(t) BY LineGrows
<1>2. TypeOK /\ WatchFirst /\ WatchCovers BY DEF JobInv, DebounceInv, DetailInv
<1>3. active' = active BY WorkspaceStays DEF Boot
<1>4. /\ active # None /\ active \in present /\ watcher.configured /\ phase # "down"
      /\ Watching(active) /\ active \in Repos
  <2>1. active # None BY <1>3
  <2>2. active \in present /\ watcher.configured /\ watcher.paths = present
      BY <1>2, <2>1 DEF WatchCovers
  <2>3. watcher.up /\ phase # "down" BY <1>2, <2>2 DEF WatchFirst
  <2> QED BY <1>2, <2>1, <2>2, <2>3 DEF Watching, TypeOK
<1>5. UNCHANGED <<ws, active, detail>> BY <1>4, LoopStays
<1>6. DetailAsked \/ DetailTells BY <1>4 DEF DetailInv
<1>7. CASE active \in ws.invalidations BY <1>5, <1>7 DEF DetailAsked
<1>8. ASSUME NEW i \in DOMAIN Line, Line[i] = About("RepoInvalidated", active)
      PROVE  DetailAsked'
  <2>1. i \in DOMAIN Line' /\ Line'[i] = Line[i] BY <1>1, GrownParts
  <2> QED BY <1>5, <1>8, <2>1 DEF DetailAsked, About
<1>9. ASSUME NEW k \in DOMAIN backendQ, backendQ[k] = About("RepoInvalidated", active)
      PROVE  DetailAsked'
  <2>1. \/ k \in DOMAIN backendQ' /\ backendQ'[k] = backendQ[k]
        \/ \E i \in DOMAIN t : t[i] = backendQ[k]
      BY <1>1 DEF GrowsBy, Delivered
  <2>2. CASE k \in DOMAIN backendQ' /\ backendQ'[k] = backendQ[k]
      BY <1>5, <1>9, <2>2 DEF DetailAsked, About
  <2>3. ASSUME NEW i \in DOMAIN t, t[i] = backendQ[k] PROVE DetailAsked'
    <3>1. Len(Line) + i \in DOMAIN Line' /\ Line'[Len(Line) + i] = t[i]
        BY <1>1, GrownParts
    <3> QED BY <1>5, <1>9, <2>3, <3>1 DEF DetailAsked, About
  <2> QED BY <2>1, <2>2, <2>3
<1>10. ASSUME NEW i \in DOMAIN effects, effects[i] = LoadDetail(active)
       PROVE  (DetailAsked \/ DetailTells)'
  <2>1. CASE \E k \in DOMAIN effects' : effects'[k] = effects[i]
      BY <1>5, <1>10, <2>1 DEF DetailAsked, LoadDetail, About
  <2>2. CASE i = 1 /\ ApplyEffect
    <3>1. Head(effects).kind = "LoadRepoDetail" /\ Head(effects).repo = active
      <4>1. effects # <<>> BY <2>2, EffectsShrink
      <4> QED BY <1>10, <2>2, <4>1, Applied DEF LoadDetail, About
    <3>2. LoadRepoDetail
        BY <2>2, <3>1 DEF ApplyEffect, StartRepoScan, ConfigureWatcher,
            ScheduleWatcherDebounce, SpawnSummaryWorker, ReceiveSummary, RefreshDone,
            RunGitCommand, PersistCacheStep, Applying
    <3> DEFINE e == [kind |-> "RepoDetailLoaded", repo |-> active, ver |-> disk[active]]
    <3>3. FollowUp(e) /\ queue' = queue
      <4>1. ~Fault("detail") BY DEF Fault, WatchKept
      <4> QED BY <1>4, <3>1, <3>2, <4>1 DEF LoadRepoDetail
    <3>4. e \in Event /\ LoadedOf(e, active)
      <4>1. disk[active] \in Nat BY <1>2, <1>4 DEF TypeOK
      <4> QED BY <1>4, <4>1, EventForms DEF ReadEvents, LoadedOf
    <3> HIDE DEF e
    <3>5. 1 \in DOMAIN t /\ t[1] = e BY <1>1, <3>3, <3>4, OneArrives
    <3>6. LoadedOf(t[1], active) BY <3>4, <3>5
    <3> QED BY <1>1, <1>4, <1>5, <3>5, <3>6, DetailArrives
  <2> QED BY <2>1, <2>2, EffectsShrink
<1>11. CASE DetailTells
  <2>1. CASE disk'[active] = disk[active]
      BY <1>1, <1>4, <1>5, <1>11, <2>1, DetailKept
  <2>2. CASE Notify(active)
    <3> DEFINE e == About("RepoInvalidated", active)
    <3>1. backendQ' = Append(backendQ, e) BY <1>4, <2>2 DEF Notify
    <3>2. backendQ \in Seq(Event) BY <1>2, LineTypes
    <3>3. e = About("RepoInvalidated", active) OBVIOUS
    <3> HIDE DEF e
    <3>4. Len(backendQ) + 1 \in DOMAIN backendQ' /\ backendQ'[Len(backendQ) + 1] = e
        BY <3>1, <3>2
    <3> QED BY <1>5, <3>3, <3>4 DEF DetailAsked, About
  <2>3. ~AddRepo(active) BY <1>4 DEF AddRepo
  <2> QED BY <1>2, <1>4, <2>1, <2>2, <2>3, ChangesNotify
<1> QED BY <1>6, <1>7, <1>8, <1>9, <1>10, <1>11 DEF DetailAsked

\* Under a reporting backend, and as long as the watch is kept, the repository
\* in repo mode is shown, whenever run() has returned and nothing is left to
\* drain, as it is on disk: the screen behind the workspace is not forgotten
\* by any order of scans, flushes, commands and restarts.
THEOREM DetailCurrentHolds == Spec => []DetailCurrentWhenIdle
<1> DEFINE Kept == WatchKept /\ Reporting
           Inv == JobInv /\ (Kept => DetailInv)
<1>1. Init => Inv
  <2>1. Init => DetailInv
    <3> SUFFICES ASSUME Init PROVE DetailInv
        OBVIOUS
    <3>1. /\ effects = <<>> /\ backendQ = <<>> /\ ~watcher.configured /\ cache = None
          /\ active = None /\ ws.discovered = {} /\ queue = <<>> /\ followUps = <<>>
        BY DEF Init, EmptyWorkspace, Unconfigured
    <3>2. Line = <<>> BY <3>1 DEF Line
    <3> QED BY <3>1, <3>2 DEF DetailInv, WatchFirst, WatchLost, WatchAsked, WatchCovers
  <2> QED BY <2>1, InitJobs
<1>2. Inv /\ [Next]_vars => Inv'
  <2> SUFFICES ASSUME JobInv, Kept => DetailInv, [Next]_vars, Kept' PROVE DetailInv'
      BY StepJobs
  <2>1. Kept /\ DetailInv
    <3>1. env.suffered \subseteq env'.suffered /\ watcher'.backend = watcher.backend
        BY FaultsRemembered DEF JobInv, DebounceInv
    <3> QED BY <3>1 DEF WatchKept, Reporting
  <2>2. WatchCovers' BY <2>1, StepCovers DEF DetailInv
  <2>3. /\ WatchAsked' => effects' = ScanEffects(ws'.discovered)
        /\ watcher'.configured => watcher'.up /\ phase' # "down"
        /\ \A i \in DOMAIN backendQ' : ~WatchNews(backendQ'[i])
      BY <2>1, WatchFirstKept DEF DetailInv, WatchKept
  <2>4. WatchLost' \/ WatchAsked' \/ ws'.discovered \subseteq watcher'.paths
      BY <2>2 DEF WatchCovers, WatchLost
  <2>5. WatchFirst' BY <2>3, <2>4 DEF WatchFirst
  <2>6. ASSUME active' # None PROVE (DetailAsked \/ DetailTells)'
    <3>1. CASE Dispatch BY <2>1, <2>6, <3>1, DispatchLooks
    <3>2. CASE ~Dispatch /\ ~Stop BY <2>1, <2>6, <3>2, LoopLooks
    <3>3. ~Stop BY <2>6 DEF Stop
    <3> QED BY <3>1, <3>2, <3>3
  <2> QED BY <2>2, <2>5, <2>6 DEF DetailInv
<1>3. Inv => DetailCurrentWhenIdle
  <2> SUFFICES ASSUME JobInv, DetailInv, phase = "idle", backendQ = <<>>, active # None
               PROVE  detail = disk[active]
      BY DEF DetailCurrentWhenIdle
  <2>1. Line = <<>> /\ effects = <<>> BY LineEmpty
  <2>2. ws.invalidations = {}
    <3>1. queue = <<>> /\ effects = <<>> /\ ~debounceScheduled
        BY DEF JobInv, DebounceInv, FlushDiscipline
    <3>2. ~ScheduleAsked /\ ~FlushQueued BY <3>1 DEF ScheduleAsked, FlushQueued
    <3> QED BY <3>1, <3>2 DEF JobInv, DebounceInv, DebounceCoupled
  <2>3. ~DetailAsked BY <2>1, <2>2 DEF DetailAsked
  <2>4. DetailTells BY <2>3 DEF DetailInv
  <2> QED BY <2>1, <2>4 DEF DetailTells
<1> QED BY <1>1, <1>2, <1>3, PTL DEF Spec

-----------------------------------------------------------------------------
(* The pool: where each job is, what the log tells of it, and the batch.   *)

Announced == Batch!StartedIn(events)
Answered == Batch!AnsweredIn(events)
Running == Batch!OnTheWay(events)
\* What an answer to job j may show.
Fresh(j) == (asked[j]..git[j]) \cup {Failed}

\* The log tells which jobs were taken, and active_workers counts
\* those not answered.
SlotsInv ==
    /\ Announced = 1..taken
    /\ Answered \subseteq 1..taken
    /\ IsFiniteSet(Running)
    /\ activeWorkers = Cardinality(Running)

\* Where each job is: not taken, in its thread, in the channel or answered.
ThreadsInv ==
    \A j \in PoolJobs :
        /\ worker[j] = "none" <=> j > taken
        /\ worker[j] \in {"reading", "sending"} => j \notin Answered
        /\ worker[j] = "gone" => \/ j \in Answered
                                 \/ \E i \in DOMAIN channel : channel[i].job = j
        /\ asked[j] <= git[j]
        /\ worker[j] = "sending" => read[j] \in Fresh(j)

ChannelInv ==
    /\ \A i \in DOMAIN channel :
        /\ worker[channel[i].job] = "gone"
        /\ channel[i].job \notin Answered
        /\ channel[i].result \in Fresh(channel[i].job)
    /\ \A i, k \in DOMAIN channel : channel[i].job = channel[k].job => i = k

\* What the main thread relies on where it stands.
PhaseInv ==
    /\ pc = "fill" => taken = activeWorkers
    /\ pc = "recv" => taken = N \/ activeWorkers = PoolWorkerLimit
    /\ pc = "refill" => taken = N \/ activeWorkers = PoolWorkerLimit - 1
    /\ pc = "returned" => activeWorkers = 0 /\ taken = N

PoolInv == PoolTypeOK /\ SlotsInv /\ ThreadsInv /\ ChannelInv /\ PhaseInv

----------------------------------------------------------------------------

\* An event adds its own job to the jobs announced or answered, and no other.
LEMMA LogGrows ==
    ASSUME NEW l \in Seq(Batch!Events), NEW j \in PoolJobs, NEW result \in Result
    PROVE  /\ Append(l, Batch!Started(j)) \in Seq(Batch!Events)
           /\ Append(l, Batch!Answer(j, result)) \in Seq(Batch!Events)
           /\ Batch!StartedIn(Append(l, Batch!Started(j))) = Batch!StartedIn(l) \cup {j}
           /\ Batch!AnsweredIn(Append(l, Batch!Started(j))) = Batch!AnsweredIn(l)
           /\ Batch!StartedIn(Append(l, Batch!Answer(j, result))) = Batch!StartedIn(l)
           /\ Batch!AnsweredIn(Append(l, Batch!Answer(j, result)))
                = Batch!AnsweredIn(l) \cup {j}
<1> DEFINE s == Batch!Started(j)
           a == Batch!Answer(j, result)
<1>1. s \in Batch!Events /\ s.kind = "RepoSummaryRefreshStarted" /\ s.job = j
  BY DEF Batch!Started, Batch!Events, PoolJobs
<1>2. a \in Batch!Events /\ a.kind = "Answer" /\ a.job = j
  BY DEF Batch!Answer, Batch!Events, PoolJobs, Result
<1>3. ASSUME NEW e \in Batch!Events
      PROVE  /\ Append(l, e) \in Seq(Batch!Events)
             /\ DOMAIN Append(l, e) = DOMAIN l \cup {Len(l) + 1}
             /\ \A i \in DOMAIN l : Append(l, e)[i] = l[i]
             /\ Append(l, e)[Len(l) + 1] = e
  <2>1. Append(l, e) \in Seq(Batch!Events) /\ Len(Append(l, e)) = Len(l) + 1
    BY AppendProperties
  <2>2. DOMAIN l = 1..Len(l) /\ DOMAIN Append(l, e) = 1..(Len(l) + 1) /\ Len(l) \in Nat
    BY <2>1, LenProperties
  <2> QED
    BY <2>1, <2>2, AppendProperties
<1> HIDE DEF s, a
<1>4. Append(l, s) \in Seq(Batch!Events) /\ Append(l, a) \in Seq(Batch!Events)
  BY <1>1, <1>2, <1>3
<1>5. Batch!StartedIn(Append(l, s)) = Batch!StartedIn(l) \cup {j}
  BY <1>1, <1>3 DEF Batch!StartedIn, PoolJobs
<1>6. Batch!AnsweredIn(Append(l, s)) = Batch!AnsweredIn(l)
  BY <1>1, <1>3 DEF Batch!AnsweredIn, PoolJobs
<1>7. Batch!StartedIn(Append(l, a)) = Batch!StartedIn(l)
  BY <1>2, <1>3 DEF Batch!StartedIn, PoolJobs
<1>8. Batch!AnsweredIn(Append(l, a)) = Batch!AnsweredIn(l) \cup {j}
  BY <1>2, <1>3 DEF Batch!AnsweredIn, PoolJobs
<1> QED
  BY <1>4, <1>5, <1>6, <1>7, <1>8 DEF s, a

\* Nothing is in an empty log.
LEMMA EmptyLog == Batch!StartedIn(<<>>) = {} /\ Batch!AnsweredIn(<<>>) = {}
BY DEF Batch!StartedIn, Batch!AnsweredIn

\* What is in the channel are outcomes.
LEMMA OutcomeTyped ==
    ASSUME NEW c \in Seq([job: PoolJobs, result: Result]), NEW i \in DOMAIN c
    PROVE  c[i].job \in PoolJobs /\ c[i].result \in Result
<1> DEFINE T == [job: PoolJobs, result: Result]
<1> HIDE DEF T
<1>1. c \in Seq(T) => c[i] \in T
  BY LenProperties, ElementOfSeq
<1> QED
  BY <1>1 DEF T

\* The pool starts in a state of the invariant.
LEMMA Initially == PoolInit => PoolInv
<1> SUFFICES ASSUME PoolInit PROVE PoolInv
  OBVIOUS
<1>1. Announced = {} /\ Answered = {}
  BY EmptyLog DEF PoolInit, Announced, Answered
<1>2. Running = {} /\ IsFiniteSet(Running) /\ Cardinality(Running) = 0
  BY <1>1, FS_EmptySet DEF Running, Announced, Answered, Batch!OnTheWay
<1>3. <<>> \in Seq([job: PoolJobs, result: Result]) /\ <<>> \in Seq(Batch!Events)
      /\ DOMAIN channel = {}
  BY EmptySeq DEF PoolInit
<1>4. PoolTypeOK
  BY <1>3, PoolAssumption DEF PoolInit, PoolTypeOK, PoolWorkerLimit, Result, Batch!Version
<1>5. SlotsInv
  BY <1>1, <1>2 DEF SlotsInv, PoolInit
<1>6. ThreadsInv
  BY <1>1, PoolAssumption DEF ThreadsInv, PoolInit, PoolJobs, Batch!Jobs
<1>7. ChannelInv
  BY <1>3 DEF ChannelInv
<1>8. PhaseInv
  BY DEF PhaseInv, PoolInit
<1> QED
  BY <1>4, <1>5, <1>6, <1>7, <1>8 DEF PoolInv

\* Taking the next repository: its job joins the running ones.
LEMMA SpawnKeeps ==
    ASSUME PoolInv, Spawn, taken < N, activeWorkers < PoolWorkerLimit,
           UNCHANGED <<git, read, channel>>, pc' \in {"fill", "recv"}
    PROVE  /\ PoolTypeOK' /\ SlotsInv' /\ ThreadsInv' /\ ChannelInv'
           /\ taken + 1 \in PoolJobs /\ taken + 1 \notin Announced
<1> USE PoolAssumption
<1> DEFINE j == taken + 1
<1>1. j \in PoolJobs /\ taken \in Nat /\ j > taken /\ ~(j \in 1..taken)
  BY DEF PoolInv, PoolTypeOK, PoolJobs, Batch!Jobs
<1>2. /\ Announced' = Announced \cup {j} /\ Answered' = Answered
      /\ events' \in Seq(Batch!Events)
  <2>1. 0 \in Result
    BY DEF Result, Batch!Version
  <2> QED
    BY <1>1, <2>1, LogGrows DEF PoolInv, PoolTypeOK, Spawn, Announced, Answered
<1>3. j \notin Announced /\ j \notin Answered
  BY <1>1 DEF PoolInv, SlotsInv
<1>4. PoolTypeOK'
  <2>1. /\ git' \in [PoolJobs -> Batch!Version] /\ asked' \in [PoolJobs -> Batch!Version]
    BY <1>1 DEF PoolInv, PoolTypeOK, Spawn
  <2>2. taken' \in 0..N /\ activeWorkers' \in 0..PoolWorkerLimit
    BY DEF PoolInv, PoolTypeOK, Spawn, PoolWorkerLimit
  <2>3. /\ worker' \in [PoolJobs -> {"none", "reading", "sending", "gone"}]
        /\ read' \in [PoolJobs -> Result]
    BY <1>1 DEF PoolInv, PoolTypeOK, Spawn
  <2>4. channel' \in Seq([job: PoolJobs, result: Result])
    BY DEF PoolInv, PoolTypeOK
  <2>5. pc' \in {"fill", "recv", "refill", "returned"}
    OBVIOUS
  <2> QED
    BY <1>2, <2>1, <2>2, <2>3, <2>4, <2>5, Zenon DEF PoolTypeOK, PoolJobs, Result
<1>5. SlotsInv'
  <2>1. Running' = Running \cup {j} /\ j \notin Running
    BY <1>2, <1>3 DEF Running, Announced, Answered, Batch!OnTheWay
  <2>2. /\ IsFiniteSet(Running')
        /\ Cardinality(Running') = Cardinality(Running) + 1
    BY <2>1, FS_AddElement DEF PoolInv, SlotsInv
  <2>3. Announced' = 1..taken' /\ Answered' \subseteq 1..taken'
    BY <1>1, <1>2 DEF PoolInv, SlotsInv, Spawn
  <2> QED
    BY <2>2, <2>3 DEF PoolInv, SlotsInv, Spawn
<1>6. ThreadsInv'
  <2> SUFFICES ASSUME NEW k \in PoolJobs
               PROVE  /\ worker'[k] = "none" <=> k > taken'
                      /\ worker'[k] \in {"reading", "sending"} => k \notin Answered'
                      /\ worker'[k] = "gone" => \/ k \in Answered'
                                                \/ \E i \in DOMAIN channel' : channel'[i].job = k
                      /\ asked'[k] <= git'[k]
                      /\ worker'[k] = "sending" => read'[k] \in Fresh(k)'
    BY DEF ThreadsInv, PoolJobs
  <2>1. CASE k = j
    <3>1. worker'[j] = "reading" /\ asked'[j] = git'[j] /\ git'[j] \in Nat
      BY <1>1 DEF PoolInv, PoolTypeOK, Spawn, Batch!Version
    <3> QED
      BY <1>1, <1>2, <1>3, <2>1, <3>1 DEF Spawn
  <2>2. CASE k # j
    <3>1. worker'[k] = worker[k] /\ asked'[k] = asked[k] /\ Fresh(k)' = Fresh(k)
      BY <1>1, <2>2 DEF PoolInv, PoolTypeOK, Spawn, Fresh
    <3>2. k > taken <=> k > taken'
      BY <1>1, <2>2 DEF Spawn, PoolJobs, Batch!Jobs
    <3> QED
      BY <1>2, <3>1, <3>2 DEF PoolInv, ThreadsInv
  <2> QED
    BY <2>1, <2>2
<1>7. ChannelInv'
  <2>1. ASSUME NEW i \in DOMAIN channel
        PROVE  /\ worker'[channel[i].job] = "gone"
               /\ channel[i].job \notin Answered'
               /\ channel[i].result \in Fresh(channel[i].job)'
    <3> DEFINE k == channel[i].job
    <3>1. k \in PoolJobs /\ worker[k] = "gone"
      BY OutcomeTyped DEF PoolInv, PoolTypeOK, ChannelInv
    <3>2. worker[j] = "none"
      BY <1>1 DEF PoolInv, ThreadsInv
    <3>3. worker'[k] = worker[k] /\ asked'[k] = asked[k] /\ Fresh(k)' = Fresh(k)
      BY <1>1, <3>1, <3>2 DEF PoolInv, PoolTypeOK, Spawn, Fresh
    <3> QED
      BY <1>2, <3>1, <3>3 DEF PoolInv, ChannelInv
  <2> QED
    BY <2>1 DEF PoolInv, ChannelInv
<1> QED
  BY <1>1, <1>3, <1>4, <1>5, <1>6, <1>7

----------------------------------------------------------------------------
\* Each step of the main thread, of a worker and of the environment.

LEMMA FillKeeps == ASSUME PoolInv, Fill PROVE PoolInv'
<1>1. taken < N /\ activeWorkers < PoolWorkerLimit /\ taken = activeWorkers
  BY PoolAssumption DEF PoolInv, PhaseInv, PoolTypeOK, Fill, HasRoom, PoolWorkerLimit
<1>2. PoolTypeOK' /\ SlotsInv' /\ ThreadsInv' /\ ChannelInv'
  BY <1>1, SpawnKeeps DEF Fill
<1>3. PhaseInv'
  BY <1>1 DEF PhaseInv, Fill, Spawn
<1> QED
  BY <1>2, <1>3 DEF PoolInv

LEMMA FillDoneKeeps == ASSUME PoolInv, FillDone PROVE PoolInv'
<1> USE DEF FillDone
<1>1. PoolTypeOK'
  BY DEF PoolInv, PoolTypeOK
<1>2. SlotsInv' /\ ThreadsInv' /\ ChannelInv'
  BY DEF PoolInv, SlotsInv, ThreadsInv, ChannelInv, Announced, Answered, Running, Fresh
<1>3. PhaseInv'
  BY PoolAssumption DEF PoolInv, PhaseInv, PoolTypeOK, HasRoom, PoolWorkerLimit
<1> QED
  BY <1>1, <1>2, <1>3 DEF PoolInv

LEMMA RefillKeeps == ASSUME PoolInv, Refill PROVE PoolInv'
<1>1. CASE taken < N /\ Spawn
  <2>1. activeWorkers = PoolWorkerLimit - 1 /\ activeWorkers < PoolWorkerLimit
    BY <1>1, PoolAssumption DEF PoolInv, PhaseInv, Refill, PoolTypeOK, PoolWorkerLimit
  <2>2. PoolTypeOK' /\ SlotsInv' /\ ThreadsInv' /\ ChannelInv'
    BY <1>1, <2>1, SpawnKeeps DEF Refill
  <2>3. PhaseInv'
    BY <1>1, <2>1, PoolAssumption DEF PhaseInv, Refill, Spawn, PoolWorkerLimit
  <2> QED
    BY <2>2, <2>3 DEF PoolInv
<1>2. CASE taken = N /\ UNCHANGED <<asked, taken, activeWorkers, worker, events>>
  <2> USE <1>2 DEF Refill
  <2>1. PoolTypeOK'
    BY DEF PoolInv, PoolTypeOK
  <2>2. SlotsInv' /\ ThreadsInv' /\ ChannelInv'
    BY DEF PoolInv, SlotsInv, ThreadsInv, ChannelInv, Announced, Answered, Running, Fresh
  <2>3. PhaseInv'
    BY DEF PhaseInv
  <2> QED
    BY <2>1, <2>2, <2>3 DEF PoolInv
<1> QED
  BY <1>1, <1>2 DEF Refill

LEMMA ReturnKeeps == ASSUME PoolInv, Return PROVE PoolInv'
<1> USE DEF Return
<1>1. PoolTypeOK'
  BY DEF PoolInv, PoolTypeOK
<1>2. SlotsInv' /\ ThreadsInv' /\ ChannelInv'
  BY DEF PoolInv, SlotsInv, ThreadsInv, ChannelInv, Announced, Answered, Running, Fresh
<1>3. PhaseInv'
  BY PoolAssumption DEF PoolInv, PhaseInv, PoolTypeOK, PoolWorkerLimit
<1> QED
  BY <1>1, <1>2, <1>3 DEF PoolInv

\* The head of the channel is an outcome of a running job, and no other
\* outcome in the channel is of this job.
LEMMA HeadRuns ==
    ASSUME PoolInv, channel # <<>>
    PROVE  /\ Head(channel).job \in Running
           /\ Head(channel).job \in PoolJobs
           /\ Head(channel).result \in Fresh(Head(channel).job)
           /\ Head(channel).result \in Result
           /\ Tail(channel) \in Seq([job: PoolJobs, result: Result])
           /\ \A i \in DOMAIN Tail(channel) :
                /\ i + 1 \in DOMAIN channel
                /\ Tail(channel)[i] = channel[i + 1]
                /\ channel[i + 1].job # Head(channel).job
           /\ \A i \in DOMAIN channel :
                channel[i].job # Head(channel).job =>
                  \E k \in DOMAIN Tail(channel) : Tail(channel)[k].job = channel[i].job
<1> DEFINE T == [job: PoolJobs, result: Result]
<1> HIDE DEF T
<1>1. channel \in Seq(T)
  BY DEF PoolInv, PoolTypeOK, T
<1>2. /\ Len(channel) \in Nat \ {0} /\ DOMAIN channel = 1..Len(channel)
      /\ 1 \in DOMAIN channel /\ Head(channel) = channel[1]
      /\ Tail(channel) \in Seq(T) /\ Len(Tail(channel)) = Len(channel) - 1
      /\ \A i \in 1..Len(Tail(channel)) : Tail(channel)[i] = channel[i + 1]
  BY <1>1, EmptySeq, LenProperties, HeadTailProperties
<1>3. DOMAIN Tail(channel) = 1..(Len(channel) - 1)
  BY <1>2, LenProperties
<1>4. Head(channel).job \in PoolJobs /\ Head(channel).result \in Result
  BY <1>1, <1>2, OutcomeTyped DEF T
<1>5. Head(channel).job \in Running
  <2>1. /\ worker[Head(channel).job] = "gone"
        /\ Head(channel).job \notin Answered
    BY <1>2 DEF PoolInv, ChannelInv
  <2>2. Head(channel).job \in 1..taken
    BY <1>4, <2>1, PoolAssumption DEF PoolInv, ThreadsInv, PoolTypeOK, PoolJobs, Batch!Jobs
  <2> QED
    BY <2>1, <2>2 DEF PoolInv, SlotsInv, Running, Announced, Answered, Batch!OnTheWay
<1>6. Head(channel).result \in Fresh(Head(channel).job)
  BY <1>2 DEF PoolInv, ChannelInv
<1>7. ASSUME NEW i \in DOMAIN Tail(channel)
      PROVE  /\ i + 1 \in DOMAIN channel
             /\ Tail(channel)[i] = channel[i + 1]
             /\ channel[i + 1].job # Head(channel).job
  <2>1. i \in Nat /\ i + 1 \in DOMAIN channel /\ i + 1 # 1
    BY <1>2, <1>3
  <2> QED
    BY <1>2, <1>3, <2>1 DEF PoolInv, ChannelInv
<1>8. ASSUME NEW i \in DOMAIN channel, channel[i].job # Head(channel).job
      PROVE  \E k \in DOMAIN Tail(channel) : Tail(channel)[k].job = channel[i].job
  <2>1. i # 1 /\ i - 1 \in DOMAIN Tail(channel) /\ (i - 1) + 1 = i
    BY <1>2, <1>3, <1>8
  <2>2. Tail(channel)[i - 1].job = channel[i].job
    BY <1>7, <2>1
  <2> QED
    BY <2>1, <2>2
<1> QED
  BY <1>2, <1>4, <1>5, <1>6, <1>7, <1>8 DEF T

LEMMA ReceiveKeeps == ASSUME PoolInv, Receive PROVE PoolInv'
<1> DEFINE j == Head(channel).job
           result == Head(channel).result
<1>1. /\ j \in Running /\ j \in PoolJobs /\ result \in Result
      /\ Tail(channel) \in Seq([job: PoolJobs, result: Result])
      /\ \A i \in DOMAIN Tail(channel) :
            /\ i + 1 \in DOMAIN channel
            /\ Tail(channel)[i] = channel[i + 1]
            /\ channel[i + 1].job # j
      /\ \A i \in DOMAIN channel :
            channel[i].job # j =>
              \E k \in DOMAIN Tail(channel) : Tail(channel)[k].job = channel[i].job
  BY HeadRuns DEF Receive
<1>2. channel' = Tail(channel) /\ events' = Append(events, Batch!Answer(j, result))
  BY DEF Receive
<1> HIDE DEF j, result
<1>3. /\ Announced' = Announced /\ Answered' = Answered \cup {j}
      /\ events' \in Seq(Batch!Events)
  BY <1>1, <1>2, LogGrows DEF PoolInv, PoolTypeOK, Announced, Answered
<1>4. j \in 1..taken
  BY <1>1 DEF PoolInv, SlotsInv, Running, Announced, Batch!OnTheWay
<1>5. PoolTypeOK'
  <2>1. activeWorkers' \in 0..PoolWorkerLimit
    BY PoolAssumption DEF PoolInv, PoolTypeOK, Receive, PoolWorkerLimit
  <2> QED
    BY <1>1, <1>2, <1>3, <2>1 DEF PoolInv, PoolTypeOK, Receive
<1>6. SlotsInv'
  <2>1. Running' = Running \ {j}
    BY <1>3 DEF Running, Announced, Answered, Batch!OnTheWay
  <2>2. IsFiniteSet(Running') /\ Cardinality(Running') = Cardinality(Running) - 1
    BY <1>1, <2>1, FS_RemoveElement DEF PoolInv, SlotsInv
  <2> QED
    BY <1>3, <1>4, <2>2 DEF PoolInv, SlotsInv, Receive
<1>7. ThreadsInv'
  <2>1. ASSUME NEW k \in PoolJobs, worker[k] \in {"reading", "sending"}
        PROVE  k # j
    <3>1. \E i \in DOMAIN channel : worker[channel[i].job] = "gone" /\ channel[i].job = j
      <4>1. channel # <<>> /\ channel \in Seq([job: PoolJobs, result: Result])
        BY DEF Receive, PoolInv, PoolTypeOK
      <4>2. 1 \in DOMAIN channel /\ Head(channel) = channel[1]
        BY <4>1, EmptySeq, LenProperties, HeadTailProperties
      <4> QED
        BY <4>2 DEF j, PoolInv, ChannelInv
    <3> QED
      BY <2>1, <3>1
  <2>2. ASSUME NEW k \in PoolJobs, worker[k] = "gone"
        PROVE  \/ k \in Answered'
               \/ \E i \in DOMAIN channel' : channel'[i].job = k
    <3>1. k \in Answered \/ \E i \in DOMAIN channel : channel[i].job = k
      BY <2>2 DEF PoolInv, ThreadsInv
    <3>2. CASE k = j \/ k \in Answered
      BY <1>3, <3>2
    <3>3. CASE k # j /\ \E i \in DOMAIN channel : channel[i].job = k
      <4>1. \E i \in DOMAIN Tail(channel) : Tail(channel)[i].job = k
        BY <1>1, <3>3
      <4> QED
        BY <1>2, <4>1
    <3> QED
      BY <3>1, <3>2, <3>3
  <2> QED
    BY <1>3, <2>1, <2>2 DEF PoolInv, ThreadsInv, Receive, Fresh
<1>8. ChannelInv'
  <2>1. ASSUME NEW i \in DOMAIN channel'
        PROVE  /\ worker'[channel'[i].job] = "gone"
               /\ channel'[i].job \notin Answered'
               /\ channel'[i].result \in Fresh(channel[i].job)'
    <3>1. i \in DOMAIN Tail(channel)
      BY <1>2
    <3>2. /\ channel'[i] = channel[i + 1] /\ i + 1 \in DOMAIN channel
          /\ channel[i + 1].job # j
      BY <1>1, <1>2, <3>1
    <3>3. /\ worker[channel[i + 1].job] = "gone"
          /\ channel[i + 1].job \notin Answered
          /\ channel[i + 1].result \in Fresh(channel[i + 1].job)
      BY <3>2 DEF PoolInv, ChannelInv
    <3>4. worker' = worker /\ asked' = asked /\ git' = git
      BY DEF Receive
    <3> QED
      BY <1>3, <3>2, <3>3, <3>4 DEF Fresh
  <2>2. ASSUME NEW i \in DOMAIN channel', NEW k \in DOMAIN channel',
               channel'[i].job = channel'[k].job
        PROVE  i = k
    <3>1. i \in DOMAIN Tail(channel) /\ k \in DOMAIN Tail(channel)
      BY <1>2
    <3>2. /\ i + 1 \in DOMAIN channel /\ k + 1 \in DOMAIN channel
          /\ channel[i + 1].job = channel[k + 1].job
      BY <1>1, <1>2, <2>2, <3>1
    <3>3. i + 1 = k + 1
      BY <3>2 DEF PoolInv, ChannelInv
    <3>4. i \in Nat /\ k \in Nat
      <4>1. DOMAIN Tail(channel) = 1..Len(Tail(channel))
        BY <1>1, LenProperties
      <4> QED
        BY <3>1, <4>1
    <3> QED
      BY <3>3, <3>4
  <2>3. \A i, k \in DOMAIN channel' : channel'[i].job = channel'[k].job => i = k
    BY <2>2
  <2>4. \A i \in DOMAIN channel' :
          /\ worker'[channel'[i].job] = "gone"
          /\ channel'[i].job \notin Answered'
          /\ channel'[i].result \in Fresh(channel[i].job)'
    BY <2>1
  <2> QED
    BY <2>3, <2>4, Zenon DEF ChannelInv, Fresh
<1>9. PhaseInv'
  BY PoolAssumption DEF PoolInv, PhaseInv, PoolTypeOK, Receive, PoolWorkerLimit
<1> QED
  BY <1>5, <1>6, <1>7, <1>8, <1>9 DEF PoolInv

LEMMA ReadKeeps == ASSUME PoolInv, NEW j \in PoolJobs, Read(j) PROVE PoolInv'
<1>1. PICK result \in {git[j], Failed} : read' = [read EXCEPT ![j] = result]
  BY DEF Read
<1>2. /\ worker[j] = "reading" /\ worker' = [worker EXCEPT ![j] = "sending"]
      /\ UNCHANGED <<git, asked, pc, taken, activeWorkers, events, channel>>
  BY DEF Read, mainVars
<1>3. PoolTypeOK'
  BY <1>1, <1>2 DEF PoolInv, PoolTypeOK, Result
<1>4. SlotsInv' /\ PhaseInv'
  BY <1>2 DEF PoolInv, SlotsInv, PhaseInv, Announced, Answered, Running
<1>5. ThreadsInv'
  <2> SUFFICES ASSUME NEW k \in PoolJobs
               PROVE  /\ worker'[k] = "none" <=> k > taken'
                      /\ worker'[k] \in {"reading", "sending"} => k \notin Answered'
                      /\ worker'[k] = "gone" => \/ k \in Answered'
                                                \/ \E i \in DOMAIN channel' : channel'[i].job = k
                      /\ asked'[k] <= git'[k]
                      /\ worker'[k] = "sending" => read'[k] \in Fresh(k)'
    BY DEF ThreadsInv, PoolJobs
  <2>1. Answered' = Answered /\ Fresh(k)' = Fresh(k)
    BY <1>2 DEF Answered, Fresh
  <2>2. CASE k = j
    <3>1. worker'[j] = "sending" /\ read'[j] = result
      BY <1>1, <1>2 DEF PoolInv, PoolTypeOK
    <3>2. git[j] \in Fresh(j) /\ Failed \in Fresh(j)
      BY DEF PoolInv, PoolTypeOK, ThreadsInv, Fresh, Batch!Version
    <3> QED
      BY <1>2, <2>1, <2>2, <3>1, <3>2 DEF PoolInv, ThreadsInv
  <2>3. CASE k # j
    <3>1. worker'[k] = worker[k] /\ read'[k] = read[k]
      BY <1>1, <1>2, <2>3 DEF PoolInv, PoolTypeOK
    <3> QED
      BY <1>2, <2>1, <3>1 DEF PoolInv, ThreadsInv
  <2> QED
    BY <2>2, <2>3
<1>6. ChannelInv'
  <2>1. ASSUME NEW i \in DOMAIN channel
        PROVE  worker'[channel[i].job] = "gone"
    <3>1. channel[i].job \in PoolJobs /\ worker[channel[i].job] = "gone"
      BY OutcomeTyped DEF PoolInv, PoolTypeOK, ChannelInv
    <3> QED
      BY <1>2, <3>1 DEF PoolInv, PoolTypeOK
  <2> QED
    BY <1>2, <2>1 DEF PoolInv, ChannelInv, Answered, Fresh
<1> QED
  BY <1>3, <1>4, <1>5, <1>6 DEF PoolInv

LEMMA SendKeeps == ASSUME PoolInv, NEW j \in PoolJobs, Send(j) PROVE PoolInv'
<1> DEFINE T == [job: PoolJobs, result: Result]
           o == [job |-> j, result |-> read[j]]
<1>1. /\ worker[j] = "sending" /\ worker' = [worker EXCEPT ![j] = "gone"]
      /\ channel' = Append(channel, o)
      /\ UNCHANGED <<git, asked, pc, taken, activeWorkers, events, read>>
  BY DEF Send, mainVars
<1>2. o \in T /\ o.job = j /\ o.result = read[j]
  BY DEF PoolInv, PoolTypeOK
<1>3. channel \in Seq(T)
  BY DEF PoolInv, PoolTypeOK
<1> HIDE DEF o, T
<1>4. /\ channel' \in Seq(T)
      /\ DOMAIN channel' = DOMAIN channel \cup {Len(channel) + 1}
      /\ \A i \in DOMAIN channel : channel'[i] = channel[i]
      /\ channel'[Len(channel) + 1] = o
  <2>1. channel' \in Seq(T) /\ Len(channel') = Len(channel) + 1
    BY <1>1, <1>2, <1>3, AppendProperties
  <2>2. /\ DOMAIN channel = 1..Len(channel) /\ Len(channel) \in Nat
        /\ DOMAIN channel' = 1..(Len(channel) + 1)
    BY <1>3, <2>1, LenProperties
  <2> QED
    BY <1>1, <1>2, <1>3, <2>1, <2>2, AppendProperties
<1>5. ASSUME NEW i \in DOMAIN channel
      PROVE  channel[i].job # j /\ worker'[channel[i].job] = "gone"
  <2>1. channel[i].job \in PoolJobs /\ worker[channel[i].job] = "gone"
    BY <1>3, OutcomeTyped DEF PoolInv, ChannelInv, T
  <2> QED
    BY <1>1, <2>1 DEF PoolInv, PoolTypeOK
<1>6. j \notin Answered /\ read[j] \in Fresh(j)
  BY <1>1 DEF PoolInv, ThreadsInv
<1>7. PoolTypeOK'
  BY <1>1, <1>4 DEF PoolInv, PoolTypeOK, T
<1>8. SlotsInv' /\ PhaseInv'
  BY <1>1 DEF PoolInv, SlotsInv, PhaseInv, Announced, Answered, Running
<1>9. ThreadsInv'
  <2> SUFFICES ASSUME NEW k \in PoolJobs
               PROVE  /\ worker'[k] = "none" <=> k > taken'
                      /\ worker'[k] \in {"reading", "sending"} => k \notin Answered'
                      /\ worker'[k] = "gone" => \/ k \in Answered'
                                                \/ \E i \in DOMAIN channel' : channel'[i].job = k
                      /\ asked'[k] <= git'[k]
                      /\ worker'[k] = "sending" => read'[k] \in Fresh(k)'
    BY DEF ThreadsInv, PoolJobs
  <2>1. Answered' = Answered /\ Fresh(k)' = Fresh(k)
    BY <1>1 DEF Answered, Fresh
  <2>2. CASE k = j
    <3>1. worker'[j] = "gone"
      BY <1>1 DEF PoolInv, PoolTypeOK
    <3>2. \E i \in DOMAIN channel' : channel'[i].job = j
      BY <1>2, <1>4
    <3> QED
      BY <1>1, <2>1, <2>2, <3>1, <3>2 DEF PoolInv, ThreadsInv
  <2>3. CASE k # j
    <3>1. worker'[k] = worker[k]
      BY <1>1, <2>3 DEF PoolInv, PoolTypeOK
    <3>2. (\E i \in DOMAIN channel : channel[i].job = k)
            => \E i \in DOMAIN channel' : channel'[i].job = k
      BY <1>4
    <3> QED
      BY <1>1, <2>1, <3>1, <3>2 DEF PoolInv, ThreadsInv
  <2> QED
    BY <2>2, <2>3
<1>10. ChannelInv'
  <2>1. ASSUME NEW i \in DOMAIN channel'
        PROVE  /\ worker'[channel'[i].job] = "gone"
               /\ channel'[i].job \notin Answered
               /\ channel'[i].result \in Fresh(channel[i].job)'
    <3>1. CASE i \in DOMAIN channel
      <4>1. /\ channel[i].job \notin Answered
            /\ channel[i].result \in Fresh(channel[i].job)
        BY <3>1 DEF PoolInv, ChannelInv
      <4> QED
        BY <1>1, <1>4, <1>5, <3>1, <4>1 DEF Fresh
    <3>2. CASE i = Len(channel) + 1
      <4>1. channel'[i].job = j /\ channel'[i].result = read[j]
        BY <1>2, <1>4, <3>2
      <4>2. worker'[j] = "gone"
        BY <1>1 DEF PoolInv, PoolTypeOK
      <4> QED
        BY <1>1, <1>6, <4>1, <4>2 DEF Fresh
    <3> QED
      BY <1>4, <3>1, <3>2
  <2>2. \A i, k \in DOMAIN channel' : channel'[i].job = channel'[k].job => i = k
    BY <1>2, <1>4, <1>5 DEF PoolInv, ChannelInv
  <2>3. Answered' = Answered
    BY <1>1 DEF Answered
  <2>4. \A i \in DOMAIN channel' :
          /\ worker'[channel'[i].job] = "gone"
          /\ channel'[i].job \notin Answered'
          /\ channel'[i].result \in Fresh(channel[i].job)'
    BY <2>1, <2>3
  <2> QED
    BY <2>2, <2>4, Zenon DEF ChannelInv, Fresh
<1> QED
  BY <1>7, <1>8, <1>9, <1>10 DEF PoolInv

LEMMA ChangeKeeps == ASSUME PoolInv, NEW j \in PoolJobs, Change(j) PROVE PoolInv'
<1>1. /\ git[j] < MaxVersion /\ git' = [git EXCEPT ![j] = git[j] + 1]
      /\ UNCHANGED <<asked, pc, taken, activeWorkers, events, worker, read, channel>>
  BY DEF Change, mainVars
<1>2. PoolTypeOK'
  <2>1. git' \in [PoolJobs -> Batch!Version]
    BY <1>1, PoolAssumption DEF PoolInv, PoolTypeOK, Batch!Version
  <2> QED
    BY <1>1, <2>1 DEF PoolInv, PoolTypeOK
<1>3. SlotsInv' /\ PhaseInv'
  BY <1>1 DEF PoolInv, SlotsInv, PhaseInv, Announced, Answered, Running
<1>4. ASSUME NEW k \in PoolJobs
      PROVE  /\ asked'[k] <= git'[k]
             /\ \A result : result \in Fresh(k) => result \in Fresh(k)'
  <2>1. git[k] \in Nat /\ git'[k] \in Nat /\ git[k] <= git'[k] /\ asked[k] \in Nat
    BY <1>1, PoolAssumption DEF PoolInv, PoolTypeOK, Batch!Version
  <2>2. asked[k] <= git[k] /\ asked'[k] = asked[k]
    BY <1>1 DEF PoolInv, ThreadsInv
  <2> QED
    BY <2>1, <2>2 DEF Fresh
<1>5. ThreadsInv'
  BY <1>1, <1>4 DEF PoolInv, ThreadsInv, Answered, PoolJobs
<1>6. ChannelInv'
  <2>1. ASSUME NEW i \in DOMAIN channel
        PROVE  channel[i].result \in Fresh(channel[i].job)'
    <3>1. /\ channel[i].job \in PoolJobs
          /\ channel[i].result \in Fresh(channel[i].job)
      BY OutcomeTyped DEF PoolInv, PoolTypeOK, ChannelInv
    <3> QED
      BY <1>1, <1>4, <3>1 DEF Fresh
  <2> QED
    BY <1>1, <2>1 DEF PoolInv, ChannelInv, Answered
<1> QED
  BY <1>2, <1>3, <1>5, <1>6 DEF PoolInv

\* Every step keeps the invariant.
LEMMA Inductive == PoolInv /\ [PoolNext]_poolVars => PoolInv'
<1> SUFFICES ASSUME PoolInv, [PoolNext]_poolVars PROVE PoolInv'
  OBVIOUS
<1>1. CASE Main
  BY <1>1, FillKeeps, FillDoneKeeps, ReceiveKeeps, RefillKeeps, ReturnKeeps DEF Main
<1>2. CASE \E j \in PoolJobs : Worker(j) \/ Change(j)
  BY <1>2, ReadKeeps, SendKeeps, ChangeKeeps DEF Worker
<1>3. CASE UNCHANGED poolVars
  BY <1>3 DEF poolVars, mainVars, PoolInv, PoolTypeOK, SlotsInv, ThreadsInv, ChannelInv, PhaseInv,
              Announced, Answered, Running, Fresh
<1> QED
  BY <1>1, <1>2, <1>3 DEF PoolNext

\* In every reachable state each job is in one place, and the main thread's
\* counter is the number of jobs announced and not answered.
THEOREM Invariance == PoolSpec => []PoolInv
BY Initially, Inductive, PTL DEF PoolSpec

\* The pool's state is well typed: in particular it never counts more workers
\* than its limit, nor takes more repositories than were asked for.
THEOREM PoolTyped == PoolSpec => []PoolTypeOK
BY Invariance, PTL DEF PoolInv

\* recv() is never called for nobody, whatever reads are stuck: while a worker
\* is counted active, a thread is still to send or an outcome is in the channel.
THEOREM SomebodyAlwaysAnswers == PoolSpec => []SomebodyAnswers
<1>1. PoolInv => SomebodyAnswers
  <2> SUFFICES ASSUME PoolInv, activeWorkers > 0
               PROVE  \/ channel # <<>>
                      \/ \E j \in PoolJobs : worker[j] \in {"reading", "sending"}
    BY DEF SomebodyAnswers
  <2>1. PICK j \in Running : TRUE
    <3>1. Running # {}
      BY FS_EmptySet DEF PoolInv, SlotsInv
    <3> QED
      BY <3>1
  <2>2. j \in PoolJobs /\ j \notin Answered /\ ~(j > taken)
    BY PoolAssumption
       DEF PoolInv, SlotsInv, PoolTypeOK, Running, Announced, Answered, Batch!OnTheWay,
           PoolJobs, Batch!Jobs
  <2>3. worker[j] \in {"reading", "sending", "gone"}
    BY <2>2 DEF PoolInv, ThreadsInv, PoolTypeOK
  <2>4. CASE worker[j] = "gone"
    <3>1. \E i \in DOMAIN channel : channel[i].job = j
      BY <2>2, <2>4 DEF PoolInv, ThreadsInv
    <3>2. channel = <<>> => DOMAIN channel = {}
      OBVIOUS
    <3> QED
      BY <3>1, <3>2
  <2> QED
    BY <2>2, <2>3, <2>4
<1> QED
  BY <1>1, Invariance, PTL

\* The main thread never waits with a slot free and a repository pending.
THEOREM SlotsAreUsed == PoolSpec => []PoolIsFull
<1>1. PoolInv => PoolIsFull
  BY DEF PoolInv, PhaseInv, PoolIsFull
<1> QED
  BY <1>1, Invariance, PTL

----------------------------------------------------------------------------
\* Each step of the pool is a step of the batch, or none.

\* The batch counts as the pool does.
LEMMA SameCardinality ==
    ASSUME NEW S PROVE Batch!Cardinality(S) = Cardinality(S)
BY DEF Batch!Cardinality, Cardinality

\* Popping the next repository starts its job.
LEMMA SpawnStarts ==
    ASSUME PoolInv, Spawn, taken < N, activeWorkers < PoolWorkerLimit,
           UNCHANGED <<git, read, channel>>, pc # "returned", pc' \in {"fill", "recv"}
    PROVE  Batch!Next
<1> DEFINE j == taken + 1
<1>1. j \in PoolJobs /\ j \notin Announced
  BY SpawnKeeps
<1>2. Cardinality(Running) < Limit
  BY PoolAssumption DEF PoolInv, SlotsInv, PoolTypeOK, PoolWorkerLimit
<1>3. Batch!Start(j)
  BY <1>1, <1>2, SameCardinality DEF Batch!Start, Spawn, Announced, Running
<1> QED
  BY <1>1, <1>3 DEF Batch!Next, PoolJobs

\* Receiving an outcome finishes its job.
LEMMA ReceiveFinishes == ASSUME PoolInv, Receive PROVE Batch!Next
<1> DEFINE j == Head(channel).job
           result == Head(channel).result
<1>1. j \in Running /\ j \in PoolJobs /\ result \in Fresh(j)
  BY HeadRuns DEF Receive
<1>2. /\ events' = Append(events, Batch!Answer(j, result))
      /\ pc # "returned" /\ pc' # "returned"
      /\ UNCHANGED <<git, asked>>
  BY DEF Receive
<1> HIDE DEF j, result
<1>3. Batch!Finish(j)
  BY <1>1, <1>2 DEF Batch!Finish, Running, Fresh
<1> QED
  BY <1>1, <1>3 DEF Batch!Next, PoolJobs

\* The main thread returns only when every job is answered.
LEMMA ReturnReturns == ASSUME PoolInv, Return PROVE Batch!Next
<1>1. activeWorkers = 0 /\ taken = N
  BY PoolAssumption DEF PoolInv, PhaseInv, PoolTypeOK, Return, PoolWorkerLimit
<1>2. Running = {}
  BY <1>1, FS_EmptySet DEF PoolInv, SlotsInv
<1>3. Answered = 1..N
  BY <1>1, <1>2 DEF PoolInv, SlotsInv, Running, Announced, Answered, Batch!OnTheWay
<1>4. Batch!Return
  BY <1>3 DEF Batch!Return, Return, Answered, Batch!Jobs
<1> QED
  BY <1>4 DEF Batch!Next

LEMMA InitMaps == PoolInit => Batch!Init
BY DEF PoolInit, Batch!Init, PoolJobs

LEMMA StepMaps == PoolInv /\ [PoolNext]_poolVars => [Batch!Next]_(Batch!vars)
<1> SUFFICES ASSUME PoolInv, [PoolNext]_poolVars
             PROVE  Batch!Next \/ UNCHANGED <<git, asked, events, pc = "returned">>
  BY DEF Batch!vars
<1>1. CASE Fill
  <2>1. taken < N /\ activeWorkers < PoolWorkerLimit
    BY <1>1, PoolAssumption DEF PoolInv, PhaseInv, PoolTypeOK, Fill, HasRoom, PoolWorkerLimit
  <2> QED
    BY <1>1, <2>1, SpawnStarts DEF Fill
<1>2. CASE FillDone
  BY <1>2 DEF FillDone
<1>3. CASE Receive
  BY <1>3, ReceiveFinishes
<1>4. CASE Refill
  <2>1. CASE taken < N /\ Spawn
    <3>1. activeWorkers < PoolWorkerLimit
      BY <1>4, <2>1, PoolAssumption DEF PoolInv, PhaseInv, Refill, PoolTypeOK, PoolWorkerLimit
    <3> QED
      BY <1>4, <2>1, <3>1, SpawnStarts DEF Refill
  <2>2. CASE taken = N /\ UNCHANGED <<asked, taken, activeWorkers, worker, events>>
    BY <1>4, <2>2 DEF Refill
  <2> QED
    BY <1>4, <2>1, <2>2 DEF Refill
<1>5. CASE Return
  BY <1>5, ReturnReturns
<1>6. ASSUME NEW j \in PoolJobs, Read(j) \/ Send(j)
      PROVE  UNCHANGED <<git, asked, events, pc = "returned">>
  BY <1>6 DEF Read, Send, mainVars
<1>7. ASSUME NEW j \in PoolJobs, Change(j)
      PROVE  Batch!Next
  <2>1. Batch!Change(j)
    BY <1>7 DEF Change, Batch!Change, mainVars
  <2> QED
    BY <2>1 DEF Batch!Next, PoolJobs
<1>8. CASE UNCHANGED poolVars
  BY <1>8 DEF poolVars, mainVars
<1> QED
  BY <1>1, <1>2, <1>3, <1>4, <1>5, <1>6, <1>7, <1>8 DEF PoolNext, Main, Worker

\* The pool implements the batch, for every number of repositories and every
\* limit: jobs are started once, answered once and in this order, at most Limit
\* are on their way, a summary is no older than its start, and the effect ends
\* only when every job is answered.
THEOREM PoolImplementsBatch == PoolSpec => ImplementsBatch
<1>1. PoolSpec => []PoolInv
  BY Invariance
<1>2. PoolSpec => Batch!Init /\ [][Batch!Next]_(Batch!vars)
  BY <1>1, InitMaps, StepMaps, PTL DEF PoolSpec
<1> QED
  BY <1>2 DEF ImplementsBatch, Batch!Spec

=============================================================================
