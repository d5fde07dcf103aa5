------------------------- MODULE MCWorkspaceRuntime -------------------------
(* Finite instances of WorkspaceRuntime for TLC.                           *)
EXTENDS WorkspaceRuntime, TLC

\* Input sets of the runs.
AllInputs == InputKinds
ScreenInputs == {"RefreshVisibleRepos", "EnterRepoMode", "PeriodicRefreshTick"}

\* Fault sets of the runs.
AllFaults == FaultKinds
SteadyFaults == {"scan", "read", "configure", "crash", "move"}

\* The repositories are interchangeable.
RepoSymmetry == Permutations(Repos)
=============================================================================
