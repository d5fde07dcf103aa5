--------------------------- MODULE ListSelection ---------------------------
(***************************************************************************)
(* The lists of repository mode: which entry of a list is selected while   *)
(* the list is filtered, sorted, reloaded from a repository that changes,  *)
(* and replaced by another history.  The code keeps the selection as an    *)
(* index into the loaded list, so everything depends on who brings index   *)
(* and list back together, and when.  The two file panes beside them keep  *)
(* an index into their visible rows instead, and choose the file whose     *)
(* diff, and whose stashes, a load reads.                                  *)
(*                                                                         *)
(* The reducer's side (what a command acts on) and the terminal's side     *)
(* (which row carries the cursor, and what the row says) are two pieces of *)
(* code that never see each other; they are two sets of definitions here.  *)
(***************************************************************************)
EXTENDS StatusTree

CONSTANTS
    Repos,      \* for each repository, the versions its contents go through
    FilesOf,    \* the changed files of a commit or stash
    Queries,    \* what can be typed into a filter: the set of matching entries
    Entries     \* every entry of every list; numbers in the order of the names

ASSUME EntriesAssumption == Entries \subseteq (Nat \ {0}) /\ None \notin Entries
ASSUME QueriesAssumption == Queries \subseteq SUBSET Entries
ASSUME FilesAssumption == FilesOf \in [Entries -> Seq(Entries)]

\* The lists of files belong to what is selected in another list.
OwnerOf == [commit_files |-> "commits", stash_files |-> "stash"]
Loaded == {"branches", "remotes", "remote_branches", "tags", "commits", "stash",
           "reflog", "worktrees", "submodules"}
Lists == Loaded \union DOMAIN OwnerOf
Subviews == Loaded \union {"status", "rebase"}
Sortable == {"branches", "remote_branches"}

\* The histories the commits view can show: how they are walked, and whether
\* from a reference of their own or from HEAD.
Histories == {<<"linear", FALSE>>, <<"linear", TRUE>>, <<"graph", FALSE>>,
              <<"reflog", FALSE>>, <<"sub", TRUE>>}
HeadHistory == <<"linear", FALSE>>

Versions ==
    [lists : [Loaded \ {"commits"} -> Seq(Entries)], commits : [Histories -> Seq(Entries)],
     status : Statuses, head : Entries \union {None}, rebasing : BOOLEAN]

ASSUME ReposAssumption == \A name \in DOMAIN Repos : Repos[name] \in Seq(Versions) \ {<<>>}

Details ==
    [lists : [Loaded -> Seq(Entries)], status : Statuses,
     diff : [path : DOMAIN DirOf \union {None}, pane : Panes],
     head : Entries \union {None}, rebasing : BOOLEAN]

ASSUME DetailAssumption == None \notin Details

VARIABLES
    repo_mode,  \* RepoModeState
    repo,       \* the repository, and which of its versions it is at
    load,       \* a detail that was read and is on its way, or None
    confirming, \* the base commit a confirmation of a fixup is open for, or None
    opened_for, \* the reflog entry a history was opened for and that the list
                \* it replaces does not show, until the history is loaded
    warned      \* the last step warned about a history target

vars == <<repo_mode, repo, load, confirming, opened_for, warned>>

---------------------------------------------------------------------------
(* What the repository holds, and the state before it is loaded. *)

\* The stashes that touch a file.
Touching(stashes, file) ==
    LET touching == Ordered({i \in DOMAIN stashes : file = None \/ file \in Range(FilesOf[stashes[i]])})
    IN  [n \in DOMAIN touching |-> stashes[touching[n]]]

\* What a load reads: every list, and the commits of one history.
\* The file the diff is asked for also filters the stashes: those touching it.
Detail(version, history, diff) ==
    [lists |-> [l \in Loaded |->
                  CASE l = "commits" -> version.commits[history]
                    [] l = "stash" -> Touching(version.lists[l], diff.path)
                    [] OTHER -> version.lists[l]],
     status |-> version.status,
     diff |-> [diff EXCEPT !.path = IF @ # None \/ version.status = <<>> THEN @ ELSE version.status[1].file],
     head |-> version.head, rebasing |-> version.rebasing]

NoDiff == [path |-> None, pane |-> "unstaged"]
NoDetail == [lists |-> [l \in Loaded |-> <<>>], status |-> <<>>, diff |-> NoDiff, head |-> None, rebasing |-> FALSE]

RepoModeState ==
    [detail |-> NoDetail,
     selected |-> [l \in Lists \union Panes |-> 0],
     query |-> [l \in Lists \union {"status"} |-> Entries],
     status_tree_enabled |-> TRUE,
     collapsed_status_dirs |-> {},
     status_filter_mode |-> "all",
     by_name |-> {},
     active_subview |-> "status",
     commit_subview_mode |-> "history",
     stash_subview_mode |-> "list",
     commit_history |-> HeadHistory,
     pending_commit_selection |-> None]

---------------------------------------------------------------------------
(* The reducer's view of a list. *)

Indices(items, query, byName) ==
    LET matching == {i \in DOMAIN items : items[i] \in query}
        before(i, j) == IF byName /\ items[i] # items[j] THEN items[i] < items[j] ELSE i < j
    IN  Sorted(matching, {p \in matching \X matching : before(p[1], p[2])})

Filtered(rm, l) == Indices(rm.detail.lists[l], rm.query[l], l \in rm.by_name)

FirstOf(indices) == IF indices = <<>> THEN 0 ELSE indices[1]
ItemAt(items, i) == IF i \in DOMAIN items THEN items[i] ELSE None

\* The index an unusable selection falls back to: HEAD among the branches.
Fallback(rm, l) ==
    LET indices == Filtered(rm, l)
        heads == {p \in DOMAIN indices : l = "branches" /\ rm.detail.lists[l][indices[p]] = rm.detail.head}
    IN  IF heads # {} THEN indices[Min(heads)] ELSE FirstOf(indices)

Usable(rm, l) == \E p \in DOMAIN Filtered(rm, l) : Filtered(rm, l)[p] = rm.selected[l]

\* A mutant: the index is believed.
IndexAsItIs(rm, l) == rm.selected[l]

SelectedIndex(rm, l) == IF Usable(rm, l) THEN rm.selected[l] ELSE Fallback(rm, l)

SelectedItem(rm, l) == ItemAt(rm.detail.lists[l], SelectedIndex(rm, l))

\* The files of what is selected; those of a stash are never filtered.
FileList(rm, l) ==
    LET owner == SelectedItem(rm, OwnerOf[l]) IN IF owner = None THEN <<>> ELSE FilesOf[owner]
FilteredFiles(rm, l) ==
    Indices(FileList(rm, l), IF l = "stash_files" THEN Entries ELSE rm.query[l], FALSE)

Visible(rm, l) == IF l \in Loaded THEN Filtered(rm, l) ELSE FilteredFiles(rm, l)
Items(rm, l) == IF l \in Loaded THEN rm.detail.lists[l] ELSE FileList(rm, l)

\* What a command acts on.
Target(rm, l) ==
    IF l \in Loaded THEN SelectedItem(rm, l)
    ELSE IF rm.selected[l] \in Range(Visible(rm, l)) THEN Items(rm, l)[rm.selected[l]]
    ELSE ItemAt(Items(rm, l), FirstOf(Visible(rm, l)))

\* The list the active view shows, if it shows one.
ActiveList(rm) ==
    CASE rm.active_subview = "commits" /\ rm.commit_subview_mode = "files" -> {"commit_files"}
      [] rm.active_subview = "stash" /\ rm.stash_subview_mode = "files" -> {"stash_files"}
      [] OTHER -> {rm.active_subview} \intersect Loaded

---------------------------------------------------------------------------
(* The file panes: which rows, which of them is selected. *)

Rows(rm, pane) ==
    VisibleStatusEntries(rm.detail.status, pane, rm.status_tree_enabled, rm.status_filter_mode,
                         rm.query["status"], rm.collapsed_status_dirs)

\* An index that is out of range starts again at the first row.
EnsureSelection(index, len) == IF len = 0 THEN 0 ELSE IF index \in 1..len THEN index ELSE 1

SyncStatus(rm) ==
    [rm EXCEPT !.selected = [l \in DOMAIN @ |->
        IF l \in Panes THEN EnsureSelection(@[l], Len(Rows(rm, l))) ELSE @[l]]]

\* What a command acts on: the first row, when none is selected.
SelectedEntry(rm, pane) ==
    LET rows == Rows(rm, pane)
    IN  IF rows = <<>> THEN None ELSE rows[EnsureSelection(rm.selected[pane], Len(rows))]

\* The row the terminal marks.
MarkedEntry(rm, pane) == ItemAt(Rows(rm, pane), rm.selected[pane])

---------------------------------------------------------------------------
(* Bringing the selection back into the list. *)

Resync(rm, l) ==
    [rm EXCEPT !.selected[l] =
        IF rm.selected[l] \in Range(Visible(rm, l)) THEN @
        ELSE IF l \in Loaded THEN Fallback(rm, l) ELSE FirstOf(Visible(rm, l))]

\* A mutant: a target that is not in the list yet is forgotten.
ForgetsTarget(rm) ==
    LET indices == Filtered(rm, "commits")
        found == {p \in DOMAIN indices :
                      rm.detail.lists["commits"][indices[p]] = rm.pending_commit_selection}
    IN  IF found # {}
        THEN [rm EXCEPT !.selected["commits"] = indices[Min(found)], !.pending_commit_selection = None]
        ELSE [Resync(rm, "commits") EXCEPT !.pending_commit_selection = None]

\* The commits first look for the target a history was opened for.
SyncCommits(rm) ==
    LET indices == Filtered(rm, "commits")
        found == {p \in DOMAIN indices :
                      rm.detail.lists["commits"][indices[p]] = rm.pending_commit_selection}
    IN  IF found # {}
        THEN [rm EXCEPT !.selected["commits"] = indices[Min(found)], !.pending_commit_selection = None]
        ELSE Resync(rm, "commits")

Sync(rm, l) == IF l = "commits" THEN SyncCommits(rm) ELSE Resync(rm, l)

SyncActive(rm) ==
    IF rm.active_subview = "status" THEN SyncStatus(rm)
    ELSE IF ActiveList(rm) = {} THEN rm
    ELSE Sync(rm, CHOOSE l \in ActiveList(rm) : TRUE)

\* What a loaded detail brings back together: not the remote branches, the
\* tags, the submodules and the files of a stash.
SyncedByLoad == <<"branches", "remotes", "commits", "commit_files", "stash", "reflog", "worktrees">>

\* A mutant: only the histories are.
SyncsHistories(rm) == FoldLeft(Sync, SyncStatus(rm), <<"commits", "commit_files", "reflog">>)

SyncLoaded(rm) == FoldLeft(Sync, SyncStatus(rm), SyncedByLoad)

---------------------------------------------------------------------------
(* The terminal's side. *)

\* The index the panel marks with the cursor: counted on what it draws.
Marked(rm, l) ==
    LET drawn == Visible(rm, l)
        at == {p \in DOMAIN drawn : drawn[p] = rm.selected[l]}
        heads == {p \in DOMAIN drawn : l = "branches" /\ Items(rm, l)[drawn[p]] = rm.detail.head}
    IN  IF drawn = <<>> THEN 0
        ELSE IF at # {} THEN drawn[CHOOSE p \in at : TRUE]
        ELSE IF heads # {} THEN drawn[CHOOSE p \in heads : TRUE]
        ELSE drawn[1]

\* The entry the marked row stands for: the preview beneath is its own.
UnderCursor(rm, l) == ItemAt(Items(rm, l), Marked(rm, l))

\* What the marked row says. The rows of the commits are places among those the
\* filter leaves, but each says what is at its place in the whole list.
Highlighted(rm, l) ==
    LET drawn == Visible(rm, l)
        at == {p \in DOMAIN drawn : drawn[p] = Marked(rm, l)}
    IN  IF l = "commits" /\ at # {} THEN Items(rm, l)[CHOOSE p \in at : TRUE]
        ELSE UnderCursor(rm, l)

\* The files a stash is shown with, and the entry a prompt is opened for, are
\* found without the filter.
Unfiltered(rm, l) ==
    LET items == rm.detail.lists[l]
        heads == {i \in DOMAIN items : l = "branches" /\ items[i] = rm.detail.head}
    IN  IF rm.selected[l] \in DOMAIN items THEN items[rm.selected[l]]
        ELSE IF heads # {} THEN items[CHOOSE i \in heads : TRUE]
        ELSE ItemAt(items, 1)

---------------------------------------------------------------------------
(* Loads. *)

Now == Repos[repo.name][repo.version]

\* What load_repo_detail_effect asks for: only the commits view names a
\* history; the diff is that of the file shown already.
Requested(rm) == IF rm.active_subview = "commits" THEN rm.commit_history ELSE HeadHistory

\* A step of the reducer that leaves nothing on its way, and one that loads:
\* the effect runs at once, its result comes after what is left of the click.
Settles(rm) == repo_mode' = rm /\ load' = None
Loads(rm) == repo_mode' = rm /\ load' = Detail(Now, Requested(rm), rm.detail.diff)

Aside == warned' = FALSE /\ UNCHANGED <<repo, confirming>>

\* Enough to be on the way for the user to wait: the loop handles a result
\* before it reads the next key, and a modal takes every key.
Free == load = None /\ confirming = None

\* Following a rebase: the view goes to it when it starts and back when it ends.
FollowRebase(rm) ==
    CASE rm.detail.rebasing -> [rm EXCEPT !.active_subview = "rebase"]
      [] ~rm.detail.rebasing /\ rm.active_subview = "rebase" -> [rm EXCEPT !.active_subview = "commits"]
      [] OTHER -> rm

RepoDetailLoaded ==
    LET synced == SyncLoaded([repo_mode EXCEPT !.detail = load])
        missing == synced.pending_commit_selection # None /\ synced.active_subview = "commits"
    IN  /\ load # None
        /\ repo_mode' = FollowRebase(IF missing THEN [synced EXCEPT !.pending_commit_selection = None] ELSE synced)
        /\ warned' = missing
        /\ load' = None
        /\ opened_for' = None
        /\ UNCHANGED <<repo, confirming>>

\* A command finished, the repository was refreshed or the watcher saw it change.
Refresh == load = None /\ Loads(repo_mode) /\ Aside /\ UNCHANGED opened_for

---------------------------------------------------------------------------
(* The file panes.  Moving onto a file loads its diff, and with it a detail *)
(* of its own: always with the history of HEAD.                             *)

MoveStatus(rows, pane, index) ==
    LET moved == [repo_mode EXCEPT !.selected[pane] = index]
    IN  /\ Free /\ rows # <<>>
        /\ IF IsDirectory(rows[index]) THEN Settles(moved)
           ELSE /\ repo_mode' = moved
                /\ load' = Detail(Now, HeadHistory, [path |-> rows[index].file, pane |-> pane])
        /\ Aside /\ UNCHANGED opened_for

StepStatus(rows, pane, d) ==
    MoveStatus(rows, pane, 1 + ((EnsureSelection(repo_mode.selected[pane], Len(rows)) - 1 + d) % Len(rows)))

SelectStatusEdge(rows, pane, last) == MoveStatus(rows, pane, IF last THEN Len(rows) ELSE 1)

\* A click: below the last row of the side panel it selects nothing, on the
\* selected row it loads nothing.
SelectStatusEntry(rows, pane, row) ==
    \/ row \in DOMAIN rows /\ row # repo_mode.selected[pane] /\ MoveStatus(rows, pane, row)
    \/ /\ Free /\ rows # <<>> /\ row > Len(rows)
       /\ Settles([repo_mode EXCEPT !.selected[pane] = 0])
       /\ Aside /\ UNCHANGED opened_for

\* How the panes show a single file is left as it is.
SeveralFiles == Len(repo_mode.detail.status) > 1

ChangeRows(rm) == Free /\ Settles(SyncStatus(rm)) /\ Aside /\ UNCHANGED opened_for

\* CollapseStatusEntry, ExpandStatusEntry: the selected directory, or that of
\* the selected file unless it has none.
CollapseStatusEntry(entry, collapse) ==
    /\ entry # None
    /\ ~IsDirectory(entry) => entry.dir # <<>>
    /\ ChangeRows([repo_mode EXCEPT !.collapsed_status_dirs =
                       IF collapse THEN @ \union {entry.dir} ELSE @ \ {entry.dir}])

\* Opening a file only moves the focus to the detail pane.
OpenSelectedStatusEntry(entry) ==
    /\ entry # None /\ IsDirectory(entry)
    /\ CollapseStatusEntry(entry, entry.dir \notin repo_mode.collapsed_status_dirs)

ToggleStatusTree == SeveralFiles /\ ChangeRows([repo_mode EXCEPT !.status_tree_enabled = ~@])

NextMode == [all |-> "tracked", tracked |-> "untracked", untracked |-> "conflicted", conflicted |-> "all"]
CycleStatusFilterMode == SeveralFiles /\ ChangeRows([repo_mode EXCEPT !.status_filter_mode = NextMode[@]])

---------------------------------------------------------------------------
(* Moving in a list, filtering it, sorting it. *)

\* A mutant: a step starts at the first row when it would pass an end.
StopsAtTheEnds(rm, l, d) ==
    LET shown == Visible(rm, l)
        to == SelectInSeq(shown, LAMBDA i : i = rm.selected[l]) + d
    IN  IF shown = <<>> THEN 0 ELSE IF to \in DOMAIN shown THEN shown[to] ELSE shown[1]

\* One step down or up, around the ends; from the first row when the selection
\* is not in the list.
Stepped(rm, l, d) ==
    LET shown == Visible(rm, l)
        at == SelectInSeq(shown, LAMBDA i : i = rm.selected[l])
        from == IF at = 0 THEN 1 ELSE at
    IN  IF shown = <<>> THEN 0 ELSE shown[1 + ((from - 1 + d) % Len(shown))]

StepSelection(l, d) ==
    /\ Free /\ l \in ActiveList(repo_mode)
    /\ Settles([repo_mode EXCEPT !.selected[l] = Stepped(repo_mode, l, d)])
    /\ Aside /\ UNCHANGED opened_for

SelectEdge(l, last) ==
    LET shown == Visible(repo_mode, l) IN
    /\ Free /\ l \in ActiveList(repo_mode)
    /\ Settles([repo_mode EXCEPT !.selected[l] =
                   IF shown = <<>> THEN 0 ELSE IF last THEN Last(shown) ELSE shown[1]])
    /\ Aside /\ UNCHANGED opened_for

\* A click: the row is counted on the screen.
SelectRepoDetailItem(l, row) ==
    /\ Free /\ l \in ActiveList(repo_mode)
    /\ row \in DOMAIN Visible(repo_mode, l)
    /\ Settles([repo_mode EXCEPT !.selected[l] = Visible(repo_mode, l)[row]])
    /\ Aside /\ UNCHANGED opened_for

\* Typing, deleting, recalling or cancelling: the query of the active list
\* becomes another one.  The files of a stash have none.
ChangeFilter(query) ==
    \E l \in (ActiveList(repo_mode) \ {"stash_files"})
             \union {v \in {"status"} : SeveralFiles /\ repo_mode.active_subview = v} :
        /\ Free /\ query # repo_mode.query[l]
        /\ Settles(SyncActive([repo_mode EXCEPT !.query[l] = query]))
        /\ Aside /\ UNCHANGED opened_for

\* The menu of the sort orders opens over its own list.
SetSortMode(l) ==
    /\ Free /\ l \in Sortable \intersect ActiveList(repo_mode)
    /\ \E orders \in {repo_mode.by_name \union {l}, repo_mode.by_name \ {l}} :
           Settles(Sync([repo_mode EXCEPT !.by_name = orders], l))
    /\ Aside /\ UNCHANGED opened_for

---------------------------------------------------------------------------
(* Going from view to view. *)

\* A view whose list stays empty is entered and left as the status view is.
Worthwhile(view) == view \in Loaded => repo_mode.detail.lists[view] # <<>>

SwitchRepoSubview(view) ==
    LET explicit == repo_mode.active_subview = "commits"
                      /\ (repo_mode.commit_history # HeadHistory \/ repo_mode.pending_commit_selection # None)
        reset == SyncActive([repo_mode EXCEPT !.active_subview = view,
                             !.commit_history = HeadHistory,
                             !.pending_commit_selection = None,
                             !.commit_subview_mode = "history",
                             !.stash_subview_mode = "list"])
    IN  /\ Free /\ Worthwhile(view)
        /\ IF explicit THEN Loads(reset) ELSE Settles(reset)
        /\ Aside /\ UNCHANGED opened_for

\* Another history in the commits view.  The list it will replace is
\* synchronized first, and the selection stays an index.
ShowHistory(history, target, clearsFilters) ==
    LET shown == [repo_mode EXCEPT !.active_subview = "commits",
                  !.commit_subview_mode = IF history[1] = "sub" THEN "sub" ELSE "history",
                  !.commit_history = history,
                  !.pending_commit_selection = target,
                  !.query = [l \in DOMAIN @ |-> IF clearsFilters /\ l \in {"commits", "commit_files"}
                                             THEN Entries ELSE @[l]]]
    IN  Loads(SyncCommits(shown)) /\ Aside

\* OpenSelectedBranchCommits, OpenSelectedRemoteBranchCommits, OpenSelectedTagCommits
OpenSelectedCommits(l) ==
    /\ Free /\ l \in ActiveList(repo_mode) \intersect {"branches", "remote_branches", "tags"}
    /\ Target(repo_mode, l) # None
    /\ ShowHistory(<<"linear", TRUE>>, None, FALSE)
    /\ UNCHANGED opened_for

OpenAllBranchGraph ==
    /\ Free /\ repo_mode.active_subview \in {"branches", "commits"}
    /\ ShowHistory(<<"graph", FALSE>>, None, FALSE)
    /\ UNCHANGED opened_for

OpenSelectedReflogCommits ==
    /\ Free /\ ActiveList(repo_mode) = {"reflog"}
    /\ Target(repo_mode, "reflog") # None
    /\ ShowHistory(<<"reflog", FALSE>>, Target(repo_mode, "reflog"), TRUE)
    /\ opened_for' = IF Target(repo_mode, "reflog") \in Range(repo_mode.detail.lists["commits"])
                      THEN None ELSE Target(repo_mode, "reflog")

OpenSelectedSubCommits ==
    /\ Free /\ ActiveList(repo_mode) = {"commits"} /\ repo_mode.commit_subview_mode = "history"
    /\ Target(repo_mode, "commits") # None
    /\ ShowHistory(<<"sub", TRUE>>, None, TRUE)
    /\ UNCHANGED opened_for

OpenSelectedCommitFiles ==
    /\ Free /\ ActiveList(repo_mode) = {"commits"} /\ repo_mode.commit_subview_mode = "sub"
    /\ Target(repo_mode, "commits") # None
    /\ Settles(Sync([repo_mode EXCEPT !.commit_subview_mode = "files"], "commit_files"))
    /\ Aside /\ UNCHANGED opened_for

\* Closing the files closes the nested commits they were opened from as well.
CloseSelectedCommitFiles ==
    /\ Free /\ repo_mode.active_subview = "commits" /\ repo_mode.commit_subview_mode \in {"files", "sub"}
    /\ Loads([repo_mode EXCEPT !.commit_subview_mode = "history",
                               !.commit_history = HeadHistory,
                               !.query["commits"] = Entries])
    /\ Aside /\ UNCHANGED opened_for

\* The remote's branches are the remote branches filtered by its name.
OpenSelectedRemoteBranches ==
    /\ Free /\ ActiveList(repo_mode) = {"remotes"}
    /\ Target(repo_mode, "remotes") # None
    /\ \E query \in Queries :
           Settles(SyncActive([repo_mode EXCEPT !.active_subview = "remote_branches",
                                                !.query["remote_branches"] = query]))
    /\ Aside /\ UNCHANGED opened_for

OpenSelectedStashFiles ==
    /\ Free /\ ActiveList(repo_mode) = {"stash"}
    /\ Target(repo_mode, "stash") # None
    /\ Settles(Sync([repo_mode EXCEPT !.stash_subview_mode = "files"], "stash_files"))
    /\ Aside /\ UNCHANGED opened_for

CloseSelectedStashFiles ==
    /\ Free /\ ActiveList(repo_mode) = {"stash_files"}
    /\ Settles([repo_mode EXCEPT !.stash_subview_mode = "list"])
    /\ Aside /\ UNCHANGED opened_for

---------------------------------------------------------------------------
(* The base commit a fixup is for: found among the commits shown, confirmed  *)
(* or not, selected now or, when everything is staged first, by the load     *)
(* that follows.                                                             *)

BeginFixupBase(base, stageAll) ==
    LET shown == SyncCommits([repo_mode EXCEPT !.active_subview = "commits",
                              !.commit_subview_mode = "history",
                              !.commit_history = <<"linear", @[2]>>])
        wanted == [shown EXCEPT !.pending_commit_selection = base]
    IN  Settles(IF stageAll THEN wanted
                ELSE LET now == SyncCommits(wanted)
                     IN  IF now.pending_commit_selection = None THEN Sync(now, "commit_files") ELSE wanted)

FixupBaseCommitFound ==
    \E base \in {repo_mode.detail.lists["commits"][i] : i \in Range(Filtered(repo_mode, "commits"))} :
        /\ Free
        /\ \/ confirming' = base /\ UNCHANGED <<repo_mode, load>>
           \/ \E stageAll \in BOOLEAN : BeginFixupBase(base, stageAll) /\ UNCHANGED confirming
        /\ warned' = FALSE
        /\ UNCHANGED <<repo, opened_for>>

ConfirmPendingOperation ==
    /\ load = None /\ confirming # None
    /\ \E stageAll \in BOOLEAN : BeginFixupBase(confirming, stageAll)
    /\ confirming' = None
    /\ warned' = FALSE
    /\ UNCHANGED <<repo, opened_for>>

\* Closing a modal goes back to the view it was opened over.
CloseTopModal ==
    /\ load = None /\ confirming # None
    /\ Settles(SyncActive(repo_mode))
    /\ confirming' = None
    /\ warned' = FALSE
    /\ UNCHANGED <<repo, opened_for>>

---------------------------------------------------------------------------
\* The repository goes on to its next contents: a command, or somebody else.
RepositoryChanges ==
    /\ repo.version < Len(Repos[repo.name])
    /\ repo' = [repo EXCEPT !.version = @ + 1]
    /\ warned' = FALSE
    /\ UNCHANGED <<repo_mode, load, confirming, opened_for>>

Init ==
    /\ repo \in [name : DOMAIN Repos, version : {1}]
    /\ repo_mode = RepoModeState
    /\ load = Detail(Now, HeadHistory, NoDiff)
    /\ confirming = None
    /\ opened_for = None
    /\ warned = FALSE

Move == \E l \in Lists :
    \/ \E d \in {-1, 1} : StepSelection(l, d)
    \/ \E last \in BOOLEAN : SelectEdge(l, last)
    \/ \E row \in 1..Len(Visible(repo_mode, l)) : SelectRepoDetailItem(l, row)

Go ==
    \/ \E view \in Subviews : SwitchRepoSubview(view)
    \/ \E l \in Lists : OpenSelectedCommits(l)
    \/ OpenAllBranchGraph
    \/ OpenSelectedReflogCommits
    \/ OpenSelectedSubCommits
    \/ OpenSelectedCommitFiles
    \/ CloseSelectedCommitFiles
    \/ OpenSelectedRemoteBranches
    \/ OpenSelectedStashFiles
    \/ CloseSelectedStashFiles

Files == Free /\ \E pane \in Panes :
    LET rows == Rows(repo_mode, pane)
        entry == SelectedEntry(repo_mode, pane)
    IN  \/ \E d \in {-1, 1} : rows # <<>> /\ StepStatus(rows, pane, d)
        \/ \E last \in BOOLEAN : SelectStatusEdge(rows, pane, last)
        \/ \E row \in 1..(Len(rows) + 1) : SelectStatusEntry(rows, pane, row)
        \/ \E collapse \in BOOLEAN : CollapseStatusEntry(entry, collapse)
        \/ OpenSelectedStatusEntry(entry)

Next ==
    \/ Move
    \/ Files
    \/ ToggleStatusTree
    \/ CycleStatusFilterMode
    \/ \E query \in Queries \union {Entries} : ChangeFilter(query)
    \/ \E l \in Sortable : SetSortMode(l)
    \/ Go
    \/ FixupBaseCommitFound
    \/ ConfirmPendingOperation
    \/ CloseTopModal
    \/ Refresh
    \/ RepoDetailLoaded
    \/ RepositoryChanges

Spec == Init /\ [][Next]_vars

---------------------------------------------------------------------------
(* Properties. *)

\* A commit above the marked one is filtered out.
FilteredAbove(rm, l) ==
    l = "commits" /\ \E i \in 1..Marked(rm, l) : Items(rm, l)[i] \notin rm.query[l]

\* A command acts on the entry the cursor is on, in every list the user can be
\* in: what selected_*_item finds is what the panel marks, after any number of
\* loads, filters, sorts and moves.  The marked row says so too, but among
\* commits of which the filter leaves out one further up: it then says another.
\* The same in the file panes, where nothing is marked only after a click below
\* the last row.
ActsOnTheMarked ==
    /\ \A l \in ActiveList(repo_mode) :
           /\ Target(repo_mode, l) = UnderCursor(repo_mode, l)
           /\ FilteredAbove(repo_mode, l) \/ Target(repo_mode, l) = Highlighted(repo_mode, l)
    /\ \A pane \in Panes :
           repo_mode.selected[pane] # 0 =>
               SelectedEntry(repo_mode, pane) = MarkedEntry(repo_mode, pane) /\ MarkedEntry(repo_mode, pane) # None

\* In the lists a load brings back together, the prompts that look the entry up
\* without the filter (rename a branch, edit a remote, create a branch from a
\* stash) are about the marked entry too, and the files a stash is shown with
\* are its own.
PromptsForTheMarked ==
    \A l \in Loaded \intersect Range(SyncedByLoad) :
        UnderCursor(repo_mode, l) # None => Unfiltered(repo_mode, l) = UnderCursor(repo_mode, l)

\* A file pane hides no change: every file its filter lets through has one row,
\* unless it is beneath a directory that is shown collapsed, and what is below
\* a directory row, up to the next row that is not beneath it, is all that the
\* pane shows of that directory (append_entries, compress).
TreeShowsTheFiles ==
    \A pane \in Panes :
        LET rows == Rows(repo_mode, pane)
            listed == InPane(repo_mode.detail.status, pane, repo_mode.status_filter_mode, repo_mode.query["status"])
            at(f) == {i \in DOMAIN rows : rows[i].file = f}
            within(i) == {j \in DOMAIN rows : j # i /\ IsPrefix(rows[i].dir, rows[j].dir)}
            hidden(f) == \E i \in DOMAIN rows :
                            IsDirectory(rows[i]) /\ rows[i].dir \in repo_mode.collapsed_status_dirs
                              /\ IsPrefix(rows[i].dir, DirOf[f])
        IN  /\ \A f \in {s.file : s \in listed} :
                   Cardinality(at(f)) = IF hidden(f) THEN 0 ELSE 1
            /\ \A i \in DOMAIN rows :
                   IsDirectory(rows[i]) => within(i) = (i + 1)..(i + Cardinality(within(i)))

\* One step moves the cursor to the row beside it on the screen, around the
\* ends, whatever the filter and the order.
StepsToTheNextRow ==
    [][\A l \in Lists, d \in {-1, 1} :
          StepSelection(l, d) /\ Visible(repo_mode, l) # <<>> =>
              LET shown == Visible(repo_mode, l)
                  row(i) == SelectInSeq(shown, LAMBDA x : x = i)
              IN  (row(Marked(repo_mode', l)) - row(Marked(repo_mode, l)) - d) % Len(shown) = 0]_vars

\* A history opened for an entry of the reflog, unless the list it replaces had
\* that entry already, comes up with the entry under the cursor, or the user is
\* told that it is not there.
OpensAtTheEntry ==
    [][opened_for # None /\ load # None /\ load' = None =>
          \/ repo_mode'.active_subview # "commits"
          \/ UnderCursor(repo_mode', "commits") = opened_for
          \/ warned']_vars
=============================================================================
