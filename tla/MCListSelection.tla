--------------------------- MODULE MCListSelection ---------------------------
(* Small repositories for ListSelection. *)
EXTENDS ListSelection

MCEntries == 1..9
MCFilesOf == [e \in MCEntries |-> IF e \in {1, 5} THEN <<7, 8>> ELSE IF e = 2 THEN <<8>> ELSE <<>>]

NoLists == [l \in Loaded \ {"commits"} |-> <<>>]
NoCommits == [h \in Histories |-> <<>>]
Version(lists, commits, head, rebasing) ==
    [lists |-> lists @@ NoLists, commits |-> commits @@ NoCommits, status |-> <<>>,
     head |-> head, rebasing |-> rebasing]

\* Branches that come, go and change place.
Branches(branches, head) ==
    Version("branches" :> branches, HeadHistory :> <<1>> @@ <<"linear", TRUE>> :> <<2, 1>>, head, FALSE)
BranchRepo == <<Branches(<<3, 2, 4>>, 3), Branches(<<4, 3>>, 4)>>

\* A remote and its branches.
Remote(branches) ==
    Version("remotes" :> <<6>> @@ "remote_branches" :> branches, HeadHistory :> <<1>>, None, FALSE)
RemoteRepo == <<Remote(<<5, 4>>), Remote(<<4, 3, 5>>)>>

\* Histories of different lengths, with a commit more after a while.
History(more, reflog, rebasing) ==
    Version("reflog" :> more \o reflog,
            HeadHistory :> more \o <<1, 2>> @@ <<"linear", TRUE>> :> <<2>> @@ <<"graph", FALSE>> :> <<5, 1, 2>>
              @@ <<"reflog", FALSE>> :> more \o reflog @@ <<"sub", TRUE>> :> <<1, 2>>,
            None, rebasing)
CommitRepo == <<History(<<>>, <<3, 4>>, FALSE), History(<<6>>, <<3, 4>>, FALSE)>>
RebaseRepo == <<History(<<>>, <<>>, FALSE), History(<<>>, <<>>, TRUE), History(<<>>, <<>>, FALSE)>>

Changed(f, unstaged, staged) == [file |-> f, unstaged |-> unstaged, staged |-> staged]

\* Stashes with files, one of which is changed.
Stashes(stashes, changed) ==
    [Version("stash" :> stashes, NoCommits, None, FALSE)
        EXCEPT !.status = <<Changed(changed, "modified", None)>>]
StashRepo == <<Stashes(<<1, 2>>, 7), Stashes(<<5, 1, 2>>, 8)>>

\* Files in directories: in a chain of two, and later in the first as well.
MCDirOf == [f \in {2, 3, 4, 5, 7, 8} |-> CASE f \in {2, 3} -> <<1, 2>> [] f = 4 -> <<1>> [] OTHER -> <<>>]
Status(files) == [Version(<<>>, NoCommits, None, FALSE) EXCEPT !.status = files]
FilesRepo ==
    <<Status(<<Changed(2, "modified", None), Changed(3, "untracked", None)>>),
      Status(<<Changed(3, None, "added"), Changed(4, "conflicted", "conflicted")>>)>>

\* The lists nothing else depends on.
Others(tags, worktrees, submodules) ==
    Version("tags" :> tags @@ "worktrees" :> worktrees @@ "submodules" :> submodules,
            <<"linear", TRUE>> :> <<1>>, None, FALSE)
OtherRepo == <<Others(<<3, 4>>, <<3>>, <<>>), Others(<<4>>, <<>>, <<4>>)>>

AllRepos ==
    [branches |-> BranchRepo, remotes |-> RemoteRepo, commits |-> CommitRepo, rebase |-> RebaseRepo,
     stashes |-> StashRepo, others |-> OtherRepo, files |-> FilesRepo]
MCQueries == {{2, 4, 8}}
=============================================================================
