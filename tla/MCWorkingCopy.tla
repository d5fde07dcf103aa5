--------------------------- MODULE MCWorkingCopy ---------------------------
(***************************************************************************)
(* One file with two edits, and a new file.                                *)
(***************************************************************************)
EXTENDS WorkingCopy

CONSTANTS f1, f2, n, f

MCEdits == {f1, f2, n}
MCFileOf == [e \in MCEdits |-> IF e = n THEN n ELSE f]
MCNew == {n}

Entry(tree) == [log |-> <<{}>>, index |-> {}, tree |-> tree, untracked |-> {}]

Copy(index, tree, stash) ==
    [log |-> <<{}>>, other |-> {}, index |-> index, tree |-> tree, stash |-> stash]

Mixed == Copy({f1}, {f1, f2}, <<>>)
\* Staged, and taken out of the file again.
Reverted == Copy({f1, n}, {n}, <<>>)
AllTrees == {Mixed, Copy({n}, {f2, n}, <<>>), Copy({}, {f2, n}, <<Entry({f1})>>), Reverted}

AllCommands ==
    {"StageSelection", "UnstageSelection", "StageFile", "UnstageFile", "StageLines",
     "UnstageLines", "CommitStaged", "AmendHead", "CreateStash", "ApplyStash", "PopStash",
     "DropStash", "CreateBranchFromStash", "DiscardFile", "NukeWorkingTree", "RenameStash",
     "CheckoutCommitFile"}
AllActs == {"edit", "stash", "add", "reset", "commit"}
=============================================================================
