---------------------------- MODULE GitWorkTree ----------------------------
(***************************************************************************)
(* What the commands of CliGitBackend (crates/git/src/lib.rs) that stage,  *)
(* commit, stash and discard do to the working copy of a repository.       *)
(*                                                                         *)
(* The unit is an edit: one hunk of a file, or a whole new file. HEAD, the *)
(* index, the working tree and a stash entry are sets of edits, and what   *)
(* a command must not lose is an edit. Edits of one file are independent:  *)
(* git merges, unstages and reverses each of them without the others.      *)
(*                                                                         *)
(* A working copy w is a record                                            *)
(*   log     the trees of the commits of HEAD, the tip last                *)
(*   other   what the other branches reach                                 *)
(*   index, tree                                                           *)
(*   stash   the entries, stash@{0} first, each with the log it was made   *)
(*           on and what it saves of the index, the tree and untracked     *)
(*           files                                                         *)
(*                                                                         *)
(* An operator of a git process gives the set of working copies it can     *)
(* leave: none when git refuses, and then it has changed nothing.          *)
(***************************************************************************)
EXTENDS Naturals, Sequences, FiniteSets, SequencesExt

CONSTANTS
    Edits,      \* all edits
    FileOf,     \* the file of each
    NewFiles    \* the edits that are a new file

ASSUME EditsAssumption ==
    /\ NewFiles \subseteq Edits
    /\ DOMAIN FileOf = Edits
    /\ \A n \in NewFiles, e \in Edits : FileOf[e] = FileOf[n] => e = n

Files == {FileOf[e] : e \in Edits}

Logs == Seq(SUBSET Edits) \ {<<>>}

Entries == [log : Logs, index : SUBSET Edits, tree : SUBSET Edits, untracked : SUBSET Edits]

WorkTrees == [log : Logs, other : SUBSET Edits, index : SUBSET Edits,
              tree : SUBSET Edits, stash : Seq(Entries)]

HeadTree(w) == Last(w.log)

Of(set, f) == {e \in set : FileOf[e] = f}

Untracked(w) == (w.tree \intersect NewFiles) \ w.index

Tracked(w) == w.tree \ Untracked(w)

\* "git status": a file of HEAD is always there, a new one while it has its edit.
Staged(w) == (w.index \ HeadTree(w)) \union (HeadTree(w) \ w.index)

Unstaged(w) == (Tracked(w) \ w.index) \union (w.index \ w.tree)

(***************************************************************************)
(* Staging and committing.                                                 *)
(***************************************************************************)
StageSelection(w) == {[w EXCEPT !.index = w.tree]}

UnstageSelection(w) == {[w EXCEPT !.index = HeadTree(w)]}

StageFile(w, f) ==
    IF Of(w.tree \union w.index, f) \intersect NewFiles = {} /\ Of(NewFiles, f) # {} THEN {}
    ELSE {[w EXCEPT !.index = (@ \ Of(@, f)) \union Of(w.tree, f)]}

\* "git restore --staged"; where that fails "git rm --cached" fails as well.
UnstageFile(w, f) ==
    IF Of(w.index \union HeadTree(w), f) = {} /\ Of(NewFiles, f) # {} THEN {}
    ELSE {[w EXCEPT !.index = (@ \ Of(@, f)) \union Of(HeadTree(w), f)]}

\* apply_patch_selection: the hunks are looked for in a fresh diff.
StageLines(w, lines) ==
    IF lines \subseteq Tracked(w) \ w.index
    THEN {[w EXCEPT !.index = @ \union lines]} ELSE {}

UnstageLines(w, lines) ==
    IF lines \subseteq w.index \ HeadTree(w)
    THEN {[w EXCEPT !.index = @ \ lines]} ELSE {}

Commit(w) ==
    IF w.index = HeadTree(w) THEN {} ELSE {[w EXCEPT !.log = Append(@, w.index)]}

AmendHead(w) == {[w EXCEPT !.log = Append(Front(@), w.index)]}

\* "git reset --soft HEAD^"
UndoCommit(w) == IF Len(w.log) = 1 THEN {} ELSE {[w EXCEPT !.log = Front(@)]}

\* "git checkout <commit> -- <file>": in the index and in the tree, whatever is
\* there; a commit that deletes the file does not have it.
CheckoutCommitFile(w, n, f) ==
    IF n > Len(w.log) \/ (Of(NewFiles, f) # {} /\ Of(w.log[n], f) = {}) THEN {}
    ELSE {[w EXCEPT !.index = (@ \ Of(@, f)) \union Of(w.log[n], f),
                    !.tree = (@ \ Of(@, f)) \union Of(w.log[n], f)]}

(***************************************************************************)
(* Discarding. discard_path asks where git knows the file from, and then   *)
(* restores it, removes it, or cleans it.                                  *)
(***************************************************************************)
KnownFrom(w, f) ==
    IF Of(NewFiles, f) = {} \/ Of(HeadTree(w), f) # {} THEN "HEAD"
    ELSE IF Of(w.index, f) # {} THEN "index"
    ELSE "untracked"

DiscardFile(w, f, from) ==
    CASE from = "HEAD" ->
            {[w EXCEPT !.index = (@ \ Of(@, f)) \union Of(HeadTree(w), f),
                       !.tree = (@ \ Of(@, f)) \union Of(HeadTree(w), f)]}
      [] from = "index" ->
            IF Of(w.index, f) = {} THEN {}
            ELSE {[w EXCEPT !.index = @ \ Of(@, f), !.tree = @ \ Of(@, f)]}
      [] from = "untracked" -> {[w EXCEPT !.tree = @ \ Of(Untracked(w), f)]}

\* The two git processes of nuke_working_tree.
ResetHard(w) == {[w EXCEPT !.index = HeadTree(w), !.tree = HeadTree(w) \union Untracked(w)]}

Clean(w) == {[w EXCEPT !.tree = Tracked(w)]}

(***************************************************************************)
(* "git stash push" and its options. With nothing to save git makes no     *)
(* entry and reports success.                                              *)
(***************************************************************************)
Save(w, untracked) ==
    [w EXCEPT !.stash = <<[log |-> w.log, index |-> w.index, tree |-> Tracked(w),
                           untracked |-> untracked]>> \o @]

Changed(w) == Staged(w) \union Unstaged(w)

StashPush(w) ==
    IF Changed(w) = {} THEN {w} ELSE ResetHard(Save(w, {}))

StashKeepIndex(w) ==
    IF Changed(w) = {} THEN {w}
    ELSE {[Save(w, {}) EXCEPT !.tree = w.index \union Untracked(w)]}

StashAll(w) ==
    IF Changed(w) \union Untracked(w) = {} THEN {w}
    ELSE UNION {Clean(v) : v \in ResetHard(Save(w, Untracked(w)))}

\* "git stash push --staged" first makes the entry ...
SaveStaged(w) ==
    IF Staged(w) = {} THEN {}
    ELSE {[w EXCEPT !.stash = <<[log |-> w.log, index |-> w.index, tree |-> w.index,
                                 untracked |-> {}]>> \o @]}

\* ... and then takes what it saved out of the working tree and of the index.
Unapply(w, patch) ==
    IF patch = {} \/ ~(patch \subseteq w.tree) THEN {} ELSE {[w EXCEPT !.tree = @ \ patch]}

RemoveStaged(w, patch) == UNION {UnstageSelection(v) : v \in Unapply(w, patch)}

(***************************************************************************)
(* Using an entry: it is named by its position.                            *)
(***************************************************************************)
Patch(s) == s.tree \ Last(s.log)

\* What can be found in a commit, in the tree or in an entry (what only the
\* index has is shown as deleted).
Kept(w) ==
    (UNION ToSet(w.log)) \union w.other \union w.tree
    \union UNION {Patch(s) \union s.untracked : s \in ToSet(w.stash)}

\* The files a merge of the entry would write.
Touched(w, s) == {FileOf[e] : e \in (Patch(s) \ w.index) \union s.untracked}

\* git refuses to write over changes that are not in the index.
Dirty(w) == {FileOf[e] : e \in Unstaged(w) \union Untracked(w)}

StashApply(w, k) ==
    IF k > Len(w.stash) \/ Touched(w, w.stash[k]) \intersect Dirty(w) # {} THEN {}
    ELSE LET s == w.stash[k]
             new == Patch(s) \ w.index
         IN  {[w EXCEPT !.tree = @ \union new \union s.untracked,
                        !.index = @ \union (new \intersect NewFiles)]}

StashDrop(w, k) ==
    IF k > Len(w.stash) THEN {} ELSE {[w EXCEPT !.stash = RemoveAt(@, k)]}

StashPop(w, k) == UNION {StashDrop(v, k) : v \in StashApply(w, k)}

\* "git stash store": nothing happens when it is the last entry already.
StashStore(w, s) ==
    IF w.stash # <<>> /\ Head(w.stash) = s THEN {w} ELSE {[w EXCEPT !.stash = <<s>> \o @]}

\* "git stash branch": check out the commit the entry was made on, in a new
\* branch, and pop the entry with its index.
StashBranch(w, k) ==
    IF k > Len(w.stash) THEN {}
    ELSE LET s == w.stash[k]
             there == [w EXCEPT !.other = @ \union UNION ToSet(w.log),
                                !.log = s.log,
                                !.index = (@ \ HeadTree(w)) \union Last(s.log),
                                !.tree = (@ \ HeadTree(w)) \union Last(s.log)]
             moved == {FileOf[e] : e \in (HeadTree(w) \ Last(s.log))
                                         \union (Last(s.log) \ HeadTree(w))}
         IN  IF moved \intersect ({FileOf[e] : e \in Staged(w)} \union Dirty(w)) # {} THEN {}
             ELSE {[v EXCEPT !.index = @ \union (s.index \ Last(s.log))] :
                     v \in StashPop(there, k)}
=============================================================================
