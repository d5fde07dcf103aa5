----------------------------- MODULE StatusTree -----------------------------
(***************************************************************************)
(* The rows of the two file panes, visible_status_entries: the changed     *)
(* files of a pane, filtered, as a flat list or as a tree whose chains of  *)
(* single directories are joined and whose directories can be collapsed.   *)
(*                                                                         *)
(* A file is a number, in the order of the paths; DirOf is its directory,  *)
(* as the sequence of its names, which are numbers too.                    *)
(***************************************************************************)
EXTENDS Integers, Sequences, FiniteSets, SequencesExt

CONSTANTS DirOf, ShowRootItem, None

ASSUME DirOfAssumption ==
    /\ IsFiniteSet(DOMAIN DirOf) /\ DOMAIN DirOf \subseteq Nat \ {0}
    /\ \A f \in DOMAIN DirOf : DirOf[f] \in Seq(Nat)
    /\ None \notin DOMAIN DirOf

Panes == {"unstaged", "staged"}
StatusFilterModes == {"all", "tracked", "untracked", "conflicted"}

\* A changed file: in each pane a kind, or None where nothing is changed.
FileKinds == {"modified", "added", "untracked", "conflicted"}
FileStatus == [file : DOMAIN DirOf, unstaged : FileKinds \union {None}, staged : FileKinds \union {None}]

\* git lists a file once.
Statuses == {s \in Seq(FileStatus) : \A i, j \in DOMAIN s : s[i].file = s[j].file => i = j}

\* A row stands for a file, or (file 0) for a directory; "." is <<>>.
FileRow(f) == [dir |-> DirOf[f], file |-> f]
DirRow(d) == [dir |-> d, file |-> 0]
IsDirectory(row) == row.file = 0

\* The members of a set, in the order of a relation.
Sorted(S, before) ==
    [n \in 1..Cardinality(S) |->
        CHOOSE x \in S : Cardinality({y \in S : <<y, x>> \in before}) = n - 1]

Ordered(numbers) == Sorted(numbers, {p \in numbers \X numbers : p[1] < p[2]})

FileRows(files) == [i \in 1..Cardinality(files) |-> FileRow(Ordered(files)[i])]

---------------------------------------------------------------------------
(* The tree. *)

Dirs == {<<>>} \union UNION {{SubSeq(DirOf[f], 1, n) : n \in 0..Len(DirOf[f])} : f \in DOMAIN DirOf}

\* No row is None.
TreeRow == [dir : Dirs, file : DOMAIN DirOf \union {0}]

ASSUME RowAssumption == None \notin TreeRow

Direct(files, d) == {f \in files : DirOf[f] = d}
Beneath(files, d) == {f \in files : IsPrefix(d, DirOf[f])}
ChildOf(d, f) == SubSeq(DirOf[f], 1, Len(d) + 1)

\* The directories right beneath d, in the order of their names.
Directories(files, d) ==
    LET below == Beneath(files, d) \ Direct(files, d)
        first == {f \in below : \A g \in below : ChildOf(d, f) = ChildOf(d, g) => f <= g}
    IN  [i \in 1..Cardinality(first) |-> ChildOf(d, Ordered(first)[i])]

\* A mutant: a directory is joined with its only child although it has files.
JoinsOnlyChildren(files, dir) ==
    LET compress[d \in Dirs] ==
            IF Len(Directories(files, d)) = 1 THEN compress[Directories(files, d)[1]] ELSE d
    IN  compress[dir]

\* A directory without files is joined with its only child.
Compressed(files, dir) ==
    LET compress[d \in Dirs] ==
            IF Direct(files, d) = {} /\ Len(Directories(files, d)) = 1
            THEN compress[Directories(files, d)[1]] ELSE d
    IN  compress[dir]

TreeRows(files, collapsed) ==
    LET rows[d \in Dirs] ==
            LET beneath(child) == <<DirRow(child)>> \o IF child \in collapsed THEN <<>> ELSE rows[child]
                children == Directories(files, d)
            IN  FlattenSeq([i \in DOMAIN children |-> beneath(Compressed(files, children[i]))])
                  \o FileRows(Direct(files, d))
    IN  rows[<<>>]

ShowsRoot(files) ==
    /\ files # {}
    /\ ~(Cardinality(files) = 1 /\ \A f \in files : DirOf[f] = <<>>)

VisibleTree(files, collapsed) ==
    IF ShowRootItem /\ ShowsRoot(files)
    THEN <<DirRow(<<>>)>> \o (IF <<>> \in collapsed THEN <<>> ELSE TreeRows(files, collapsed))
    ELSE TreeRows(files, collapsed)

---------------------------------------------------------------------------
(* The flat list, and the choice of the files. *)

ModeMatches(mode, kind) ==
    CASE mode = "all" -> TRUE
      [] mode = "tracked" -> kind # "untracked"
      [] mode = "untracked" -> kind = "untracked"
      [] mode = "conflicted" -> kind = "conflicted"

Tracked(s) == s.unstaged # "untracked" /\ ~(s.staged = "added" /\ s.unstaged \in {None, "modified"})
Conflicted(s) == "conflicted" \in {s.unstaged, s.staged}

\* Conflicts first, then what git tracks, then the rest.
FlatRows(listed) ==
    LET class(k) == {s.file : s \in {s \in listed :
                        k = (IF Conflicted(s) THEN 0 ELSE IF Tracked(s) THEN 1 ELSE 2)}}
        files == Ordered(class(0)) \o Ordered(class(1)) \o Ordered(class(2))
    IN  [i \in DOMAIN files |-> FileRow(files[i])]

\* The files of the pane the filter lets through; a query is the set of the
\* files it matches.
InPane(status, pane, mode, query) ==
    {s \in Range(status) : s[pane] # None /\ ModeMatches(mode, s[pane]) /\ s.file \in query}

VisibleStatusEntries(status, pane, tree, mode, query, collapsed) ==
    LET listed == InPane(status, pane, mode, query)
    IN  IF tree THEN VisibleTree({s.file : s \in listed}, collapsed) ELSE FlatRows(listed)
=============================================================================
