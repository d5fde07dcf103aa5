---------------------------- MODULE PatchStaging ----------------------------
(***************************************************************************)
(* Staging and unstaging parts of a file: the diff on the screen, the hunk *)
(* and the lines selected in it, the job they become, and the two git      *)
(* processes of the job.  The selection is made of line numbers; what they *)
(* mean is looked up in a diff that is read again, without context, after  *)
(* everything that happened since the diff on the screen was read.         *)
(***************************************************************************)
EXTENDS GitPatch

CONSTANTS
    Files,          \* the contents a file can begin with: [head, index, work]
    Saves,          \* what somebody else's editor may write
    ContextLines,   \* diff_context_lines
    Dashed,         \* lines that begin with "-- "
    MaxJobs,        \* jobs of the user
    MaxOutside      \* acts of somebody else

ASSUME PatchAssumption == ContextLines \in Nat /\ MaxJobs \in Nat /\ MaxOutside \in Nat

VARIABLES
    file,       \* its contents in HEAD, in the index and in the working tree
    screen,     \* the DiffModel of the detail pane
    view,       \* selected_hunk, diff_line_cursor, diff_line_anchor; 0 is None
    job,        \* the PatchSelectionJob and how far it is, or None
    loaded,     \* the file when the screen was read
    left        \* jobs and outside acts that may still come

vars == <<file, screen, view, job, loaded, left>>

Modes == {"Stage", "Unstage"}

\* The two versions a mode compares.
Sides(f, mode) == IF mode = "Stage" THEN <<f.index, f.work>> ELSE <<f.head, f.index>>
DiffOf(f, mode) == Diff(Sides(f, mode)[1], Sides(f, mode)[2])

---------------------------------------------------------------------------
(* The diff on the screen. *)

\* A removed line that begins with two dashes looks like a file's header.
DisplayKind(line) == IF line.kind = "-" /\ line.text \in Dashed THEN "meta" ELSE line.kind

DiffModel(f, mode) ==
    LET hunks == Hunks(DiffOf(f, mode), ContextLines)
        rows(h) == <<"hunk">> \o [p \in DOMAIN hunks[h].body |-> DisplayKind(hunks[h].body[p])]
        starts[h \in 1..Len(hunks) + 1] == IF h = 1 THEN 1 ELSE starts[h - 1] + Len(rows(h - 1))
    IN  [mode |-> mode,
         kinds |-> FlattenSeq([h \in DOMAIN hunks |-> rows(h)]),
         hunks |-> [h \in DOMAIN hunks |->
                       [selection |-> hunks[h].selection, first |-> starts[h] + 1, last |-> starts[h + 1] - 1]]]

Selectable(s, h) == {p \in s.hunks[h].first..s.hunks[h].last : s.kinds[p] \in {"-", "+"}}
Lowest(S) == IF S = {} THEN 0 ELSE Min(S)

\* A mutant: a cursor that is there is kept.
KeepsTheCursor(s, v) ==
    LET hunk == IF v.hunk \in DOMAIN s.hunks THEN v.hunk ELSE IF s.hunks = <<>> THEN 0 ELSE 1
        lines == IF hunk = 0 THEN {} ELSE Selectable(s, hunk)
    IN  [hunk |-> hunk,
         cursor |-> IF v.cursor # 0 THEN v.cursor ELSE Lowest(lines),
         anchor |-> IF v.anchor \in lines THEN v.anchor ELSE 0]

SyncDiffSelection(s, v) ==
    LET hunk == IF v.hunk \in DOMAIN s.hunks THEN v.hunk ELSE IF s.hunks = <<>> THEN 0 ELSE 1
        lines == IF hunk = 0 THEN {} ELSE Selectable(s, hunk)
    IN  [hunk |-> hunk,
         cursor |-> IF v.cursor \in lines THEN v.cursor ELSE Lowest(lines),
         anchor |-> IF v.anchor \in lines THEN v.anchor ELSE 0]

\* A detail arrives with its first hunk selected; cursor and anchor stay.
Show(mode) ==
    /\ screen' = DiffModel(file, mode)
    /\ view' = SyncDiffSelection(screen', [view EXCEPT !.hunk = 1])
    /\ loaded' = file

---------------------------------------------------------------------------
(* Selecting. *)

\* The line numbers of rows a to b of a hunk; None when there is context in
\* between, a row that is no line, or nothing.
SelectionForDisplayRange(s, h, a, b) ==
    LET rows(p, kinds) == Cardinality({q \in s.hunks[h].first..p - 1 : s.kinds[q] \in kinds})
        old == Cardinality({p \in a..b : s.kinds[p] = "-"})
        new == Cardinality({p \in a..b : s.kinds[p] = "+"})
        start(from, kind, n) == from + rows(a, {" ", kind}) - (IF n = 0 THEN 1 ELSE 0)
    IN  IF \E p \in a..b : s.kinds[p] \notin {"-", "+"} THEN None
        ELSE [old_start |-> Max({0, start(s.hunks[h].selection.old_start, "-", old)}), old_lines |-> old,
              new_start |-> Max({0, start(s.hunks[h].selection.new_start, "+", new)}), new_lines |-> new]

\* The blocks of changes of a hunk, one selection each.
DisplayedHunkPatchBlocks(s, h) ==
    LET lines == Selectable(s, h)
        firsts == Ascending({p \in lines : p - 1 \notin lines}, Len(s.kinds))
        last(p) == CHOOSE q \in lines : q >= p /\ q + 1 \notin lines /\ p..q \subseteq lines
    IN  [i \in DOMAIN firsts |-> SelectionForDisplayRange(s, h, firsts[i], last(firsts[i]))]

Ready == job = None /\ left.jobs > 0 /\ view.hunk # 0

\* "rows" is history: the rows the user has selected.
Enqueue(selections, rows) ==
    /\ job' = [mode |-> screen.mode, selections |-> selections, patch |-> None,
               step |-> "diff", rows |-> rows, read |-> None]
    /\ left' = [left EXCEPT !.jobs = @ - 1]
    /\ UNCHANGED <<file, screen, view, loaded>>

\* StageSelectedHunk, UnstageSelectedHunk
SelectedHunkPatchJob ==
    LET selections == DisplayedHunkPatchBlocks(screen, view.hunk) IN
    /\ Ready /\ selections # <<>>
    /\ Enqueue(selections, Selectable(screen, view.hunk))

\* StageSelectedLines, UnstageSelectedLines; a refused range is a warning.
SelectedLinePatchJob ==
    LET anchor == IF view.anchor = 0 THEN view.cursor ELSE view.anchor
        a == Min({anchor, view.cursor})
        b == Max({anchor, view.cursor})
    IN  /\ Ready /\ view.cursor # 0
        /\ SelectionForDisplayRange(screen, view.hunk, a, b) # None
        /\ Enqueue(<<SelectionForDisplayRange(screen, view.hunk, a, b)>>, a..b)

Around(at, d, n) == 1 + ((at - 1 + d) % n)

Moves(v) == job = None /\ view' = v /\ UNCHANGED <<file, screen, job, loaded, left>>

StepDiffHunkSelection(d) ==
    /\ screen.hunks # <<>>
    /\ Moves(SyncDiffSelection(screen, [view EXCEPT !.hunk = Around(Max({1, @}), d, Len(screen.hunks))]))

StepDiffLineSelection(d) ==
    LET lines == Ascending(IF view.hunk = 0 THEN {} ELSE Selectable(screen, view.hunk), Len(screen.kinds))
        at == SelectInSeq(lines, LAMBDA p : p = view.cursor)
    IN  /\ lines # <<>>
        /\ Moves([view EXCEPT !.cursor = IF at = 0 THEN lines[1] ELSE lines[Around(at, d, Len(lines))]])

ToggleDiffLineAnchor ==
    /\ view.cursor # 0
    /\ Moves([view EXCEPT !.anchor = IF @ = view.cursor THEN 0 ELSE view.cursor])

\* The other pane is focused, or the file is looked at again.
LoadRepoDetail(mode) ==
    /\ job = None
    /\ Show(mode)
    /\ UNCHANGED <<file, job, left>>

---------------------------------------------------------------------------
(* Effect::RunPatchSelection. *)

\* git diff --unified=0, and the patch made of it.
ReadDiff ==
    LET patch == SelectedPatch(DiffOf(file, job.mode), job.selections, job.mode = "Unstage") IN
    /\ job # None /\ job.step = "diff"
    /\ job' = [job EXCEPT !.patch = patch, !.read = file, !.step = IF patch = None THEN "failed" ELSE "apply"]
    /\ UNCHANGED <<file, screen, view, loaded, left>>

ApplyPatch ==
    LET applied == Apply(file.index, job.patch, job.mode = "Unstage") IN
    /\ job # None /\ job.step = "apply"
    /\ IF applied = None THEN UNCHANGED file ELSE file' = [file EXCEPT !.index = applied]
    /\ job' = [job EXCEPT !.step = IF applied = None THEN "failed" ELSE "applied"]
    /\ UNCHANGED <<screen, view, loaded, left>>

\* Completed or failed, the detail is read again.
JobEnds ==
    /\ job # None /\ job.step \in {"applied", "failed"}
    /\ job' = None
    /\ Show(screen.mode)
    /\ UNCHANGED <<file, left>>

---------------------------------------------------------------------------
\* Somebody else saves the file, stages it or unstages it.
Outside ==
    /\ left.outside > 0
    /\ left' = [left EXCEPT !.outside = @ - 1]
    /\ \/ \E text \in Saves : file' = [file EXCEPT !.work = text]
       \/ file' = [file EXCEPT !.index = file.work]
       \/ file' = [file EXCEPT !.index = file.head]
    /\ UNCHANGED <<screen, view, job, loaded>>

Init ==
    /\ file \in Files
    /\ screen = DiffModel(file, "Stage")
    /\ view = SyncDiffSelection(screen, [hunk |-> 1, cursor |-> 0, anchor |-> 0])
    /\ job = None
    /\ loaded = file
    /\ left = [jobs |-> MaxJobs, outside |-> MaxOutside]

Select ==
    \/ \E d \in {-1, 1} : StepDiffHunkSelection(d) \/ StepDiffLineSelection(d)
    \/ ToggleDiffLineAnchor

Next ==
    \/ Select
    \/ SelectedHunkPatchJob
    \/ SelectedLinePatchJob
    \/ \E mode \in Modes : LoadRepoDetail(mode)
    \/ ReadDiff
    \/ ApplyPatch
    \/ JobEnds
    \/ Outside

Spec == Init /\ [][Next]_vars

---------------------------------------------------------------------------
(* Properties. *)

TypeOK ==
    /\ screen.mode \in Modes
    /\ view.hunk \in 0..Len(screen.hunks)
    /\ {view.cursor, view.anchor} \subseteq
           (IF view.hunk = 0 THEN {} ELSE Selectable(screen, view.hunk)) \union {0}
    /\ job # None => job.mode \in Modes /\ job.step \in {"diff", "apply", "applied", "failed"}
    /\ left \in [jobs : 0..MaxJobs, outside : 0..MaxOutside]

\* The lines behind the selected rows, as often as each is removed and added.
Chosen ==
    LET shown == FlattenSeq([h \in DOMAIN Hunks(DiffOf(loaded, job.mode), ContextLines) |->
                    <<Line("hunk", None)>> \o Hunks(DiffOf(loaded, job.mode), ContextLines)[h].body])
    IN  ToBag([i \in 1..Cardinality(job.rows) |-> shown[Ascending(job.rows, Len(shown))[i]]])

Difference(f, mode) == Changes(Sides(f, mode)[1], Sides(f, mode)[2])

\* A job does exactly what was asked: the selected lines leave the diff, all
\* others stay.
TakesTheChosen ==
    /\ ~(job.step # "failed" /\ job'.step = "failed")
    /\ job.step # job'.step /\ job'.step = "applied" =>
           Difference(file', job.mode) = Difference(file, job.mode) (-) Chosen

\* Nobody has touched the file since it was shown.
Undisturbed(mode) == job # None /\ job' # None /\ job.mode = mode /\ loaded = file

\* The changes that stay staged before each selected line remove as many lines
\* as they add.
Level ==
    \A p \in job.rows :
        LET kept(kind) == Cardinality({q \in 1..p : q \notin job.rows /\ screen.kinds[q] = kind})
        IN  kept("-") = kept("+")

\* Staging takes the selected lines, whatever part of a hunk they are and
\* whatever stands before them, and only them; unstaging too, when what stays
\* staged above them is level (selected_hunk_patch_job, ParsedHunk::transform).
MovesTheSelected ==
    [][Undisturbed("Stage") \/ (Undisturbed("Unstage") /\ Level) => TakesTheChosen]_vars

\* docs/KEYBINDINGS.md: "Stage or unstage the selected hunk, depending on diff
\* orientation": without that condition.
UnstagesTheSelected == [][Undisturbed("Unstage") => TakesTheChosen]_vars

\* However old the screen is: when nobody touches the file between the two git
\* processes of the job (apply_patch_selection), staging moves the index towards
\* the working tree; it never writes a line the working tree does not have there.
StagesAPart ==
    [][job # None /\ job.step = "apply" /\ job'.step = "applied" /\ job.mode = "Stage" /\ job.read = file =>
          Difference(file', "Stage") \sqsubseteq Difference(file, "Stage")]_vars
=============================================================================
