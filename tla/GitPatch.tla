------------------------------ MODULE GitPatch ------------------------------
(***************************************************************************)
(* Patches of one text file: what git diff and git apply do with it, and   *)
(* what apply_patch_selection makes of the output of the one to give it to *)
(* the other.  A file is the sequence of its lines; every line ends with a *)
(* newline.                                                                *)
(***************************************************************************)
EXTENDS Integers, Sequences, FiniteSets, SequencesExt

CONSTANT None   \* no patch, no file

---------------------------------------------------------------------------
(* git diff. *)

Line(kind, text) == [kind |-> kind, text |-> text]

\* A shortest list of the lines kept, removed and added.  It is git's when no
\* line occurs twice; of several equal lines git may keep another one.
Edits(a, b) ==
    LET common[i \in 1..Len(a) + 1, j \in 1..Len(b) + 1] ==
            IF i > Len(a) \/ j > Len(b) THEN 0
            ELSE IF a[i] = b[j] THEN 1 + common[i + 1, j + 1]
            ELSE Max({common[i + 1, j], common[i, j + 1]})
        from[i \in 1..Len(a) + 1, j \in 1..Len(b) + 1] ==
            CASE i > Len(a) /\ j > Len(b) -> <<>>
              [] i <= Len(a) /\ j <= Len(b) /\ a[i] = b[j] -> <<Line(" ", a[i])>> \o from[i + 1, j + 1]
              [] i <= Len(a) /\ (j <= Len(b) => common[i + 1, j] >= common[i, j + 1]) ->
                     <<Line("-", a[i])>> \o from[i + 1, j]
              [] OTHER -> <<Line("+", b[j])>> \o from[i, j + 1]
    IN  from[1, 1]

Count(lines, kinds) == Cardinality({p \in DOMAIN lines : lines[p].kind \in kinds})

\* The removed lines of a block come before the added ones.
Diff(a, b) ==
    LET step(d, line) ==
            CASE line.kind = "+" -> [d EXCEPT !.added = Append(@, line)]
              [] line.kind = "-" -> [d EXCEPT !.lines = Append(@, line)]
              [] OTHER -> [lines |-> Append(d.lines \o d.added, line), added |-> <<>>]
        done == FoldLeft(step, [lines |-> <<>>, added |-> <<>>], Edits(a, b))
    IN  done.lines \o done.added

IsChange(line) == line.kind \in {"-", "+"}

\* How often each line is removed and added.
Changes(a, b) == ToBag(SelectSeq(Edits(a, b), IsChange))

\* The positions among 1..n that are in S, in order.
Ascending(S, n) == SelectSeq([i \in 1..n |-> i], LAMBDA i : i \in S)

\* The start of a side of a hunk: its first line, or the one before when it
\* has none.
Start(before, lines) == IF lines = 0 THEN before ELSE before + 1

Hunk(diff, first, last) ==
    LET before == SubSeq(diff, 1, first - 1)
        body == SubSeq(diff, first, last)
        old == Count(body, {" ", "-"})
        new == Count(body, {" ", "+"})
    IN  [selection |-> [old_start |-> Start(Count(before, {" ", "-"}), old), old_lines |-> old,
                        new_start |-> Start(Count(before, {" ", "+"}), new), new_lines |-> new],
         body |-> body]

\* The hunks with so many lines of context.
Hunks(diff, context) ==
    LET shown == {p \in DOMAIN diff : \E q \in DOMAIN diff :
                      IsChange(diff[q]) /\ q - p \in -context..context}
        firsts == Ascending({p \in shown : p - 1 \notin shown}, Len(diff))
        last(p) == CHOOSE q \in shown : q >= p /\ q + 1 \notin shown /\ p..q \subseteq shown
    IN  [h \in DOMAIN firsts |-> Hunk(diff, firsts[h], last(firsts[h]))]

---------------------------------------------------------------------------
(* What the program makes of it: build_selected_patch_with_opts. *)

Within(s, hunk) ==
    /\ s.old_start >= hunk.old_start - 1 /\ s.new_start >= hunk.new_start - 1
    /\ s.old_start + s.old_lines <= hunk.old_start + hunk.old_lines
    /\ s.new_start + s.new_lines <= hunk.new_start + hunk.new_lines

Matching(hunks, s) == SelectInSeq(hunks, LAMBDA h : h.selection = s \/ Within(s, h.selection))

EnsureHunkSelectionsExist(hunks, selections) ==
    \A s \in Range(selections) : s.old_lines + s.new_lines > 0 /\ Matching(hunks, s) # 0

\* The lines of hunk h that selection s means, by their numbers in both files.
IncludedBy(hunk, s) ==
    LET at(start, kind, p) == start + Count(SubSeq(hunk.body, 1, p - 1), {kind})
        old(p) == at(hunk.selection.old_start, "-", p)
        new(p) == at(hunk.selection.new_start, "+", p)
    IN  {p \in DOMAIN hunk.body :
            CASE hunk.body[p].kind = "-" -> old(p) \in s.old_start..s.old_start + s.old_lines - 1
              [] hunk.body[p].kind = "+" -> new(p) \in s.new_start..s.new_start + s.new_lines - 1
              [] OTHER -> FALSE}

IncludedLines(hunks, selections, h) ==
    UNION {IncludedBy(hunks[h], s) : s \in {s \in Range(selections) : Matching(hunks, s) = h}}

\* A mutant: the same for both directions.
TransformsForward(body, included, reverse) ==
    LET step(t, p) ==
            LET line == body[p]
                inFile == (line.kind = "-") # FALSE
                flushed == [t EXCEPT !.lines = @ \o t.pending, !.pending = <<>>]
            IN  CASE p \in included /\ (inFile \/ t.skipped) -> [flushed EXCEPT !.lines = Append(@, line)]
                  [] p \in included -> [t EXCEPT !.lines = Append(@, line)]
                  [] inFile -> [t EXCEPT !.pending = Append(@, Line(" ", line.text))]
                  [] OTHER -> [t EXCEPT !.skipped = TRUE]
        done == FoldLeftDomain(step, [lines |-> <<>>, pending |-> <<>>, skipped |-> FALSE], body)
    IN  done.lines \o done.pending

\* What is not selected stays as it is in the file the patch is for: the lines
\* of that file become context, those of the other one are dropped.  The
\* context waits for the next line that has to come after it.
TransformBody(body, included, reverse) ==
    LET step(t, p) ==
            LET line == body[p]
                inFile == (line.kind = "-") # reverse
                flushed == [t EXCEPT !.lines = @ \o t.pending, !.pending = <<>>]
            IN  CASE p \in included /\ (inFile \/ t.skipped) -> [flushed EXCEPT !.lines = Append(@, line)]
                  [] p \in included -> [t EXCEPT !.lines = Append(@, line)]
                  [] inFile -> [t EXCEPT !.pending = Append(@, Line(" ", line.text))]
                  [] OTHER -> [t EXCEPT !.skipped = TRUE]
        done == FoldLeftDomain(step, [lines |-> <<>>, pending |-> <<>>, skipped |-> FALSE], body)
    IN  done.lines \o done.pending

\* The part of a hunk that is selected, for a file that the parts before have
\* made longer by offset.
TransformHunk(hunk, included, offset, reverse) ==
    LET body == TransformBody(hunk.body, included, reverse)
        old == Count(body, {" ", "-"})
        new == Count(body, {" ", "+"})
        shift == IF old = 0 THEN 1 ELSE IF new = 0 THEN -1 ELSE 0
        start == hunk.selection.old_start
    IN  [selection |-> [old_start |-> start, old_lines |-> old,
                        new_start |-> Max({0, start + offset + shift}), new_lines |-> new],
         body |-> body]

\* A mutant: the lines selected before are not counted.
TransformsAlone(hunks, selections, reverse) ==
    LET part(h) == TransformHunk(hunks[h], IncludedLines(hunks, selections, h), 0, reverse)
    IN  SelectSeq([h \in DOMAIN hunks |-> part(h)], LAMBDA hunk : Count(hunk.body, {"-", "+"}) > 0)

Transform(hunks, selections, reverse) ==
    LET step(t, h) ==
            LET hunk == TransformHunk(hunks[h], IncludedLines(hunks, selections, h), t.offset, reverse)
            IN  [hunks |-> IF Count(hunk.body, {"-", "+"}) > 0 THEN Append(t.hunks, hunk) ELSE t.hunks,
                 offset |-> t.offset + hunk.selection.new_lines - hunk.selection.old_lines]
    IN  FoldLeftDomain(step, [hunks |-> <<>>, offset |-> 0], hunks).hunks

\* The patch for the selections, or None when it is refused.
SelectedPatch(diff, selections, reverse) ==
    LET hunks == Hunks(diff, 0)
    IN  IF hunks = <<>> \/ ~EnsureHunkSelectionsExist(hunks, selections) THEN None
        ELSE Transform(hunks, selections, reverse)

---------------------------------------------------------------------------
(* git apply --cached --unidiff-zero [--reverse]. *)

\* The place of the hunk: where it says, or else the nearest place after or
\* before that has its lines, none of which another hunk has written.
Place(image, lines, said, atStart) ==
    LET wanted == IF atStart THEN 0 ELSE IF said > Len(image) THEN Len(image) ELSE said
        fits(p) == /\ p + Len(lines) <= Len(image)
                   /\ \A i \in DOMAIN lines : image[p + i] = [text |-> lines[i].text, written |-> FALSE]
        distance(p) == IF p > wanted THEN 2 * (p - wanted) - 1 ELSE 2 * (wanted - p)
        places == {p \in 0..Len(image) : fits(p) /\ (atStart => p = 0)}
    IN  IF places = {} THEN -1
        ELSE CHOOSE p \in places : \A q \in places : distance(p) <= distance(q)

ApplyHunk(image, hunk, reverse) ==
    LET s == hunk.selection
        before == SelectSeq(hunk.body, LAMBDA l : l.kind # IF reverse THEN "-" ELSE "+")
        after == SelectSeq(hunk.body, LAMBDA l : l.kind # IF reverse THEN "+" ELSE "-")
        said == Max({1, IF reverse THEN s.old_start ELSE s.new_start}) - 1
        place == Place(image, before, said, (IF reverse THEN s.new_start ELSE s.old_start) = 0)
    IN  IF place = -1 THEN None
        ELSE SubSeq(image, 1, place) \o [i \in DOMAIN after |-> [text |-> after[i].text, written |-> TRUE]]
                \o SubSeq(image, place + Len(before) + 1, Len(image))

\* The file after the patch, or None when a hunk has no place or there is none.
Apply(file, patch, reverse) ==
    LET image == [i \in DOMAIN file |-> [text |-> file[i], written |-> FALSE]]
        step(i, hunk) == IF i = None THEN None ELSE ApplyHunk(i, hunk, reverse)
        applied == FoldLeft(step, image, patch)
    IN  IF patch = <<>> \/ applied = None THEN None ELSE [i \in DOMAIN applied |-> applied[i].text]
=============================================================================
