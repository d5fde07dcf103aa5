----------------------------- MODULE GitHistory -----------------------------
(***************************************************************************)
(* What the commands of CliGitBackend (crates/git/src/lib.rs) that move    *)
(* HEAD do to a repository: checkouts, the scripted and the plain rebase,  *)
(* cherry-pick, revert, reset and bisect.                                  *)
(*                                                                         *)
(* A change is what a commit adds to and takes from the tree of its        *)
(* parent, its subject, its author, and whether it is a "fixup!" of the    *)
(* subject. A commit is the sequence of changes from the root to it, so    *)
(* equal commits are the same commit, as their hashes say. There are no    *)
(* merges.                                                                 *)
(*                                                                         *)
(* A repository g is a record                                              *)
(*   head, on      the commit of HEAD, and the branch it is on or "none"   *)
(*   branch        the commit of each branch                               *)
(*   index, tree                                                           *)
(*   reflog        what HEAD was, HEAD@{0} first                           *)
(*   op            the rebase or cherry-pick in progress: the head and the *)
(*                 branch before it, what is left to do, why and where it  *)
(*                 has stopped                                             *)
(*   bisect        where the bisect in progress was started, what has been *)
(*                 marked, and the commit git has asked about              *)
(*                                                                         *)
(* A git process leaves a set of results, each a repository and whether it *)
(* reports success; a process that stops a rebase fails and changes it.    *)
(***************************************************************************)
EXTENDS Naturals, Sequences, FiniteSets, SequencesExt

CONSTANTS
    Edits,      \* what a commit may add or take away
    Needs,      \* the edits an edit is made on top of: without them it conflicts
    Subjects    \* what a commit may be called

ASSUME NeedsAssumption == Needs \in [Edits -> SUBSET Edits]
ASSUME SubjectsAssumption == {"reworded", "revert", "w"} \subseteq Subjects

Branches == {"main", "side"}

NoOp == [kind |-> "none", orig |-> <<>>, on |-> "none", todo |-> <<>>, stop |-> "none",
         at |-> <<>>]

NoBisect == [active |-> FALSE, on |-> "none", at |-> <<>>, bad |-> {}, good |-> {},
             skip |-> {}, next |-> <<>>]

(***************************************************************************)
(* Commits.                                                                *)
(***************************************************************************)
After(t, ch) == (t \union ch.add) \ ch.del

TreeOf(c) == FoldLeft(After, {}, c)

Changes == [add : SUBSET Edits, del : SUBSET Edits, subj : Subjects, by : {"them", "us"},
            fix : BOOLEAN]

\* On top of t: what it adds is not there, and what it takes away is.
Exact(t, ch) == ch.add \intersect t = {} /\ ch.del \subseteq t

AllCommits ==
    {c \in Seq(Changes) : \A n \in DOMAIN c : Exact(TreeOf(SubSeq(c, 1, n - 1)), c[n])}

Conflicts(t, ch) ==
    \/ \E e \in ch.add \ t : ~(Needs[e] \subseteq t)
    \/ \E e \in ch.del \intersect t, d \in t \ ch.del : e \in Needs[d]

Empty(ch) == ch.add \union ch.del = {}

\* The change as it is when made on top of t.
Onto(t, ch) == [ch EXCEPT !.add = @ \ t, !.del = @ \intersect t]

Merged(c, ch) ==
    LET before == TreeOf(Front(c))
        after == After(TreeOf(c), ch)
    IN  [Last(c) EXCEPT !.add = after \ before, !.del = before \ after]

Undoing(ch) == [ch EXCEPT !.add = ch.del, !.del = ch.add, !.subj = "revert", !.fix = FALSE]

Ancestor(c, h) == IsPrefix(c, h)

Parting(c, d) == Len(LongestCommonPrefix({c, d}))

(***************************************************************************)
(* Repositories.                                                           *)
(***************************************************************************)
Items == [verb : {"pick", "edit", "squash", "drop", "reword", "fixup", "apply"},
          of : AllCommits \ {<<>>}]

Operations ==
    [kind : {"none", "rebase", "pick", "revert"}, orig : AllCommits,
     on : Branches \union {"none"}, todo : Seq(Items),
     stop : {"none", "edit", "conflict", "empty", "resolved"}, at : AllCommits]

Bisections ==
    [active : BOOLEAN, on : Branches \union {"none"}, at : AllCommits, bad : SUBSET AllCommits,
     good : SUBSET AllCommits, skip : SUBSET AllCommits, next : AllCommits]

\* HEAD moves with its branch, and all it has been at is in the reflog. A rebase
\* picks from there, and stops at what is left to do; a cherry-pick or revert only
\* at a conflict.
Repositories ==
    {g \in [head : AllCommits, on : Branches \union {"none"}, branch : [Branches -> AllCommits],
            index : SUBSET Edits, tree : SUBSET Edits, reflog : Seq(AllCommits),
            op : Operations, bisect : Bisections] :
        /\ g.on \in Branches => g.branch[g.on] = g.head
        /\ g.head \in ToSet(g.reflog)
        /\ g.op.stop = "none" <=> g.op = NoOp
        /\ g.op.stop \in {"conflict", "empty", "resolved"} => g.op.todo # <<>>
        /\ g.op.kind \in {"pick", "revert"} => g.op.stop = "conflict"
        /\ g.op.kind = "rebase" =>
               /\ g.op.orig \in ToSet(g.reflog)
               /\ \A it \in ToSet(g.op.todo) : \E c \in ToSet(g.reflog) : Ancestor(it.of, c)
        /\ g.bisect.active \/ g.bisect = NoBisect}

(***************************************************************************)
(* HEAD, index and working tree.                                           *)
(***************************************************************************)
IndexClean(g) == g.index = TreeOf(g.head)

Clean(g) == IndexClean(g) /\ g.tree = g.index

\* A branch that HEAD is on moves with it.
Moved(g, c) ==
    [g EXCEPT !.head = c, !.reflog = <<c>> \o @,
              !.branch = [b \in Branches |-> IF b = g.on THEN c ELSE @[b]]]

At(g, c) == [Moved(g, c) EXCEPT !.index = TreeOf(c), !.tree = TreeOf(c)]

Fails(g) == {[g |-> g, ok |-> FALSE]}

Done(g) == {[g |-> g, ok |-> TRUE]}

CommitIndex(g, subj, fix) ==
    LET t == TreeOf(g.head)
    IN  IF IndexClean(g) THEN Fails(g)
        ELSE Done(Moved(g, Append(g.head, [add |-> g.index \ t, del |-> t \ g.index,
                                           subj |-> subj, by |-> "us", fix |-> fix])))

\* reset_to_commit
Reset(g, mode, c) ==
    CASE mode = "Soft" -> Done(Moved(g, c))
      [] mode = "Mixed" -> Done([Moved(g, c) EXCEPT !.index = TreeOf(c)])
      [] mode = "Hard" -> Done(At(g, c))

(***************************************************************************)
(* Running what is left of a rebase: one item after the other until one of *)
(* them stops it.                                                          *)
(***************************************************************************)
Stop(a, it, why) == [a EXCEPT !.stop = why, !.todo = <<it>>]

\* There is nothing before the root to squash a change into.
Item(a, it) ==
    LET ch == Last(it.of)
        t == TreeOf(a.head)
        picked == Append(a.head, Onto(t, ch))
    IN  IF a.stop # "none" THEN [a EXCEPT !.todo = Append(@, it)]
        ELSE IF it.verb = "drop" THEN a
        ELSE IF Conflicts(t, ch) THEN Stop(a, it, "conflict")
        ELSE IF it.verb \in {"squash", "fixup"} /\ a.head # <<>>
             THEN [a EXCEPT !.head = Append(Front(@), Merged(@, ch))]
        ELSE IF ~Empty(ch) /\ Empty(Onto(t, ch))
             THEN IF it.verb = "apply" THEN a ELSE Stop(a, it, "empty")
        ELSE IF it.verb = "reword"
             THEN [a EXCEPT !.head = Append(@, [Last(picked) EXCEPT !.subj = "reworded"])]
        ELSE IF it.verb = "edit" THEN [a EXCEPT !.head = picked, !.stop = "edit"]
        ELSE [a EXCEPT !.head = picked]

Ran(from, todo) == FoldLeft(Item, [head |-> from, todo |-> <<>>, stop |-> "none"], todo)

\* HEAD is detached while a rebase is in progress.
Starting(g) ==
    [g EXCEPT !.on = "none",
              !.op = [NoOp EXCEPT !.kind = "rebase", !.orig = g.head, !.on = g.on]]

Stopped(g, done) ==
    [g |-> [At(g, done.head) EXCEPT !.op.todo = done.todo, !.op.stop = done.stop,
                                    !.op.at = done.head],
     ok |-> done.stop = "edit"]

\* The branch is moved to where HEAD is now, unless it has been moved meanwhile.
Finished(g, c) ==
    LET moved == g.op.on
        there == At(g, c)
    IN  IF moved # "none" /\ there.branch[moved] # g.op.orig
        THEN [g |-> [there EXCEPT !.op.todo = <<>>, !.op.stop = "edit", !.op.at = <<>>],
              ok |-> FALSE]
        ELSE [g |-> [there EXCEPT !.op = NoOp, !.on = moved,
                                  !.branch = [n \in Branches |-> IF n = moved THEN c ELSE @[n]]],
              ok |-> TRUE]

\* Mutant: a rebase that conflicts is quit where it is.
RunTodoQuits(g, from, todo) ==
    LET done == Ran(from, todo)
        quit == Finished(g, done.head)
    IN  {IF done.stop = "edit" THEN Stopped(g, done)
         ELSE [quit EXCEPT !.ok = done.stop = "none"]}

RunTodo(g, from, todo) ==
    LET done == Ran(from, todo)
    IN  {IF done.stop = "none" THEN Finished(g, done.head) ELSE Stopped(g, done)}

(***************************************************************************)
(* run_scripted_rebase and run_reordered_rebase.                           *)
(***************************************************************************)
\* What they have not got yet.
Wanted(l, c) ==
    IF <<Last(c).add, Last(c).del>> \in l.theirs THEN l
    ELSE [l EXCEPT !.todo = Append(@, [verb |-> "pick", of |-> c])]

Unpicked(own, theirs) == FoldLeft(Wanted, [todo |-> <<>>, theirs |-> theirs], own)

Picks(g, base) ==
    LET common == Parting(base, g.head)
        theirs == {<<ch.add, ch.del>> : ch \in ToSet(SubSeq(base, common + 1, Len(base)))}
        own == [i \in 1..(Len(g.head) - common) |-> SubSeq(g.head, 1, common + i)]
    IN  Unpicked(own, theirs).todo

\* The script edits the first "pick" of the commit; without one it edits nothing.
WithVerb(todo, c, verb) ==
    [i \in DOMAIN todo |-> IF todo[i].of = c THEN [todo[i] EXCEPT !.verb = verb] ELSE todo[i]]

\* "--autosquash": a fixup follows the first commit of its subject, after those
\* that follow it already.
Squashed(todo, it) ==
    LET fits == {i \in DOMAIN todo : ~Last(todo[i].of).fix
                                     /\ Last(todo[i].of).subj = Last(it.of).subj}
        i == CHOOSE i \in fits : \A j \in fits : i <= j
        after == {k \in i..Len(todo) : \A j \in (i + 1)..k : todo[j].verb = "fixup"}
        k == CHOOSE k \in after : \A j \in after : j <= k
    IN  IF ~Last(it.of).fix \/ fits = {} THEN Append(todo, it)
        ELSE InsertAt(todo, k + 1, [it EXCEPT !.verb = "fixup"])

Autosquash(todo) == FoldLeft(Squashed, <<>>, todo)

\* The base is the parent of the commit, and its grandparent for a squash, which
\* needs the parent in the list; <<>> is --root.
Base(c, verb) == IF verb = "squash" THEN Front(Front(c)) ELSE Front(c)

ScriptedRebase(g, c, verb, autosquash) ==
    LET todo == Picks(g, Base(c, verb))
    IN  IF g.op # NoOp \/ ~Clean(g) THEN Fails(g)
        ELSE RunTodo(Starting(g), Base(c, verb),
                     IF autosquash THEN Autosquash(todo) ELSE WithVerb(todo, c, verb))

\* The two are swapped where the newer follows the older; where it does not, the
\* script fails and git gives up the rebase.
ReorderedRebase(g, older, newer) ==
    LET todo == Picks(g, Front(older))
        at == {i \in 1..(Len(todo) - 1) : todo[i].of = older /\ todo[i + 1].of = newer}
    IN  IF g.op # NoOp \/ ~Clean(g) \/ at = {} THEN Fails(g)
        ELSE LET i == CHOOSE i \in at : TRUE
             IN  RunTodo(Starting(g), Front(older),
                         [todo EXCEPT ![i] = todo[i + 1], ![i + 1] = todo[i]])

\* "git rebase": what is there already is not picked again, and what turns out to
\* be is left out.
RebaseCurrentOnto(g, b) ==
    LET onto == g.branch[b]
        todo == [i \in DOMAIN Picks(g, onto) |-> [Picks(g, onto)[i] EXCEPT !.verb = "apply"]]
    IN  IF g.op # NoOp \/ ~Clean(g) THEN Fails(g)
        ELSE IF Ancestor(onto, g.head) THEN Done(g)
        ELSE RunTodo(Starting(g), onto, todo)

(***************************************************************************)
(* A rebase in progress.                                                   *)
(***************************************************************************)
Rest(g) == IF g.op.stop = "edit" THEN g.op.todo ELSE Tail(g.op.todo)

AmendIndex(g) ==
    LET before == TreeOf(Front(g.head))
    IN  Append(Front(g.head), [Last(g.head) EXCEPT !.add = g.index \ before,
                                                   !.del = before \ g.index])

\* What has been resolved is committed with the message of its commit, or added
\* to the commit before it; nothing is committed when nothing is left of it.
Resolved(g) ==
    LET t == TreeOf(g.head)
        it == Head(g.op.todo)
    IN  IF IndexClean(g) THEN g.head
        ELSE IF it.verb \in {"squash", "fixup"} THEN AmendIndex(g)
        ELSE Append(g.head, [Last(it.of) EXCEPT !.add = g.index \ t, !.del = t \ g.index])

\* What is staged would be added to the commit the rebase has stopped at: not when
\* HEAD has been moved, or has no commit.
Misplaced(g) ==
    /\ ~IndexClean(g) /\ (g.head # g.op.at \/ g.head = <<>>)
    /\ g.op.stop = "edit" \/ Head(g.op.todo).verb \in {"squash", "fixup"}

ContinueRebase(g) ==
    IF g.op.kind # "rebase" \/ g.op.stop = "conflict" \/ g.tree # g.index \/ Misplaced(g)
    THEN Fails(g)
    ELSE RunTodo(g, IF g.op.stop = "edit"
                    THEN IF IndexClean(g) THEN g.head ELSE AmendIndex(g)
                    ELSE Resolved(g),
                 Rest(g))

SkipRebase(g) ==
    IF g.op.kind # "rebase" THEN Fails(g) ELSE RunTodo(g, g.head, Rest(g))

AbortRebase(g) ==
    IF g.op.kind # "rebase" THEN Fails(g)
    ELSE Done([At([g EXCEPT !.on = g.op.on], g.op.orig) EXCEPT !.op = NoOp])

(***************************************************************************)
(* cherry_pick_commits, revert_commit, amend_current_commit_attributes.    *)
(* A change may not touch what is not committed.                           *)
(***************************************************************************)
Loose(g) == (g.tree \ g.index) \union (g.index \ g.tree)

Touches(g, ch) ==
    \E e \in ch.add \union ch.del, d \in Loose(g) :
        e = d \/ e \in Needs[d] \/ d \in Needs[e]

\* On top of what is there, keeping what is not staged.
CommitChange(g, ch) ==
    LET c == Append(g.head, Onto(TreeOf(g.head), ch))
    IN  [Moved(g, c) EXCEPT !.index = TreeOf(c),
                            !.tree = (TreeOf(c) \union (g.tree \ g.index)) \ (g.index \ g.tree)]

Refuses(g, ch) == g.op # NoOp \/ ~IndexClean(g) \/ Touches(g, ch)

Stuck(g, kind, c) ==
    [g |-> [g EXCEPT !.op = [NoOp EXCEPT !.kind = kind, !.orig = g.head, !.stop = "conflict",
                                         !.todo = <<[verb |-> "pick", of |-> c]>>]],
     ok |-> FALSE]

CherryPickNext(r, c) ==
    LET g == r.g
        ch == Last(c)
        t == TreeOf(g.head)
    IN  IF ~r.ok THEN r
        ELSE IF Refuses(g, ch) THEN [g |-> g, ok |-> FALSE]
        ELSE IF Conflicts(t, ch) \/ Empty(Onto(t, ch)) THEN Stuck(g, "pick", c)
        ELSE [g |-> CommitChange(g, ch), ok |-> TRUE]

Picked(g, commits) == FoldLeft(CherryPickNext, [g |-> g, ok |-> TRUE], commits)

CherryPick(g, commits) == {Picked(g, commits)}

Revert(g, c) ==
    LET ch == Undoing(Last(c))
        t == TreeOf(g.head)
    IN  IF Refuses(g, ch) \/ Empty(Onto(t, ch)) THEN Fails(g)
        ELSE IF Conflicts(t, ch) THEN {Stuck(g, "revert", c)}
        ELSE Done(CommitChange(g, ch))

AmendAttributes(g) ==
    IF g.op.stop = "conflict" \/ g.head = <<>> THEN Fails(g)
    ELSE Done(Moved(g, Append(Front(g.head), [Last(g.head) EXCEPT !.by = "us"])))

(***************************************************************************)
(* Checkouts: a rebase in progress is not in their way, and they do not    *)
(* end it; a cherry-pick or revert they end.                               *)
(***************************************************************************)
Uncommitted(g) ==
    {e \in Edits : (e \in g.index) # (e \in TreeOf(g.head)) \/ (e \in g.tree) # (e \in g.index)}

Between(c, d) == (TreeOf(c) \ TreeOf(d)) \union (TreeOf(d) \ TreeOf(c))

Blocked(g, c) ==
    \/ g.op.stop = "conflict"
    \/ \E e \in Between(g.head, c), d \in Uncommitted(g) :
          e = d \/ e \in Needs[d] \/ d \in Needs[e]

Carried(g, c, set) == (TreeOf(c) \union (set \ TreeOf(g.head))) \ (TreeOf(g.head) \ set)

\* To the commit c, on the branch b or detached.
Checkout(g, c, b) ==
    IF Blocked(g, c) THEN Fails(g)
    ELSE Done([Moved([g EXCEPT !.on = b], c) EXCEPT
                  !.index = Carried(g, c, g.index), !.tree = Carried(g, c, g.tree)])

ForceCheckout(g, b) ==
    LET there == At([g EXCEPT !.on = b], g.branch[b])
    IN  Done([there EXCEPT
                 !.op = IF g.op.kind # "rebase" THEN NoOp
                        ELSE IF g.op.stop = "conflict" THEN [g.op EXCEPT !.stop = "resolved"]
                        ELSE g.op])

(***************************************************************************)
(* "git bisect". What it asks about is remembered before it is checked     *)
(* out, and forgotten when another commit is marked.                       *)
(***************************************************************************)
BisectStart(g) ==
    Done([g EXCEPT !.bisect = [NoBisect EXCEPT !.active = TRUE, !.on = g.on, !.at = g.head]])

Marked(bi, term, c) ==
    LET asked == [bi EXCEPT !.next = IF @ = c THEN c ELSE <<>>]
    IN  CASE term = "bad" -> [asked EXCEPT !.bad = {c}]
          [] term = "good" -> [asked EXCEPT !.good = @ \union {c}]
          [] term = "skip" -> [asked EXCEPT !.skip = @ \union {c}]

\* Where the bad commit does not follow a good one, where they part is asked about
\* first; then one of those between them, which one is git's choice.
Bases(bi, bad) ==
    {LongestCommonPrefix({bad, x}) : x \in {x \in bi.good : ~Ancestor(x, bad)}} \ bi.good

Suspects(bi, bad) ==
    {SubSeq(bad, 1, n) : n \in {n \in 1..(Len(bad) - 1) :
        \A x \in bi.good : ~Ancestor(SubSeq(bad, 1, n), x)}}

AskAbout(g, c) ==
    LET asking == [g EXCEPT !.bisect.next = c] IN Checkout(asking, c, "none")

BisectNext(g) ==
    LET bi == g.bisect
        bad == CHOOSE c \in bi.bad : TRUE
        asked == IF Bases(bi, bad) \ bi.skip # {} THEN Bases(bi, bad) ELSE Suspects(bi, bad)
    IN  IF bi.bad = {} \/ bi.good = {} THEN Done(g)
        ELSE IF \E x \in bi.good : Ancestor(bad, x) THEN Fails(g)
        ELSE IF asked = {} THEN Done(g)
        ELSE IF asked \subseteq bi.skip THEN Fails(g)
        ELSE UNION {AskAbout(g, c) : c \in asked \ bi.skip}

BisectMark(g, term, c) ==
    IF ~g.bisect.active THEN Fails(g)
    ELSE BisectNext([g EXCEPT !.bisect = Marked(@, term, c)])

BisectReset(g) ==
    LET bi == g.bisect
        back == IF bi.on = "none" THEN bi.at ELSE g.branch[bi.on]
    IN  IF ~bi.active THEN Done(g)
        ELSE {IF r.ok THEN [r EXCEPT !.g.bisect = NoBisect] ELSE r : r \in Checkout(g, back, bi.on)}
=============================================================================
