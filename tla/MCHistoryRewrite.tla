-------------------------- MODULE MCHistoryRewrite --------------------------
(***************************************************************************)
(* Three commits on HEAD and one more on another branch; b2 is made on top *)
(* of b, and somebody edits w. One repository has stopped in a rebase,     *)
(* another is being bisected, with what b2 does not yet committed.         *)
(***************************************************************************)
EXTENDS HistoryRewrite

CONSTANTS a, b, b2, s, w

MCEdits == {a, b, b2, s, w}
MCNeeds == [e \in MCEdits |-> IF e = b2 THEN {b} ELSE {}]
MCLoosely == {w}
MCSubjects == {"a", "b", "b2", "no b", "s", "w", "reworded", "revert"}

Change(add, del, subj, fix) ==
    [add |-> add, del |-> del, subj |-> subj, by |-> "them", fix |-> fix]

A == Change({a}, {}, "a", FALSE)
B == Change({b}, {}, "b", FALSE)
B2 == Change({b2}, {}, "b2", FALSE)
FixB == Change({b2}, {}, "b", TRUE)
NoB == Change({}, {b}, "no b", FALSE)
S == Change({s}, {}, "s", FALSE)

Repo(head, side, index, tree) ==
    [head |-> head, on |-> "main", branch |-> ("main" :> head @@ "side" :> side),
     index |-> index, tree |-> tree,
     reflog |-> <<head, Front(head)>>, op |-> NoOp, bisect |-> NoBisect]

CleanRepo(head) == Repo(head, <<A, S>>, TreeOf(head), TreeOf(head))

Rebasing ==
    LET edits == ScriptedRebase(CleanRepo(<<A, B, B2>>), <<A, B>>, "edit", FALSE)
    IN  {r.g : r \in edits}

Bisecting ==
    LET start == {r.g : r \in BisectStart(CleanRepo(<<A, B, B2>>))}
        bad == {r.g : r \in UNION {BisectMark(g, "bad", <<A, B, B2>>) : g \in start}}
        good == {r.g : r \in UNION {BisectMark(g, "good", <<A>>) : g \in bad}}
    IN  {[g EXCEPT !.tree = @ \union {b2}] : g \in good}

AllRepos ==
    Rebasing \union Bisecting \union
    {CleanRepo(<<A, B, B2>>), CleanRepo(<<B, A, FixB>>), CleanRepo(<<A, B, NoB>>),
     Repo(<<A, B, B2>>, <<A, S>>, {a, b, b2, w}, {a, b, b2, w})}

Histories == {"head", "branch", "reverse"}

AllCommands ==
    {"Edit", "ApplyFixups", "Squash", "Drop", "Reword", "Fixup", "CreateFixup",
     "AmendAttributes", "Revert", "CherryPick", "Soft", "Mixed", "Hard", "MoveUp", "MoveDown",
     "Restore", "Continue", "Skip", "Abort", "Paste", "CheckoutCommit", "Checkout",
     "ForceCheckout", "RebaseOnto", "StartBisect", "MarkBisect", "ResetBisect"}
AllActs == {"edit", "add", "commit", "settle"}
=============================================================================
