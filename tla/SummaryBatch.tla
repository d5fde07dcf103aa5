---- MODULE SummaryBatch ----
(***************************************************************************)
(* What one RefreshRepoSummaries effect promises to the event loop, with   *)
(* no word about threads or channels: the log of events it hands back.     *)
(* Job j is the j-th repository of the request.  Every job is started once *)
(* and answered once, at most Limit are on their way at a time, and an     *)
(* answer shows the repository as it was after its job was started.        *)
(***************************************************************************)
EXTENDS Integers, FiniteSets, Sequences

CONSTANTS
    N,           \* repositories in the request, a natural number
    Limit,       \* jobs on their way at a time, a positive number
    MaxVersion,  \* bound on the changes to a repository
    Failed       \* the result of a read that fails, not a number

VARIABLES
    git,       \* the version of each repository
    asked,     \* history: the version a repository had when its job was started
    log,       \* the follow-up events, in order
    returned   \* the effect is done

vars == <<git, asked, log, returned>>

Jobs == 1..N
Version == 0..MaxVersion

Started(j) == [kind |-> "RepoSummaryRefreshStarted", job |-> j]
\* RepoSummaryUpdated with the version read, or RepoSummaryRefreshFailed.
Answer(j, result) == [kind |-> "Answer", job |-> j, result |-> result]
Events == [kind: {"RepoSummaryRefreshStarted"}, job: Jobs]
            \cup [kind: {"Answer"}, job: Jobs, result: Version \cup {Failed}]

StartedIn(l) ==
    {j \in Jobs : \E i \in DOMAIN l :
                    l[i].kind = "RepoSummaryRefreshStarted" /\ l[i].job = j}
AnsweredIn(l) ==
    {j \in Jobs : \E i \in DOMAIN l : l[i].kind = "Answer" /\ l[i].job = j}
OnTheWay(l) == StartedIn(l) \ AnsweredIn(l)

Init ==
    /\ git = [j \in Jobs |-> 0]
    /\ asked = [j \in Jobs |-> 0]
    /\ log = <<>>
    /\ returned = FALSE

Start(j) ==
    /\ j \notin StartedIn(log)
    /\ Cardinality(OnTheWay(log)) < Limit
    /\ log' = Append(log, Started(j))
    /\ asked' = [asked EXCEPT ![j] = git[j]]
    /\ UNCHANGED <<git, returned>>

Finish(j) ==
    /\ j \in OnTheWay(log)
    /\ \E result \in (asked[j]..git[j]) \cup {Failed} :
         log' = Append(log, Answer(j, result))
    /\ UNCHANGED <<git, asked, returned>>

Return ==
    /\ AnsweredIn(log) = Jobs
    /\ returned' = TRUE
    /\ UNCHANGED <<git, asked, log>>

\* Whoever else works in a repository.
Change(j) ==
    /\ git[j] < MaxVersion
    /\ git' = [git EXCEPT ![j] = @ + 1]
    /\ UNCHANGED <<asked, log, returned>>

Next ==
    \/ \E j \in Jobs : Start(j) \/ Finish(j) \/ Change(j)
    \/ Return

Spec == Init /\ [][Next]_vars
====
