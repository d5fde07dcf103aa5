---- MODULE SummaryRefreshPool ----
(***************************************************************************)
(* How AppRuntime::refresh_repo_summaries reads the summaries of a batch:  *)
(* one thread per repository, at most Limit at a time, each sending one    *)
(* outcome over a channel of which the main thread keeps a sender itself.  *)
(* The event loop stands still until it returns.  What is named Pool...    *)
(* would otherwise be called as in WorkspaceRuntime: the proofs about both *)
(* share a module.                                                         *)
(***************************************************************************)
EXTENDS Integers, FiniteSets, Sequences

CONSTANTS
    N,           \* repositories in the request
    Limit,       \* SUMMARY_REFRESH_WORKER_LIMIT
    MaxVersion,  \* bound on the changes to a repository
    Failed,      \* the result of a read that fails
    Stuck        \* jobs whose read never ends, or panics: nothing is sent

ASSUME PoolAssumption ==
    /\ N \in Nat /\ Limit \in Nat \ {0} /\ MaxVersion \in Nat
    /\ Failed \notin Nat /\ Stuck \subseteq 1..N

VARIABLES
    git,       \* the version of each repository
    asked,     \* history: the version a repository had when its job was started
    pc,        \* the main thread: "fill", "recv", "refill" or "returned"
    taken,     \* how many repositories were popped from pending
    activeWorkers,  \* active_workers
    worker,    \* each job's thread: "none", "reading", "sending" or "gone"
    read,      \* what a thread has read
    channel,   \* outcomes sent and not received
    events     \* follow_up_events

mainVars == <<pc, taken, activeWorkers, events>>
poolVars == <<git, asked, mainVars, worker, read, channel>>

Batch == INSTANCE SummaryBatch WITH log <- events, returned <- pc = "returned"
PoolJobs == Batch!Jobs
Result == Batch!Version \cup {Failed}
PoolWorkerLimit == IF N < Limit THEN N ELSE Limit

PoolTypeOK ==
    /\ git \in [PoolJobs -> Batch!Version]
    /\ asked \in [PoolJobs -> Batch!Version]
    /\ pc \in {"fill", "recv", "refill", "returned"}
    /\ taken \in 0..N
    /\ activeWorkers \in 0..PoolWorkerLimit
    /\ worker \in [PoolJobs -> {"none", "reading", "sending", "gone"}]
    /\ read \in [PoolJobs -> Result]
    /\ channel \in Seq([job: PoolJobs, result: Result])
    /\ events \in Seq(Batch!Events)

PoolInit ==
    /\ git = [j \in PoolJobs |-> 0]
    /\ asked = [j \in PoolJobs |-> 0]
    /\ pc = "fill" /\ taken = 0 /\ activeWorkers = 0
    /\ worker = [j \in PoolJobs |-> "none"]
    /\ read = [j \in PoolJobs |-> 0]
    /\ channel = <<>>
    /\ events = <<>>

\* Pops the next repository, announces its job and starts its thread.
Spawn ==
    /\ taken' = taken + 1
    /\ activeWorkers' = activeWorkers + 1
    /\ events' = Append(events, Batch!Started(taken + 1))
    /\ worker' = [worker EXCEPT ![taken + 1] = "reading"]
    /\ asked' = [asked EXCEPT ![taken + 1] = git[taken + 1]]

\* Mutant: one worker too many.
HasRoomOffByOne == activeWorkers <= PoolWorkerLimit /\ taken < N

\* The fill loop's condition; its branch for an empty pending is never taken.
HasRoom == activeWorkers < PoolWorkerLimit

Fill ==
    /\ pc = "fill"
    /\ HasRoom
    /\ Spawn
    /\ UNCHANGED <<git, pc, read, channel>>

FillDone ==
    /\ pc = "fill"
    /\ ~HasRoom
    /\ pc' = "recv"
    /\ UNCHANGED <<git, asked, taken, activeWorkers, worker, read, channel, events>>

Receive ==
    /\ pc = "recv" /\ activeWorkers > 0 /\ channel # <<>>
    /\ activeWorkers' = activeWorkers - 1
    /\ channel' = Tail(channel)
    /\ events' = Append(events, Batch!Answer(Head(channel).job, Head(channel).result))
    /\ pc' = "refill"
    /\ UNCHANGED <<git, asked, taken, worker, read>>

\* Mutant: the slot is counted as used when nothing is pending any more.
RefillCountsUp ==
    /\ pc = "refill"
    /\ pc' = "recv"
    /\ \/ taken < N /\ Spawn
       \/ taken = N /\ activeWorkers' = activeWorkers + 1
          /\ UNCHANGED <<asked, taken, worker, events>>
    /\ UNCHANGED <<git, read, channel>>

\* Mutant: the next repository waits for the next round.
RefillLater ==
    /\ pc = "refill"
    /\ pc' = "recv"
    /\ \/ taken < N /\ activeWorkers = 0 /\ Spawn
       \/ (taken = N \/ activeWorkers > 0)
          /\ UNCHANGED <<asked, taken, activeWorkers, worker, events>>
    /\ UNCHANGED <<git, read, channel>>

Refill ==
    /\ pc = "refill"
    /\ pc' = "recv"
    /\ \/ taken < N /\ Spawn
       \/ taken = N /\ UNCHANGED <<asked, taken, activeWorkers, worker, events>>
    /\ UNCHANGED <<git, read, channel>>

Return ==
    /\ pc = "recv" /\ activeWorkers = 0
    /\ pc' = "returned"
    /\ UNCHANGED <<git, asked, taken, activeWorkers, worker, read, channel, events>>

\* git.read_repo_summary in the job's thread.
Read(j) ==
    /\ worker[j] = "reading" /\ j \notin Stuck
    /\ \E result \in {git[j], Failed} : read' = [read EXCEPT ![j] = result]
    /\ worker' = [worker EXCEPT ![j] = "sending"]
    /\ UNCHANGED <<git, asked, mainVars, channel>>

Send(j) ==
    /\ worker[j] = "sending"
    /\ channel' = Append(channel, [job |-> j, result |-> read[j]])
    /\ worker' = [worker EXCEPT ![j] = "gone"]
    /\ UNCHANGED <<git, asked, mainVars, read>>

\* Whoever else works in a repository.
Change(j) ==
    /\ git[j] < MaxVersion
    /\ git' = [git EXCEPT ![j] = @ + 1]
    /\ UNCHANGED <<asked, mainVars, worker, read, channel>>

Main == Fill \/ FillDone \/ Receive \/ Refill \/ Return
Worker(j) == Read(j) \/ Send(j)
PoolNext == Main \/ \E j \in PoolJobs : Worker(j) \/ Change(j)

PoolSpec == PoolInit /\ [][PoolNext]_poolVars

\* The operating system runs every thread.
PoolFairSpec ==
    PoolSpec /\ WF_poolVars(Main) /\ \A j \in PoolJobs : WF_poolVars(Worker(j))

----------------------------------------------------------------------------

\* The pool implements the batch: each job is started once and answered once,
\* in this order; never more than Limit are on their way; a summary is no
\* older than its Started event; and the effect is done only when every job
\* is answered.
ImplementsBatch == Batch!Spec

\* recv() is never called for nobody: while a worker is counted active, a
\* thread is still to send or an outcome is in the channel.  The main thread
\* keeps a sender, so otherwise it would wait for ever.
SomebodyAnswers ==
    activeWorkers > 0 => \/ channel # <<>>
                  \/ \E j \in PoolJobs : worker[j] \in {"reading", "sending"}

\* No slot is left idle while the main thread waits and a repository is pending.
PoolIsFull == pc = "recv" => taken = N \/ activeWorkers = PoolWorkerLimit

\* When every read ends, the event loop gets its thread back.
Returns == <>(pc = "returned")
====
