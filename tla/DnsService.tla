----------------------------- MODULE DnsService -----------------------------
(***************************************************************************)
(* xDnsService: worker threads look hostnames up.  The owner's thread puts *)
(* jobs into a queue guarded by a semaphore (xJobQueue), workers put them  *)
(* into a list guarded by a spinlock, call the notifier, and the owner     *)
(* collects them.  Clean ends the workers: one wakeup for each of them, on *)
(* top of one for every queued job; a worker that finds no job exits.      *)
(***************************************************************************)
EXTENDS XList

CONSTANTS
    Worker,         \* the threads, 50 in the source
    Job,            \* one for each xDnsJob that is allocated
    Host,           \* hostnames, and for each what is known of it
    Context,        \* what JobCtx may hold
    MaxDnsJob,      \* 1'0000
    None

ASSUME JobAssumption ==
    /\ MaxDnsJob \in Nat \ {0}
    /\ IsFiniteSet(Worker) /\ Worker # {}
    /\ None \notin Host \union Context

VARIABLES
    JobList,            \* NewDnsJobQueue.JobList
    Permits,            \* count of NewDnsJobQueue.JobSemaphore
    worker,             \* what each thread does
    holding,            \* job of each thread, {} or a singleton
    FinishedDnsJobList,
    JL,                 \* jobs the owner has collected and not yet reported
    owner,              \* what the owner's thread does
    TotalDnsJob,
    JobOf,              \* hostname, context and result of each job
    Reported,           \* jobs whose result was given to the callback (history)
    Notified            \* the notifier was called and the owner has not run since

threadVars == <<worker, holding>>
dnsVars == <<JobList, Permits, threadVars, FinishedDnsJobList, JL, owner,
             TotalDnsJob, JobOf, Reported, Notified>>

(* xDnsJob; None in host for a job that was not allocated. *)
DnsJob == [host: Host \union {None}, ctx: Context \union {None}, result: Host \union {None}]

NoJob == [host |-> None, ctx |-> None, result |-> None]

WorkerStates == {"waiting", "looking up", "notifying", "exited"}

OwnerStates == {"idle", "awake", "dispatching", "joining", "draining", "finished"}

TypeOK ==
    /\ JobList \in Seq(Job)
    /\ Permits \in Nat
    /\ worker \in [Worker -> WorkerStates]
    /\ holding \in [Worker -> SUBSET Job]
    /\ FinishedDnsJobList \in Seq(Job)
    /\ JL \in Seq(Job)
    /\ owner \in OwnerStates
    /\ TotalDnsJob \in 0..(MaxDnsJob - 1)
    /\ JobOf \in [Job -> DnsJob]
    /\ Reported \subseteq Job
    /\ Notified \in BOOLEAN

Init ==
    /\ JobList = << >>
    /\ Permits = 0
    /\ worker = [w \in Worker |-> "waiting"]
    /\ holding = [w \in Worker |-> {}]
    /\ FinishedDnsJobList = << >>
    /\ JL = << >>
    /\ owner = "idle"
    /\ TotalDnsJob = 0
    /\ JobOf = [j \in Job |-> NoJob]
    /\ Reported = {}
    /\ Notified = FALSE

-----------------------------------------------------------------------------
(* The owner asks. *)

Unallocated(j) == JobOf[j] = NoJob /\ j \notin Reported

(* Mutant of PostJob: the node is queued, nobody is told. *)
PostJobSilently(j) ==
    /\ JobList' = GrabTail(JobList, j)
    /\ UNCHANGED Permits

(* Mutant of PostJob: the node is queued, and the semaphore notified once more
   after the lock. *)
PostJobTwice(j) ==
    /\ JobList' = GrabTail(JobList, j)
    /\ Permits' = Permits + 2

(* PostJob: the node is queued and the count raised under one lock. *)
PostJob(j) ==
    /\ JobList' = GrabTail(JobList, j)
    /\ Permits' = Permits + 1

(* Mutant of HasRoom: > for >=. *)
HasRoomForMax == TotalDnsJob + 1 <= MaxDnsJob

(* Not ++TotalDnsJob >= MaxDnsJob. *)
HasRoom == TotalDnsJob + 1 < MaxDnsJob

QueryAccepted(j, host, ctx) ==
    /\ owner = "idle"
    /\ Unallocated(j)
    /\ HasRoom
    /\ TotalDnsJob' = TotalDnsJob + 1
    /\ JobOf' = [JobOf EXCEPT ![j] = [NoJob EXCEPT !.host = host, !.ctx = ctx]]
    /\ PostJob(j)
    /\ UNCHANGED <<threadVars, FinishedDnsJobList, JL, owner, Reported, Notified>>

(* Mutant of QueryRefused: the count is not taken back. *)
QueryRefusedAndCounted ==
    /\ owner = "idle"
    /\ ~HasRoom
    /\ TotalDnsJob' = TotalDnsJob + 1
    /\ UNCHANGED <<JobList, Permits, threadVars, FinishedDnsJobList, JL, owner,
                   JobOf, Reported, Notified>>

(* NewDnsJob counts, finds too many, and takes it back: Query returns false. *)
QueryRefused ==
    /\ owner = "idle"
    /\ ~HasRoom
    /\ UNCHANGED dnsVars

-----------------------------------------------------------------------------
(* A worker. *)

(* WaitForJob returns the head of the queue. *)
TakeJob(w) ==
    /\ worker[w] = "waiting"
    /\ Permits > 0
    /\ JobList # << >>
    /\ Permits' = Permits - 1
    /\ holding' = [holding EXCEPT ![w] = {Head(JobList)}]
    /\ JobList' = Tail(JobList)
    /\ worker' = [worker EXCEPT ![w] = "looking up"]
    /\ UNCHANGED <<FinishedDnsJobList, JL, owner, TotalDnsJob, JobOf, Reported, Notified>>

(* WaitForJob returns nullptr: the thread ends. *)
Exit(w) ==
    /\ worker[w] = "waiting"
    /\ Permits > 0
    /\ JobList = << >>
    /\ Permits' = Permits - 1
    /\ worker' = [worker EXCEPT ![w] = "exited"]
    /\ UNCHANGED <<JobList, holding, FinishedDnsJobList, JL, owner, TotalDnsJob,
                   JobOf, Reported, Notified>>

(* DnsQuery returns; the job is listed as finished under the spinlock. *)
Finish(w, j) ==
    /\ worker[w] = "looking up"
    /\ j \in holding[w]
    /\ JobOf' = [JobOf EXCEPT ![j].result = JobOf[j].host]
    /\ FinishedDnsJobList' = GrabTail(FinishedDnsJobList, j)
    /\ holding' = [holding EXCEPT ![w] = {}]
    /\ worker' = [worker EXCEPT ![w] = "notifying"]
    /\ UNCHANGED <<JobList, Permits, JL, owner, TotalDnsJob, Reported, Notified>>

(* The notifier wakes the owner. *)
Notify(w) ==
    /\ worker[w] = "notifying"
    /\ Notified' = TRUE
    /\ worker' = [worker EXCEPT ![w] = "waiting"]
    /\ UNCHANGED <<JobList, Permits, holding, FinishedDnsJobList, JL, owner,
                   TotalDnsJob, JobOf, Reported>>

(* Mutant of Work: the notifier is called before the job is listed. *)
WorkNotifyingFirst(w) ==
    \/ TakeJob(w)
    \/ Exit(w)
    \/ /\ worker[w] = "looking up"
       /\ Notified' = TRUE
       /\ worker' = [worker EXCEPT ![w] = "notifying"]
       /\ UNCHANGED <<JobList, Permits, holding, FinishedDnsJobList, JL, owner,
                      TotalDnsJob, JobOf, Reported>>
    \/ /\ worker[w] = "notifying"
       /\ worker' = [worker EXCEPT ![w] = "waiting"]
       /\ FinishedDnsJobList' = FinishedDnsJobList \o SetToSeq(holding[w])
       /\ holding' = [holding EXCEPT ![w] = {}]
       /\ UNCHANGED <<JobList, Permits, JL, owner, TotalDnsJob, JobOf, Reported, Notified>>

Work(w) == TakeJob(w) \/ Exit(w) \/ (\E j \in Job : Finish(w, j)) \/ Notify(w)

-----------------------------------------------------------------------------
(* The owner collects. *)

(* The owner comes back from its io loop, woken by the notifier or not. *)
Wake ==
    /\ owner = "idle"
    /\ owner' = "awake"
    /\ Notified' = FALSE
    /\ UNCHANGED <<JobList, Permits, threadVars, FinishedDnsJobList, JL, TotalDnsJob,
                   JobOf, Reported>>

(* GetAndDispatchResult takes the whole list under the spinlock. *)
GrabResults ==
    /\ owner = "awake"
    /\ owner' = "dispatching"
    /\ JL' = FinishedDnsJobList
    /\ FinishedDnsJobList' = << >>
    /\ UNCHANGED <<JobList, Permits, threadVars, TotalDnsJob, JobOf, Reported, Notified>>

(* The callback for the next job, and DeleteDnsJob. *)
ReportResult ==
    /\ JL # << >>
    /\ JL' = Tail(JL)
    /\ Reported' = Reported \union {Head(JL)}
    /\ JobOf' = [JobOf EXCEPT ![Head(JL)] = NoJob]
    /\ TotalDnsJob' = TotalDnsJob - 1
    /\ UNCHANGED <<JobList, Permits, threadVars, FinishedDnsJobList, owner, Notified>>

DispatchEnds ==
    /\ owner = "dispatching"
    /\ JL = << >>
    /\ owner' = "idle"
    /\ UNCHANGED <<JobList, Permits, threadVars, FinishedDnsJobList, JL, TotalDnsJob,
                   JobOf, Reported, Notified>>

(* Mutant of Stop: one wakeup too few. *)
StopAllButOne ==
    /\ owner = "idle"
    /\ owner' = "joining"
    /\ Permits' = Permits + Cardinality(Worker) - 1
    /\ UNCHANGED <<JobList, threadVars, FinishedDnsJobList, JL, TotalDnsJob, JobOf,
                   Reported, Notified>>

(* Clean begins: PostWakeupN, then join. *)
Stop ==
    /\ owner = "idle"
    /\ owner' = "joining"
    /\ Permits' = Permits + Cardinality(Worker)
    /\ UNCHANGED <<JobList, threadVars, FinishedDnsJobList, JL, TotalDnsJob, JobOf,
                   Reported, Notified>>

(* Mutant of AllJoined: the first worker is enough. *)
OneJoined == \E w \in Worker : worker[w] = "exited"

AllJoined == \A w \in Worker : worker[w] = "exited"

(* The last GetAndDispatchResult of Clean, with IgnoreResult. *)
Drain ==
    /\ owner = "joining"
    /\ AllJoined
    /\ owner' = "draining"
    /\ JL' = FinishedDnsJobList
    /\ FinishedDnsJobList' = << >>
    /\ UNCHANGED <<JobList, Permits, threadVars, TotalDnsJob, JobOf, Reported, Notified>>

DrainEnds ==
    /\ owner = "draining"
    /\ JL = << >>
    /\ owner' = "finished"
    /\ UNCHANGED <<JobList, Permits, threadVars, FinishedDnsJobList, JL, TotalDnsJob,
                   JobOf, Reported, Notified>>

(* What the owner does without being asked. *)
Collect == Wake \/ GrabResults \/ ReportResult \/ DispatchEnds \/ Drain \/ DrainEnds

Next ==
    \/ \E j \in Job, host \in Host, ctx \in Context : QueryAccepted(j, host, ctx)
    \/ QueryRefused
    \/ \E w \in Worker : Work(w)
    \/ Collect
    \/ Stop

Spec == Init /\ [][Next]_dnsVars

(* getaddrinfo returns, no thread is starved, and the owner's loop goes on. *)
FairSpec ==
    /\ Spec
    /\ \A w \in Worker : WF_dnsVars(Work(w))
    /\ WF_dnsVars(Collect)

-----------------------------------------------------------------------------

Places == <<JobList, FinishedDnsJobList, JL>>

(* The jobs that were allocated and not deleted. *)
Alive == {j \in Job : JobOf[j] # NoJob}

(* The atomic counter counts the jobs, and every job is in one place: queued,
   with one worker, finished, or collected. *)
CounterIsExact ==
    /\ TotalDnsJob = Cardinality(Alive)
    /\ Alive = (UNION {ToSet(Places[i]) : i \in DOMAIN Places})
                 \union (UNION {holding[w] : w \in Worker})
    /\ TotalDnsJob = Len(JobList) + Len(FinishedDnsJobList) + Len(JL)
                        + Cardinality({w \in Worker : holding[w] # {}})

(* A worker takes nullptr for the end: the semaphore must never let one through
   to an empty queue before Clean, nor while jobs are still queued. *)
WorkersServeUntilClean ==
    \A w \in Worker :
      worker[w] = "exited" => JobList = << >> /\ owner \in {"joining", "draining", "finished"}

(* A finished job is never left lying while the owner sleeps: someone has called
   the notifier since, or is about to. *)
NoLostWakeup ==
    FinishedDnsJobList # << >> =>
      \/ Notified
      \/ owner = "awake"
      \/ \E w \in Worker : worker[w] = "notifying"

(* assert(!TotalDnsJob) at the end of Clean, whatever was queued or looked up
   when it began. *)
CleanLeavesNothing == owner = "finished" => TotalDnsJob = 0

-----------------------------------------------------------------------------
(* What the invariants above rest on. *)

(* A job is in no two places at once. *)
JobsInOnePlace ==
    /\ IsInjective(JobList) /\ IsInjective(FinishedDnsJobList) /\ IsInjective(JL)
    /\ ToSet(JobList) \intersect ToSet(FinishedDnsJobList) = {}
    /\ ToSet(JobList) \intersect ToSet(JL) = {}
    /\ ToSet(FinishedDnsJobList) \intersect ToSet(JL) = {}
    /\ \A w \in Worker :
         /\ holding[w] \intersect ToSet(JobList) = {}
         /\ holding[w] \intersect ToSet(FinishedDnsJobList) = {}
         /\ holding[w] \intersect ToSet(JL) = {}
         /\ \A v \in Worker \ {w} : holding[w] \intersect holding[v] = {}

(* A worker holds the one job it looks up. *)
HoldsWhileLookingUp ==
    \A w \in Worker :
      IF worker[w] = "looking up" THEN \E j \in Job : holding[w] = {j} ELSE holding[w] = {}

(* A job names the host it was asked for. *)
JobsNameTheirHost == \A j \in Alive : JobOf[j].host \in Host

Serving == {w \in Worker : worker[w] # "exited"}

(* Before Clean the semaphore counts the queued jobs; then there is one permit
   more for every worker that has not ended. *)
PermitsAreExact ==
    IF owner \in {"idle", "awake", "dispatching"}
      THEN Permits = Len(JobList) /\ Serving = Worker
      ELSE Permits = Len(JobList) + Cardinality(Serving)

(* The owner holds jobs only while it reports them, and no worker is left once
   it drains. *)
OwnerPhases ==
    /\ owner \in {"idle", "awake", "joining", "finished"} => JL = << >>
    /\ owner \in {"draining", "finished"} =>
         Serving = {} /\ FinishedDnsJobList = << >>

IInv ==
    /\ TypeOK
    /\ IsFiniteSet(Alive)
    /\ CounterIsExact
    /\ JobsInOnePlace
    /\ HoldsWhileLookingUp
    /\ JobsNameTheirHost
    /\ PermitsAreExact
    /\ OwnerPhases
    /\ WorkersServeUntilClean
    /\ NoLostWakeup

(* Clean does not hang in a join, and every job of the queue is reported. *)
CleanEnds == owner = "joining" ~> owner = "finished"

=============================================================================
