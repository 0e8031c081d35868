------------------------------ MODULE DnsServer ------------------------------
(***************************************************************************)
(* xDnsServer: an xAsyncRequestManager whose requests are host queries of  *)
(* the dispatcher and whose results come from an xDnsService.  Each Tick   *)
(* runs the io loop, where queries arrive, hands the finished lookups to   *)
(* the request manager, and ticks it; the lookups go on meanwhile.  The    *)
(* server's main loop never ends, so Clean is never called.                *)
(***************************************************************************)
EXTENDS AsyncRequest

CONSTANTS
    Worker,         \* threads of LocalDnsService
    Job,            \* one for each xDnsJob that is allocated
    MaxDnsJob       \* 1'0000, as many as MaxRequestNodes

ASSUME ServiceAssumption ==
    /\ MaxDnsJob \in Nat \ {0}
    /\ IsFiniteSet(Worker) /\ Worker # {}

VARIABLES
    (* LocalDnsService; see DnsService *)
    JobList, Permits, worker, holding, FinishedDnsJobList, JL, owner,
    TotalDnsJob, JobOf, Reported, Notified,
    Now             \* xDnsServer::Ticker, read at the beginning of Tick

LocalDnsService == INSTANCE DnsService WITH Host <- Key, Context <- RequestId

serviceVars == <<JobList, Permits, worker, holding, FinishedDnsJobList, JL, owner,
                 TotalDnsJob, JobOf, Reported, Notified>>
vars == <<requestVars, serviceVars, Now>>

TypeOK ==
    /\ RequestsTypeOK
    /\ LocalDnsService!TypeOK
    /\ owner \in {"idle", "awake", "dispatching"}
    /\ Now \in Ticker..MaxTime

Init ==
    /\ RequestsInit
    /\ LocalDnsService!Init
    /\ Now = StartTime

-----------------------------------------------------------------------------

(* Mutant of PostRequest: a host that is being looked up already is not posted
   once more. *)
PostRequestOnce(k, r) ==
    IF \E j \in Job : JobOf[j].host = k
      THEN owner = "idle" /\ UNCHANGED serviceVars
      ELSE \/ \E j \in Job : LocalDnsService!QueryAccepted(j, k, r)
           \/ LocalDnsService!QueryRefused

(* The result of LocalDnsService.Query is not looked at. *)
PostRequest(k, r) ==
    \/ \E j \in Job : LocalDnsService!QueryAccepted(j, k, r)
    \/ LocalDnsService!QueryRefused

(* Mutant of OnPacket: a request that is QUERYING is posted again. *)
OnPacketPostingAgain(k, s) ==
    /\ owner = "idle"
    /\ \/ \E r \in RequestId : QueryNew(k, s, r) /\ PostRequest(k, r)
       \/ QueryRefused(k, s) /\ UNCHANGED serviceVars
       \/ QueryKnown(k, s) /\ PostRequest(k, CacheNodeMap[k])
    /\ UNCHANGED Now

(* A query of the dispatcher comes in the io loop. *)
OnPacket(k, s) ==
    /\ owner = "idle"
    /\ \/ \E r \in RequestId : QueryNew(k, s, r) /\ PostRequest(k, r)
       \/ QueryRefused(k, s) /\ UNCHANGED serviceVars
       \/ QueryKnown(k, s) /\ UNCHANGED serviceVars
    /\ UNCHANGED Now

(* The io loop returns. *)
LoopEnds ==
    /\ LocalDnsService!Wake
    /\ UNCHANGED <<requestVars, Now>>

GetResults ==
    /\ LocalDnsService!GrabResults
    /\ UNCHANGED <<requestVars, Now>>

(* OnLocalDnsResult, for the next of the collected jobs. *)
OnLocalDnsResult ==
    /\ LocalDnsService!ReportResult
    /\ LET job == JobOf[Head(JL)] IN SetData(job.ctx, job.result)
    /\ UNCHANGED Now

(* xDnsRequestManager::Tick, and the clock read of the next xDnsServer::Tick. *)
TickEnds ==
    /\ LocalDnsService!DispatchEnds
    /\ RequestTick(Now)
    /\ Now' \in Now..MaxTime

ServerStep == LoopEnds \/ GetResults \/ OnLocalDnsResult \/ TickEnds

WorkerStep(w) ==
    /\ LocalDnsService!Work(w)
    /\ UNCHANGED <<requestVars, Now>>

Next ==
    \/ \E k \in Key, s \in Source : OnPacket(k, s)
    \/ ServerStep
    \/ \E w \in Worker : WorkerStep(w)

Spec == Init /\ [][Next]_vars

(* main ticks for ever, LoopOnce returns, and so does getaddrinfo. *)
FairSpec ==
    /\ Spec
    /\ WF_vars(ServerStep)
    /\ \A w \in Worker : WF_vars(WorkerStep(w))

-----------------------------------------------------------------------------

JobsFor(r) == {j \in Job : JobOf[j].ctx = r}

(* However many ask, a request is looked up once at a time, for its own key,
   and not again once the result is there.  The lookup of a request that ran
   into the timeout goes on beside that of its successor. *)
OneJobPerRequest ==
    \A r \in RequestId :
      /\ Cardinality(JobsFor(r)) <= 1
      /\ \A j \in JobsFor(r) : JobOf[j].host = CacheKey[r]
      /\ JobsFor(r) # {} => State[r] # "READY"

(* The jobs somebody has: queued, with a thread, finished, or collected. *)
InHand ==
    ToSet(JobList) \union ToSet(FinishedDnsJobList) \union ToSet(JL)
      \union UNION {holding[w] : w \in Worker}

(* A request that waits for a result nobody is going to bring. *)
Forlorn(r) ==
    /\ r \in RequestNodeManager /\ State[r] = "QUERYING"
    /\ \A j \in InHand : JobOf[j].ctx # r

(* No lookup is lost on its way through queue, threads and collection, and no
   result goes to another request than the one that waits for it, not even when
   the lookup of an earlier request for the same host is still under way: the
   only request nobody works for is one made while the service had no room. *)
NoLookupIsLost ==
    [][\A r \in RequestId :
         Forlorn(r)' => \/ Forlorn(r)
                        \/ r \notin RequestNodeManager /\ ~LocalDnsService!HasRoom]_vars

(* What OneJobPerRequest rests on: a job that is there belongs to a request that
   was made and has no data yet, and to no other job's; what the owner collects
   is the result for its host. *)
JobsBelongToRequests ==
    /\ \A j \in LocalDnsService!Alive :
         /\ JobOf[j].ctx \in RequestNodeManager \union Released
         /\ JobOf[j].host = CacheKey[JobOf[j].ctx]
         /\ State[JobOf[j].ctx] # "READY"
         /\ \A i \in LocalDnsService!Alive : JobOf[i].ctx = JobOf[j].ctx => i = j
    /\ \A j \in ToSet(FinishedDnsJobList) \union ToSet(JL) : JobOf[j].result = JobOf[j].host

(* The clock of the server is not behind that of the request manager, and the
   server never cleans up. *)
ServerIsTicking ==
    /\ owner \in {"idle", "awake", "dispatching"}
    /\ Now \in Ticker..MaxTime

ServerIInv ==
    /\ RequestsIInv
    /\ LocalDnsService!IInv
    /\ JobsBelongToRequests
    /\ ServerIsTicking

(* A lookup ends, and then nobody is left waiting for it: who asked has the
   answer, or was dropped with the request at its timeout.  It is not so for a
   request whose job was refused. *)
LookedUpIsAnswered ==
    \A r \in RequestId :
      JobsFor(r) # {} ~> JobsFor(r) = {} /\ RequestSources[r] = {}

=============================================================================
