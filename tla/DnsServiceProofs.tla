-------------------------- MODULE DnsServiceProofs --------------------------
(***************************************************************************)
(* No job and no wakeup of xDnsService is lost, and its counter is exact,  *)
(* for every number of threads, of jobs, and every limit on the jobs.      *)
(***************************************************************************)
EXTENDS DnsService, XListTheorems, FiniteSetTheorems

(* The three lists a job can be in. *)
LEMMA PlacesUnion ==
    UNION {ToSet(Places[i]) : i \in DOMAIN Places}
      = ToSet(JobList) \union ToSet(FinishedDnsJobList) \union ToSet(JL)
  <1>1. /\ DOMAIN Places = 1..3
        /\ Places[1] = JobList /\ Places[2] = FinishedDnsJobList /\ Places[3] = JL
    BY DEF Places
  <1> QED
    BY <1>1

Held == UNION {holding[w] : w \in Worker}

Busy == {w \in Worker : holding[w] # {}}

(* The counter by its three parts, without the tuple of the places. *)
LEMMA CounterParts ==
    CounterIsExact <=>
      /\ TotalDnsJob = Cardinality(Alive)
      /\ Alive = ToSet(JobList) \union ToSet(FinishedDnsJobList) \union ToSet(JL)
                   \union Held
      /\ TotalDnsJob = Len(JobList) + Len(FinishedDnsJobList) + Len(JL)
                         + Cardinality(Busy)
  BY PlacesUnion DEF CounterIsExact, Held, Busy

(* The same of the next state. *)
LEMMA CounterPartsNext ==
    CounterIsExact' <=>
      /\ TotalDnsJob' = Cardinality(Alive')
      /\ Alive' = ToSet(JobList') \union ToSet(FinishedDnsJobList') \union ToSet(JL')
                   \union Held'
      /\ TotalDnsJob' = Len(JobList') + Len(FinishedDnsJobList') + Len(JL')
                         + Cardinality(Busy')
  <1>1. UNION {ToSet(Places[i])' : i \in DOMAIN Places'}
          = ToSet(JobList') \union ToSet(FinishedDnsJobList') \union ToSet(JL')
    <2>1. /\ DOMAIN Places' = 1..3
          /\ Places'[1] = JobList' /\ Places'[2] = FinishedDnsJobList'
          /\ Places'[3] = JL'
      BY DEF Places
    <2> QED
      BY <2>1
  <1> QED
    BY <1>1 DEF CounterIsExact, Held, Busy

(* Threads are finitely many, so are those of any kind. *)
LEMMA SomeWorkers ==
    ASSUME NEW T \in SUBSET Worker
    PROVE  IsFiniteSet(T) /\ Cardinality(T) \in Nat
  BY JobAssumption, FS_Subset, FS_CardinalityType

(* A step that neither adds, moves nor ends a job. *)
LEMMA JobsUntouched ==
    ASSUME IInv, UNCHANGED <<JobList, holding, FinishedDnsJobList, JL, TotalDnsJob, JobOf>>
    PROVE  /\ IsFiniteSet(Alive)' /\ CounterIsExact'
           /\ JobsInOnePlace' /\ JobsNameTheirHost'
  <1>1. Alive' = Alive
    BY DEF Alive
  <1>2. CounterIsExact'
    BY <1>1 DEF IInv, CounterIsExact, Places
  <1>3. JobsInOnePlace' /\ JobsNameTheirHost'
    BY <1>1 DEF IInv, JobsInOnePlace, JobsNameTheirHost
  <1> QED
    BY <1>1, <1>2, <1>3 DEF IInv

(* GetAndDispatchResult takes the list of the finished jobs over. *)
LEMMA JobsCollected ==
    ASSUME IInv, JL = << >>, JL' = FinishedDnsJobList, FinishedDnsJobList' = << >>,
           UNCHANGED <<JobList, holding, TotalDnsJob, JobOf>>
    PROVE  /\ IsFiniteSet(Alive)' /\ CounterIsExact'
           /\ JobsInOnePlace' /\ JobsNameTheirHost'
           /\ JL' \in Seq(Job) /\ FinishedDnsJobList' \in Seq(Job)
  <1>1. /\ TypeOK /\ IsFiniteSet(Alive) /\ CounterIsExact /\ JobsInOnePlace
        /\ JobsNameTheirHost
    BY DEF IInv
  <1>2. Alive' = Alive
    BY DEF Alive
  <1>3. ToSet(<< >>) = {} /\ IsInjective(<< >>) /\ << >> \in Seq(Job) /\ Len(<< >>) = 0
    BY DEF ToSet, IsInjective
  <1>4. /\ ToSet(JobList') = ToSet(JobList) /\ ToSet(JL') = ToSet(FinishedDnsJobList)
        /\ ToSet(FinishedDnsJobList') = {} /\ ToSet(JL) = {}
    BY <1>3
  <1>5. CounterIsExact'
    <2>1. Busy' = Busy /\ Held' = Held
      BY DEF Busy, Held
    <2>2. Alive' = ToSet(JobList') \union ToSet(FinishedDnsJobList') \union ToSet(JL')
                   \union Held'
      BY <1>1, <1>2, <1>4, <2>1, CounterParts
    <2>3. /\ Len(JobList) \in Nat /\ Len(FinishedDnsJobList) \in Nat
          /\ Cardinality(Busy) \in Nat
      BY <1>1, SomeWorkers DEF TypeOK, Busy
    <2>4. /\ Len(JobList') = Len(JobList) /\ Len(FinishedDnsJobList') = 0
          /\ Len(JL') = Len(FinishedDnsJobList) /\ Len(JL) = 0
      BY <1>3
    <2>5. TotalDnsJob = Len(JobList) + Len(FinishedDnsJobList) + Len(JL)
                          + Cardinality(Busy)
      BY <1>1, CounterParts
    <2>6. TotalDnsJob' = Len(JobList') + Len(FinishedDnsJobList') + Len(JL')
                           + Cardinality(Busy')
      BY <2>1, <2>3, <2>4, <2>5
    <2>7. TotalDnsJob' = Cardinality(Alive')
      BY <1>1, <1>2, CounterParts
    <2> QED
      BY <2>2, <2>6, <2>7, CounterPartsNext
  <1>6. JobsInOnePlace'
    <2>1. /\ IsInjective(JobList') /\ IsInjective(FinishedDnsJobList') /\ IsInjective(JL')
          /\ holding' = holding
      BY <1>1, <1>3 DEF JobsInOnePlace
    <2> QED
      BY <1>1, <1>4, <2>1 DEF JobsInOnePlace
  <1>7. JobsNameTheirHost'
    BY <1>1, <1>2 DEF JobsNameTheirHost
  <1>8. JL' \in Seq(Job) /\ FinishedDnsJobList' \in Seq(Job)
    BY <1>1, <1>3 DEF TypeOK
  <1> QED
    BY <1>1, <1>2, <1>5, <1>6, <1>7, <1>8

(* The service starts without jobs, its threads waiting. *)
LEMMA InitIInv == Init => IInv
  <1> SUFFICES ASSUME Init PROVE IInv
    OBVIOUS
  <1>1. Alive = {}
    BY DEF Init, Alive
  <1>2. Busy = {} /\ Held = {}
    BY DEF Init, Busy, Held
  <1>3. TypeOK
    <2>1. JobOf \in [Job -> DnsJob]
      BY DEF Init, DnsJob, NoJob
    <2>2. /\ worker \in [Worker -> WorkerStates]
          /\ holding \in [Worker -> SUBSET Job]
          /\ owner \in OwnerStates
      BY DEF Init, WorkerStates, OwnerStates
    <2>3. /\ JobList \in Seq(Job) /\ FinishedDnsJobList \in Seq(Job) /\ JL \in Seq(Job)
      BY DEF Init
    <2>4. Permits \in Nat /\ TotalDnsJob \in 0..(MaxDnsJob - 1)
      BY JobAssumption DEF Init
    <2> QED
      BY <2>1, <2>2, <2>3, <2>4 DEF Init, TypeOK
  <1>4. IsFiniteSet(Alive)
    BY <1>1, FS_EmptySet
  <1>5. CounterIsExact
    <2>1. ToSet(JobList) = {} /\ ToSet(FinishedDnsJobList) = {} /\ ToSet(JL) = {}
      BY DEF Init, ToSet
    <2>2. Cardinality({}) = 0
      BY FS_EmptySet
    <2>3. /\ TotalDnsJob = 0
          /\ Len(JobList) = 0 /\ Len(FinishedDnsJobList) = 0 /\ Len(JL) = 0
      BY DEF Init
    <2>4. Cardinality(Busy) = 0
      BY <1>2, <2>2
    <2>5. Alive = ToSet(JobList) \union ToSet(FinishedDnsJobList) \union ToSet(JL)
                    \union Held
      BY <1>1, <1>2, <2>1
    <2>6. TotalDnsJob = Cardinality(Alive)
      BY <1>1, <2>2, <2>3
    <2> QED
      BY <2>3, <2>4, <2>5, <2>6, CounterParts
  <1>6. JobsInOnePlace
    BY DEF Init, JobsInOnePlace, IsInjective, ToSet
  <1>7. HoldsWhileLookingUp /\ JobsNameTheirHost
    BY <1>1 DEF Init, HoldsWhileLookingUp, JobsNameTheirHost
  <1>8. PermitsAreExact /\ OwnerPhases
    BY DEF Init, PermitsAreExact, OwnerPhases, Serving
  <1>9. WorkersServeUntilClean /\ NoLostWakeup
    BY DEF Init, WorkersServeUntilClean, NoLostWakeup
  <1> QED
    BY <1>3, <1>4, <1>5, <1>6, <1>7, <1>8, <1>9 DEF IInv

-----------------------------------------------------------------------------
(* The owner asks. *)

(* Query puts a new job into the queue with one permit, and counts it. *)
LEMMA QueryAcceptedIInv ==
    ASSUME IInv, NEW j \in Job, NEW host \in Host, NEW ctx \in Context,
           QueryAccepted(j, host, ctx)
    PROVE  IInv'
  <1>0. /\ TypeOK /\ IsFiniteSet(Alive) /\ CounterIsExact /\ JobsInOnePlace
        /\ HoldsWhileLookingUp /\ JobsNameTheirHost /\ PermitsAreExact /\ OwnerPhases
        /\ WorkersServeUntilClean /\ NoLostWakeup
    BY DEF IInv
  <1>1. /\ owner = "idle" /\ JobOf[j] = NoJob /\ HasRoom
        /\ TotalDnsJob' = TotalDnsJob + 1
        /\ JobOf' = [JobOf EXCEPT ![j] = [NoJob EXCEPT !.host = host, !.ctx = ctx]]
        /\ JobList' = GrabTail(JobList, j)
        /\ Permits' = Permits + 1
        /\ UNCHANGED <<worker, holding, FinishedDnsJobList, JL, owner, Reported, Notified>>
    BY DEF QueryAccepted, Unallocated, PostJob, threadVars
  <1>2. /\ j \notin Alive
        /\ j \notin ToSet(JobList) /\ j \notin ToSet(FinishedDnsJobList)
        /\ j \notin ToSet(JL)
        /\ \A w \in Worker : j \notin holding[w]
    BY <1>0, <1>1, CounterParts DEF Alive, Held
  <1>3. /\ JobList' \in Seq(Job) /\ IsInjective(JobList')
        /\ ToSet(JobList') = ToSet(JobList) \union {j}
        /\ Len(JobList') = Len(JobList) + 1
    BY <1>0, <1>1, <1>2, GrabTailProperties, GrabNewProperties DEF TypeOK, JobsInOnePlace
  <1>4. /\ Alive' = Alive \union {j}
        /\ JobOf' \in [Job -> DnsJob]
    <2>1. [NoJob EXCEPT !.host = host, !.ctx = ctx] \in DnsJob \ {NoJob}
      BY JobAssumption DEF NoJob, DnsJob
    <2> QED
      BY <1>0, <1>1, <2>1 DEF Alive, TypeOK
  <1>11. JobsNameTheirHost'
    BY <1>0, <1>1, <1>4 DEF JobsNameTheirHost, TypeOK, NoJob
  <1>5. IsFiniteSet(Alive') /\ Cardinality(Alive') = Cardinality(Alive) + 1
    BY <1>0, <1>2, <1>4, FS_AddElement
  <1>6. TypeOK'
    BY <1>0, <1>1, <1>3, <1>4, JobAssumption DEF TypeOK, HasRoom
  <1>7. CounterIsExact'
    <2>1. Busy' = Busy /\ Held' = Held
      BY <1>1 DEF Busy, Held
    <2>2. Cardinality(Busy) \in Nat
      BY SomeWorkers DEF Busy
    <2>3. /\ Len(JobList) \in Nat /\ Len(FinishedDnsJobList) \in Nat /\ Len(JL) \in Nat
      BY <1>0 DEF TypeOK
    <2>4. TotalDnsJob' = Len(JobList') + Len(FinishedDnsJobList') + Len(JL')
                           + Cardinality(Busy')
      BY <1>0, <1>1, <1>3, <2>1, <2>2, <2>3, CounterParts
    <2>5. Alive' = ToSet(JobList') \union ToSet(FinishedDnsJobList') \union ToSet(JL')
                   \union Held'
      BY <1>0, <1>1, <1>3, <1>4, <2>1, CounterParts
    <2>6. TotalDnsJob' = Cardinality(Alive')
      BY <1>0, <1>1, <1>5, CounterParts
    <2> QED
      BY <2>4, <2>5, <2>6, CounterPartsNext
  <1>8. JobsInOnePlace'
    BY <1>0, <1>1, <1>2, <1>3 DEF JobsInOnePlace
  <1>9. HoldsWhileLookingUp' /\ OwnerPhases' /\ NoLostWakeup'
    BY <1>0, <1>1 DEF HoldsWhileLookingUp, OwnerPhases, NoLostWakeup, Serving
  <1>10. PermitsAreExact' /\ WorkersServeUntilClean'
    <2>1. Len(JobList) \in Nat /\ Permits \in Nat
      BY <1>0 DEF TypeOK
    <2> QED
      BY <1>0, <1>1, <1>3, <2>1 DEF PermitsAreExact, WorkersServeUntilClean, Serving
  <1> QED
    BY <1>5, <1>6, <1>7, <1>8, <1>9, <1>10, <1>11 DEF IInv

-----------------------------------------------------------------------------
(* A worker. *)

(* A worker takes the head of the queue for its own, with a permit. *)
LEMMA TakeJobIInv ==
    ASSUME IInv, NEW w \in Worker, TakeJob(w)
    PROVE  IInv'
  <1>0. /\ TypeOK /\ IsFiniteSet(Alive) /\ CounterIsExact /\ JobsInOnePlace
        /\ HoldsWhileLookingUp /\ JobsNameTheirHost /\ PermitsAreExact /\ OwnerPhases
        /\ WorkersServeUntilClean /\ NoLostWakeup
    BY DEF IInv
  <1>1. /\ worker[w] = "waiting"
        /\ worker' = [worker EXCEPT ![w] = "looking up"]
        /\ UNCHANGED <<FinishedDnsJobList, JL, owner, TotalDnsJob, JobOf, Reported, Notified>>
    BY DEF TakeJob
  <1>2. PICK j \in Job :
          /\ holding' = [holding EXCEPT ![w] = {j}]
          /\ j \in ToSet(JobList)
          /\ JobList' \in Seq(Job) /\ IsInjective(JobList')
          /\ ToSet(JobList') = ToSet(JobList) \ {j}
          /\ Len(JobList') = Len(JobList) - 1
    <2>1. JobList \in Seq(Job) /\ IsInjective(JobList) /\ JobList # << >>
      BY <1>0 DEF TypeOK, JobsInOnePlace, TakeJob
    <2>2. Head(JobList) \in Job /\ holding' = [holding EXCEPT ![w] = {Head(JobList)}]
      BY <2>1, HeadTailOfInjective DEF TakeJob
    <2> QED
      BY <2>1, <2>2, HeadTailOfInjective DEF TakeJob
  <1>3. /\ holding[w] = {} /\ holding'[w] = {j}
        /\ \A v \in Worker \ {w} : holding'[v] = holding[v] /\ worker'[v] = worker[v]
        /\ worker'[w] = "looking up"
        /\ holding' \in [Worker -> SUBSET Job] /\ worker' \in [Worker -> WorkerStates]
    BY <1>0, <1>1, <1>2 DEF HoldsWhileLookingUp, TypeOK, WorkerStates
  <1>4. /\ Len(JobList) \in Nat /\ Len(FinishedDnsJobList) \in Nat /\ Len(JL) \in Nat
        /\ Permits \in Nat /\ Permits' \in Nat /\ Permits' = Permits - 1
    <2>1. Permits \in Nat /\ Permits > 0 /\ Permits' = Permits - 1
      BY <1>0 DEF TypeOK, TakeJob
    <2>2. JobList \in Seq(Job) /\ FinishedDnsJobList \in Seq(Job) /\ JL \in Seq(Job)
      BY <1>0 DEF TypeOK
    <2> QED
      BY <2>1, <2>2
  <1>5. TypeOK'
    BY <1>0, <1>1, <1>2, <1>3, <1>4 DEF TypeOK
  <1>6. Alive' = Alive
    BY <1>1 DEF Alive
  <1>7. CounterIsExact'
    <2>1. Busy' = Busy \union {w} /\ w \notin Busy
      BY <1>3 DEF Busy
    <2>2. IsFiniteSet(Busy) /\ Cardinality(Busy) \in Nat
      BY SomeWorkers DEF Busy
    <2>3. Cardinality(Busy') = Cardinality(Busy) + 1
      BY <2>1, <2>2, FS_AddElement
    <2>4. TotalDnsJob' = Len(JobList') + Len(FinishedDnsJobList') + Len(JL')
                           + Cardinality(Busy')
      <3>1. TotalDnsJob = Len(JobList) + Len(FinishedDnsJobList) + Len(JL)
                            + Cardinality(Busy)
        BY <1>0, CounterParts
      <3>2. /\ TotalDnsJob' = TotalDnsJob /\ Len(JobList') = Len(JobList) - 1
            /\ Len(FinishedDnsJobList') = Len(FinishedDnsJobList) /\ Len(JL') = Len(JL)
        BY <1>1, <1>2
      <3> QED
        BY <1>4, <2>2, <2>3, <3>1, <3>2
    <2>5. Held' = Held \union {j}
      BY <1>3 DEF Held
    <2>6. Alive' = ToSet(JobList') \union ToSet(FinishedDnsJobList') \union ToSet(JL')
                   \union Held'
      BY <1>0, <1>1, <1>2, <1>6, <2>5, CounterParts
    <2>7. TotalDnsJob' = Cardinality(Alive')
      BY <1>0, <1>1, <1>6, CounterParts
    <2> QED
      BY <2>4, <2>6, <2>7, CounterPartsNext
  <1>8. JobsInOnePlace'
    <2>1. /\ j \in ToSet(JobList) /\ ToSet(JobList') = ToSet(JobList) \ {j}
          /\ ToSet(FinishedDnsJobList') = ToSet(FinishedDnsJobList) /\ ToSet(JL') = ToSet(JL)
          /\ IsInjective(JobList')
          /\ IsInjective(FinishedDnsJobList') /\ IsInjective(JL')
      BY <1>0, <1>1, <1>2 DEF JobsInOnePlace
    <2>2. \A v \in Worker :
            holding'[v] = IF v = w THEN {j} ELSE holding[v]
      BY <1>3
    <2> QED
      BY <1>0, <2>1, <2>2 DEF JobsInOnePlace
  <1>9. HoldsWhileLookingUp' /\ JobsNameTheirHost'
    BY <1>0, <1>1, <1>2, <1>3, <1>6 DEF HoldsWhileLookingUp, JobsNameTheirHost
  <1>10. PermitsAreExact' /\ OwnerPhases' /\ WorkersServeUntilClean'
    <2>1. Serving' = Serving
      BY <1>1, <1>3 DEF Serving
    <2>2. Cardinality(Serving) \in Nat
      BY SomeWorkers DEF Serving
    <2>3. PermitsAreExact'
      <3>1. owner' = owner /\ Len(JobList') = Len(JobList) - 1
        BY <1>1, <1>2
      <3> QED
        BY <1>0, <1>4, <2>1, <2>2, <3>1 DEF PermitsAreExact
    <2>4. \A v \in Worker : worker[v] # "exited"
      BY <1>0 DEF WorkersServeUntilClean, TakeJob
    <2>5. WorkersServeUntilClean'
      BY <1>1, <1>3, <2>4 DEF WorkersServeUntilClean
    <2>6. OwnerPhases'
      BY <1>0, <1>1, <2>1 DEF OwnerPhases
    <2> QED
      BY <2>3, <2>5, <2>6
  <1>11. NoLostWakeup'
    BY <1>0, <1>1, <1>3 DEF NoLostWakeup
  <1> QED
    BY <1>0, <1>5, <1>6, <1>7, <1>8, <1>9, <1>10, <1>11 DEF IInv

(* A worker that finds the queue empty ends; that is only after Clean has
   begun. *)
LEMMA ExitIInv ==
    ASSUME IInv, NEW w \in Worker, Exit(w)
    PROVE  IInv'
  <1>0. /\ TypeOK /\ IsFiniteSet(Alive) /\ CounterIsExact /\ JobsInOnePlace
        /\ HoldsWhileLookingUp /\ JobsNameTheirHost /\ PermitsAreExact /\ OwnerPhases
        /\ WorkersServeUntilClean /\ NoLostWakeup
    BY DEF IInv
  <1>1. /\ worker[w] = "waiting" /\ Permits > 0 /\ JobList = << >>
        /\ Permits' = Permits - 1
        /\ worker' = [worker EXCEPT ![w] = "exited"]
        /\ UNCHANGED <<JobList, holding, FinishedDnsJobList, JL, owner, TotalDnsJob,
                       JobOf, Reported, Notified>>
    BY DEF Exit
  <1>2. /\ \A v \in Worker \ {w} : worker'[v] = worker[v]
        /\ worker'[w] = "exited"
        /\ worker' \in [Worker -> WorkerStates]
    BY <1>0, <1>1 DEF TypeOK, WorkerStates
  <1>3. owner \in {"joining", "draining", "finished"}
    <2>1. Len(JobList) = 0
      BY <1>1
    <2> QED
      BY <1>0, <1>1, <2>1 DEF PermitsAreExact, TypeOK, OwnerStates
  <1>4. TypeOK'
    BY <1>0, <1>1, <1>2 DEF TypeOK
  <1>5. /\ IsFiniteSet(Alive)' /\ CounterIsExact'
        /\ JobsInOnePlace' /\ JobsNameTheirHost'
    BY <1>1, JobsUntouched
  <1>6. HoldsWhileLookingUp'
    BY <1>0, <1>1, <1>2 DEF HoldsWhileLookingUp
  <1>7. Serving' = Serving \ {w} /\ w \in Serving
    BY <1>1, <1>2 DEF Serving
  <1>8. PermitsAreExact'
    <2>1. IsFiniteSet(Serving) /\ Cardinality(Serving) \in Nat
      BY SomeWorkers DEF Serving
    <2>2. Cardinality(Serving') = Cardinality(Serving) - 1
      BY <1>7, <2>1, FS_RemoveElement
    <2>3. Len(JobList) = 0 /\ Permits \in Nat
      BY <1>0, <1>1 DEF TypeOK
    <2> QED
      BY <1>0, <1>1, <1>3, <2>1, <2>2, <2>3 DEF PermitsAreExact
  <1>9. OwnerPhases'
    BY <1>0, <1>1, <1>7 DEF OwnerPhases
  <1>10. WorkersServeUntilClean'
    BY <1>0, <1>1, <1>2, <1>3 DEF WorkersServeUntilClean
  <1>11. NoLostWakeup'
    BY <1>0, <1>1, <1>2 DEF NoLostWakeup
  <1> QED
    BY <1>0, <1>4, <1>5, <1>6, <1>8, <1>9, <1>10, <1>11 DEF IInv

(* A worker hands its job to the finished list. *)
LEMMA FinishIInv ==
    ASSUME IInv, NEW w \in Worker, NEW j \in Job, Finish(w, j)
    PROVE  IInv'
  <1>0. /\ TypeOK /\ IsFiniteSet(Alive) /\ CounterIsExact /\ JobsInOnePlace
        /\ HoldsWhileLookingUp /\ JobsNameTheirHost /\ PermitsAreExact /\ OwnerPhases
        /\ WorkersServeUntilClean /\ NoLostWakeup
    BY DEF IInv
  <1>1. /\ worker[w] = "looking up" /\ holding[w] = {j}
        /\ JobOf' = [JobOf EXCEPT ![j].result = JobOf[j].host]
        /\ holding' = [holding EXCEPT ![w] = {}]
        /\ worker' = [worker EXCEPT ![w] = "notifying"]
        /\ UNCHANGED <<JobList, Permits, JL, owner, TotalDnsJob, Reported, Notified>>
    BY <1>0 DEF Finish, HoldsWhileLookingUp
  <1>2. j \in Alive /\ j \notin ToSet(JobList) /\ j \notin ToSet(JL)
    BY <1>0, <1>1, CounterParts DEF Held, JobsInOnePlace
  <1>3. /\ FinishedDnsJobList' \in Seq(Job) /\ IsInjective(FinishedDnsJobList')
        /\ ToSet(FinishedDnsJobList') = ToSet(FinishedDnsJobList) \union {j}
        /\ Len(FinishedDnsJobList') = Len(FinishedDnsJobList) + 1
    <2>1. /\ FinishedDnsJobList \in Seq(Job) /\ IsInjective(FinishedDnsJobList)
          /\ j \notin ToSet(FinishedDnsJobList)
      BY <1>0, <1>1 DEF TypeOK, JobsInOnePlace
    <2>2. FinishedDnsJobList' = GrabTail(FinishedDnsJobList, j)
      BY DEF Finish
    <2> QED
      BY <2>1, <2>2, GrabTailProperties, GrabNewProperties
  <1>4. /\ \A v \in Worker : holding'[v] = IF v = w THEN {} ELSE holding[v]
        /\ \A v \in Worker \ {w} : worker'[v] = worker[v]
        /\ worker'[w] = "notifying"
        /\ holding' \in [Worker -> SUBSET Job] /\ worker' \in [Worker -> WorkerStates]
    BY <1>0, <1>1 DEF TypeOK, WorkerStates
  <1>5. /\ JobOf' \in [Job -> DnsJob]
        /\ \A i \in Job \ {j} : JobOf'[i] = JobOf[i]
        /\ JobOf'[j].host = JobOf[j].host /\ JobOf[j].host \in Host
    <2>1. JobOf \in [Job -> DnsJob] /\ JobOf[j].host \in Host
      BY <1>0, <1>2 DEF TypeOK, JobsNameTheirHost
    <2> QED
      BY <1>1, <2>1 DEF DnsJob
  <1>6. Alive' = Alive
    <2>1. JobOf[j] # NoJob /\ JobOf'[j] # NoJob
      BY <1>5, JobAssumption DEF NoJob
    <2> QED
      BY <1>5, <2>1 DEF Alive
  <1>7. TypeOK'
    BY <1>0, <1>1, <1>3, <1>4, <1>5 DEF TypeOK
  <1>8. CounterIsExact'
    <2>1. Busy' = Busy \ {w} /\ w \in Busy
      BY <1>1, <1>4 DEF Busy
    <2>2. IsFiniteSet(Busy) /\ Cardinality(Busy) \in Nat
      BY SomeWorkers DEF Busy
    <2>3. Cardinality(Busy') = Cardinality(Busy) - 1
      BY <2>1, <2>2, FS_RemoveElement
    <2>4. TotalDnsJob' = Len(JobList') + Len(FinishedDnsJobList') + Len(JL')
                           + Cardinality(Busy')
      <3>1. TotalDnsJob = Len(JobList) + Len(FinishedDnsJobList) + Len(JL)
                            + Cardinality(Busy)
        BY <1>0, CounterParts
      <3>2. /\ Len(JobList) \in Nat /\ Len(FinishedDnsJobList) \in Nat /\ Len(JL) \in Nat
        BY <1>0 DEF TypeOK
      <3>3. /\ TotalDnsJob' = TotalDnsJob
            /\ Len(FinishedDnsJobList') = Len(FinishedDnsJobList) + 1
            /\ Len(JobList') = Len(JobList) /\ Len(JL') = Len(JL)
        BY <1>1, <1>3
      <3> QED
        BY <2>2, <2>3, <3>1, <3>2, <3>3
    <2>5. Held' \union {j} = Held
      <3>1. \A v \in Worker : holding'[v] \subseteq Held
        BY <1>4 DEF Held
      <3>2. \A v \in Worker : holding[v] \subseteq Held' \union {j}
        BY <1>1, <1>4 DEF Held
      <3>3. j \in Held
        BY <1>1 DEF Held
      <3>4. Held' \subseteq Held
        BY <3>1 DEF Held
      <3>5. Held \subseteq Held' \union {j}
        BY <3>2 DEF Held
      <3> QED
        BY <3>3, <3>4, <3>5
    <2>6. Alive' = ToSet(JobList') \union ToSet(FinishedDnsJobList') \union ToSet(JL')
                   \union Held'
      <3>1. /\ ToSet(FinishedDnsJobList') = ToSet(FinishedDnsJobList) \union {j}
            /\ ToSet(JobList') = ToSet(JobList) /\ ToSet(JL') = ToSet(JL)
        BY <1>1, <1>3
      <3> QED
        BY <1>0, <1>6, <2>5, <3>1, CounterParts
    <2>7. TotalDnsJob' = Cardinality(Alive')
      BY <1>0, <1>1, <1>6, CounterParts
    <2> QED
      BY <2>4, <2>6, <2>7, CounterPartsNext
  <1>9. JobsInOnePlace'
    <2>1. /\ ToSet(FinishedDnsJobList') = ToSet(FinishedDnsJobList) \union {j}
          /\ ToSet(JobList') = ToSet(JobList) /\ ToSet(JL') = ToSet(JL)
          /\ IsInjective(JobList')
          /\ IsInjective(FinishedDnsJobList') /\ IsInjective(JL')
      BY <1>0, <1>1, <1>3 DEF JobsInOnePlace
    <2>2. \A v \in Worker \ {w} : j \notin holding[v]
      BY <1>0, <1>1 DEF JobsInOnePlace
    <2>3. \A v \in Worker :
            /\ holding'[v] \subseteq holding[v] /\ j \notin holding'[v]
            /\ holding'[v] \intersect ToSet(FinishedDnsJobList) = {}
      BY <1>0, <1>4, <2>2 DEF JobsInOnePlace
    <2>4. \A v \in Worker :
            /\ holding'[v] \intersect ToSet(JobList') = {}
            /\ holding'[v] \intersect ToSet(FinishedDnsJobList') = {}
            /\ holding'[v] \intersect ToSet(JL') = {}
      BY <1>0, <2>1, <2>3 DEF JobsInOnePlace
    <2>5. \A u \in Worker : \A v \in Worker \ {u} : holding'[u] \intersect holding'[v] = {}
      BY <1>0, <2>3 DEF JobsInOnePlace
    <2>6. /\ ToSet(JobList') \intersect ToSet(FinishedDnsJobList') = {}
          /\ ToSet(JobList') \intersect ToSet(JL') = {}
          /\ ToSet(FinishedDnsJobList') \intersect ToSet(JL') = {}
      BY <1>0, <1>2, <2>1 DEF JobsInOnePlace
    <2> QED
      BY <2>1, <2>4, <2>5, <2>6 DEF JobsInOnePlace
  <1>10. HoldsWhileLookingUp' /\ JobsNameTheirHost'
    <2>1. \A i \in Alive' : JobOf'[i].host \in Host
      BY <1>0, <1>5, <1>6 DEF JobsNameTheirHost, Alive
    <2> QED
      BY <1>0, <1>4, <2>1 DEF HoldsWhileLookingUp, JobsNameTheirHost
  <1>11. PermitsAreExact' /\ OwnerPhases' /\ WorkersServeUntilClean'
    <2>1. Serving' = Serving /\ w \in Serving
      BY <1>1, <1>4 DEF Serving
    <2>2. PermitsAreExact' /\ OwnerPhases'
      BY <1>0, <1>1, <2>1 DEF PermitsAreExact, OwnerPhases
    <2>3. WorkersServeUntilClean'
      BY <1>0, <1>1, <1>4 DEF WorkersServeUntilClean
    <2> QED
      BY <2>2, <2>3
  <1>12. NoLostWakeup'
    BY <1>4 DEF NoLostWakeup
  <1> QED
    BY <1>0, <1>6, <1>7, <1>8, <1>9, <1>10, <1>11, <1>12 DEF IInv

(* A worker notifies the owner and waits again. *)
LEMMA NotifyIInv ==
    ASSUME IInv, NEW w \in Worker, Notify(w)
    PROVE  IInv'
  <1>0. /\ TypeOK /\ IsFiniteSet(Alive) /\ CounterIsExact /\ JobsInOnePlace
        /\ HoldsWhileLookingUp /\ JobsNameTheirHost /\ PermitsAreExact /\ OwnerPhases
        /\ WorkersServeUntilClean /\ NoLostWakeup
    BY DEF IInv
  <1>1. /\ worker[w] = "notifying"
        /\ Notified' = TRUE
        /\ worker' = [worker EXCEPT ![w] = "waiting"]
        /\ UNCHANGED <<JobList, Permits, holding, FinishedDnsJobList, JL, owner,
                       TotalDnsJob, JobOf, Reported>>
    BY DEF Notify
  <1>2. /\ \A v \in Worker \ {w} : worker'[v] = worker[v]
        /\ worker'[w] = "waiting"
        /\ worker' \in [Worker -> WorkerStates]
    BY <1>0, <1>1 DEF TypeOK, WorkerStates
  <1>3. TypeOK'
    BY <1>0, <1>1, <1>2 DEF TypeOK
  <1>4. /\ IsFiniteSet(Alive)' /\ CounterIsExact'
        /\ JobsInOnePlace' /\ JobsNameTheirHost'
    BY <1>1, JobsUntouched
  <1>5. HoldsWhileLookingUp'
    BY <1>0, <1>1, <1>2 DEF HoldsWhileLookingUp
  <1>6. Serving' = Serving
    BY <1>1, <1>2 DEF Serving
  <1>7. PermitsAreExact' /\ OwnerPhases'
    BY <1>0, <1>1, <1>6 DEF PermitsAreExact, OwnerPhases
  <1>8. WorkersServeUntilClean' /\ NoLostWakeup'
    BY <1>0, <1>1, <1>2 DEF WorkersServeUntilClean, NoLostWakeup
  <1> QED
    BY <1>3, <1>4, <1>5, <1>7, <1>8 DEF IInv

-----------------------------------------------------------------------------
(* The owner collects. *)

(* The owner wakes and uses the notification up. *)
LEMMA WakeIInv ==
    ASSUME IInv, Wake
    PROVE  IInv'
  <1>0. /\ TypeOK /\ IsFiniteSet(Alive) /\ CounterIsExact /\ JobsInOnePlace
        /\ HoldsWhileLookingUp /\ JobsNameTheirHost /\ PermitsAreExact /\ OwnerPhases
        /\ WorkersServeUntilClean /\ NoLostWakeup
    BY DEF IInv
  <1>1. /\ owner = "idle" /\ owner' = "awake" /\ Notified' = FALSE
        /\ UNCHANGED <<JobList, Permits, worker, holding, FinishedDnsJobList, JL,
                       TotalDnsJob, JobOf, Reported>>
    BY DEF Wake, threadVars
  <1>2. TypeOK'
    BY <1>0, <1>1 DEF TypeOK, OwnerStates
  <1>3. /\ IsFiniteSet(Alive)' /\ CounterIsExact'
        /\ JobsInOnePlace' /\ JobsNameTheirHost'
    BY <1>1, JobsUntouched
  <1>4. HoldsWhileLookingUp' /\ PermitsAreExact' /\ OwnerPhases'
    BY <1>0, <1>1 DEF HoldsWhileLookingUp, PermitsAreExact, OwnerPhases, Serving
  <1>5. WorkersServeUntilClean' /\ NoLostWakeup'
    BY <1>0, <1>1 DEF WorkersServeUntilClean, NoLostWakeup
  <1> QED
    BY <1>2, <1>3, <1>4, <1>5 DEF IInv

(* The owner takes the finished list over as a whole. *)
LEMMA GrabResultsIInv ==
    ASSUME IInv, GrabResults
    PROVE  IInv'
  <1>0. /\ TypeOK /\ IsFiniteSet(Alive) /\ CounterIsExact /\ JobsInOnePlace
        /\ HoldsWhileLookingUp /\ JobsNameTheirHost /\ PermitsAreExact /\ OwnerPhases
        /\ WorkersServeUntilClean /\ NoLostWakeup
    BY DEF IInv
  <1>1. /\ owner = "awake" /\ owner' = "dispatching"
        /\ JL' = FinishedDnsJobList /\ FinishedDnsJobList' = << >>
        /\ UNCHANGED <<JobList, Permits, worker, holding, TotalDnsJob, JobOf, Reported,
                       Notified>>
    BY DEF GrabResults, threadVars
  <1>2. JL = << >>
    BY <1>0, <1>1 DEF OwnerPhases
  <1>3. /\ IsFiniteSet(Alive)' /\ CounterIsExact'
        /\ JobsInOnePlace' /\ JobsNameTheirHost'
        /\ JL' \in Seq(Job) /\ FinishedDnsJobList' \in Seq(Job)
    BY <1>1, <1>2, JobsCollected
  <1>4. TypeOK'
    BY <1>0, <1>1, <1>3 DEF TypeOK, OwnerStates
  <1>5. HoldsWhileLookingUp' /\ PermitsAreExact' /\ OwnerPhases'
    BY <1>0, <1>1 DEF HoldsWhileLookingUp, PermitsAreExact, OwnerPhases, Serving
  <1>6. WorkersServeUntilClean' /\ NoLostWakeup'
    BY <1>0, <1>1 DEF WorkersServeUntilClean, NoLostWakeup
  <1> QED
    BY <1>3, <1>4, <1>5, <1>6 DEF IInv

(* The owner reports the head of what it collected and deletes the job. *)
LEMMA ReportResultIInv ==
    ASSUME IInv, ReportResult
    PROVE  IInv'
  <1>0. /\ TypeOK /\ IsFiniteSet(Alive) /\ CounterIsExact /\ JobsInOnePlace
        /\ HoldsWhileLookingUp /\ JobsNameTheirHost /\ PermitsAreExact /\ OwnerPhases
        /\ WorkersServeUntilClean /\ NoLostWakeup
    BY DEF IInv
  <1>1. /\ TotalDnsJob' = TotalDnsJob - 1
        /\ UNCHANGED <<JobList, Permits, worker, holding, FinishedDnsJobList, owner, Notified>>
    BY DEF ReportResult, threadVars
  <1>2. PICK j \in Job :
          /\ j \in ToSet(JL)
          /\ JL' \in Seq(Job) /\ IsInjective(JL')
          /\ ToSet(JL') = ToSet(JL) \ {j}
          /\ Len(JL') = Len(JL) - 1
          /\ Reported' = Reported \union {j}
          /\ JobOf' = [JobOf EXCEPT ![j] = NoJob]
    <2>1. JL \in Seq(Job) /\ IsInjective(JL) /\ JL # << >>
      BY <1>0 DEF TypeOK, JobsInOnePlace, ReportResult
    <2>2. /\ Head(JL) \in Job
          /\ Reported' = Reported \union {Head(JL)}
          /\ JobOf' = [JobOf EXCEPT ![Head(JL)] = NoJob]
      BY <2>1, HeadTailOfInjective DEF ReportResult
    <2> QED
      BY <2>1, <2>2, HeadTailOfInjective DEF ReportResult
  <1>3. /\ owner \in {"dispatching", "draining"}
        /\ owner = "draining" => Serving = {} /\ FinishedDnsJobList = << >>
    BY <1>0 DEF ReportResult, OwnerPhases, TypeOK, OwnerStates
  <1>4. /\ j \in Alive /\ j \notin ToSet(JobList) /\ j \notin ToSet(FinishedDnsJobList)
        /\ \A w \in Worker : j \notin holding[w]
    <2>1. j \in Alive
      BY <1>0, <1>2, CounterParts
    <2> QED
      BY <1>0, <1>2, <2>1 DEF JobsInOnePlace
  <1>5. /\ JobOf' \in [Job -> DnsJob]
        /\ Alive' = Alive \ {j}
        /\ \A i \in Alive' : JobOf'[i] = JobOf[i]
    <2>1. NoJob \in DnsJob
      BY DEF NoJob, DnsJob
    <2> QED
      BY <1>0, <1>2, <2>1 DEF TypeOK, Alive
  <1>6. /\ IsFiniteSet(Alive') /\ Cardinality(Alive) \in Nat
        /\ Cardinality(Alive') = Cardinality(Alive) - 1
    BY <1>0, <1>4, <1>5, FS_RemoveElement, FS_CardinalityType
  <1>7. /\ Len(JobList) \in Nat /\ Len(FinishedDnsJobList) \in Nat /\ Len(JL) \in Nat
        /\ Len(JL') \in Nat
    BY <1>0, <1>2 DEF TypeOK
  <1>8. CounterIsExact'
    <2>1. Busy' = Busy /\ Held' = Held
      BY <1>1 DEF Busy, Held
    <2>2. Cardinality(Busy) \in Nat
      BY SomeWorkers DEF Busy
    <2>3. TotalDnsJob' = Len(JobList') + Len(FinishedDnsJobList') + Len(JL')
                           + Cardinality(Busy')
      <3>1. TotalDnsJob = Len(JobList) + Len(FinishedDnsJobList) + Len(JL)
                            + Cardinality(Busy)
        BY <1>0, CounterParts
      <3>2. /\ Len(FinishedDnsJobList') = Len(FinishedDnsJobList)
            /\ Len(JobList') = Len(JobList) /\ Len(JL') = Len(JL) - 1
        BY <1>1, <1>2
      <3>3. TotalDnsJob' = TotalDnsJob - 1
        BY <1>1
      <3> QED
        BY <1>7, <2>1, <2>2, <3>1, <3>2, <3>3
    <2>4. Alive' = ToSet(JobList') \union ToSet(FinishedDnsJobList') \union ToSet(JL')
                   \union Held'
      <3>1. /\ ToSet(FinishedDnsJobList') = ToSet(FinishedDnsJobList)
            /\ ToSet(JobList') = ToSet(JobList) /\ ToSet(JL') = ToSet(JL) \ {j}
        BY <1>1, <1>2
      <3>2. j \notin Held
        BY <1>4 DEF Held
      <3>3. Alive = ToSet(JobList) \union ToSet(FinishedDnsJobList) \union ToSet(JL)
                   \union Held
        BY <1>0, CounterParts
      <3> QED
        BY <1>4, <1>5, <2>1, <3>1, <3>2, <3>3
    <2>5. TotalDnsJob' = Cardinality(Alive')
      BY <1>0, <1>1, <1>6, CounterParts
    <2> QED
      BY <2>3, <2>4, <2>5, CounterPartsNext
  <1>9. TypeOK'
    <2>1. TotalDnsJob' \in 0..(MaxDnsJob - 1)
      <3>1. TotalDnsJob \in 0..(MaxDnsJob - 1) /\ TotalDnsJob = Cardinality(Alive)
        BY <1>0, CounterParts DEF TypeOK
      <3>2. Cardinality(Alive') \in Nat
        BY <1>6, FS_CardinalityType
      <3> QED
        BY <1>1, <1>6, <3>1, <3>2, JobAssumption
    <2> QED
      BY <1>0, <1>1, <1>2, <1>5, <2>1 DEF TypeOK
  <1>10. JobsInOnePlace'
    <2>1. /\ ToSet(FinishedDnsJobList') = ToSet(FinishedDnsJobList)
          /\ ToSet(JobList') = ToSet(JobList) /\ ToSet(JL') = ToSet(JL) \ {j}
          /\ IsInjective(JobList')
          /\ IsInjective(FinishedDnsJobList') /\ IsInjective(JL')
          /\ holding' = holding
      BY <1>0, <1>1, <1>2 DEF JobsInOnePlace
    <2> QED
      BY <1>0, <2>1 DEF JobsInOnePlace
  <1>11. HoldsWhileLookingUp' /\ JobsNameTheirHost'
    BY <1>0, <1>1, <1>5 DEF HoldsWhileLookingUp, JobsNameTheirHost
  <1>12. PermitsAreExact' /\ OwnerPhases'
    BY <1>0, <1>1, <1>3 DEF PermitsAreExact, OwnerPhases, Serving
  <1>13. WorkersServeUntilClean' /\ NoLostWakeup'
    BY <1>0, <1>1 DEF WorkersServeUntilClean, NoLostWakeup
  <1> QED
    BY <1>6, <1>8, <1>9, <1>10, <1>11, <1>12, <1>13 DEF IInv

(* The owner has reported all it collected. *)
LEMMA DispatchEndsIInv ==
    ASSUME IInv, DispatchEnds
    PROVE  IInv'
  <1>0. /\ TypeOK /\ IsFiniteSet(Alive) /\ CounterIsExact /\ JobsInOnePlace
        /\ HoldsWhileLookingUp /\ JobsNameTheirHost /\ PermitsAreExact /\ OwnerPhases
        /\ WorkersServeUntilClean /\ NoLostWakeup
    BY DEF IInv
  <1>1. /\ owner = "dispatching" /\ owner' = "idle" /\ JL = << >>
        /\ UNCHANGED <<JobList, Permits, worker, holding, FinishedDnsJobList, JL,
                       TotalDnsJob, JobOf, Reported, Notified>>
    BY DEF DispatchEnds, threadVars
  <1>2. TypeOK'
    BY <1>0, <1>1 DEF TypeOK, OwnerStates
  <1>3. /\ IsFiniteSet(Alive)' /\ CounterIsExact'
        /\ JobsInOnePlace' /\ JobsNameTheirHost'
    BY <1>1, JobsUntouched
  <1>4. HoldsWhileLookingUp' /\ PermitsAreExact' /\ OwnerPhases'
    BY <1>0, <1>1 DEF HoldsWhileLookingUp, PermitsAreExact, OwnerPhases, Serving
  <1>5. WorkersServeUntilClean' /\ NoLostWakeup'
    BY <1>0, <1>1 DEF WorkersServeUntilClean, NoLostWakeup
  <1> QED
    BY <1>2, <1>3, <1>4, <1>5 DEF IInv

(* Clean posts a permit for every thread. *)
LEMMA StopIInv ==
    ASSUME IInv, Stop
    PROVE  IInv'
  <1>0. /\ TypeOK /\ IsFiniteSet(Alive) /\ CounterIsExact /\ JobsInOnePlace
        /\ HoldsWhileLookingUp /\ JobsNameTheirHost /\ PermitsAreExact /\ OwnerPhases
        /\ WorkersServeUntilClean /\ NoLostWakeup
    BY DEF IInv
  <1>1. /\ owner = "idle" /\ owner' = "joining"
        /\ Permits' = Permits + Cardinality(Worker)
        /\ UNCHANGED <<JobList, worker, holding, FinishedDnsJobList, JL, TotalDnsJob,
                       JobOf, Reported, Notified>>
    BY DEF Stop, threadVars
  <1>2. Cardinality(Worker) \in Nat
    BY SomeWorkers
  <1>3. TypeOK'
    <2>1. Permits' \in Nat
      BY <1>0, <1>1, <1>2 DEF TypeOK
    <2> QED
      BY <1>0, <1>1, <2>1 DEF TypeOK, OwnerStates
  <1>4. /\ IsFiniteSet(Alive)' /\ CounterIsExact'
        /\ JobsInOnePlace' /\ JobsNameTheirHost'
    BY <1>1, JobsUntouched
  <1>5. PermitsAreExact'
    <2>1. Serving' = Serving
      BY <1>1 DEF Serving
    <2> QED
      BY <1>0, <1>1, <2>1 DEF PermitsAreExact
  <1>6. HoldsWhileLookingUp' /\ OwnerPhases'
    BY <1>0, <1>1 DEF HoldsWhileLookingUp, OwnerPhases
  <1>7. WorkersServeUntilClean' /\ NoLostWakeup'
    BY <1>0, <1>1 DEF WorkersServeUntilClean, NoLostWakeup
  <1> QED
    BY <1>3, <1>4, <1>5, <1>6, <1>7 DEF IInv

(* Clean joins the threads and takes over what they finished. *)
LEMMA DrainIInv ==
    ASSUME IInv, Drain
    PROVE  IInv'
  <1>0. /\ TypeOK /\ IsFiniteSet(Alive) /\ CounterIsExact /\ JobsInOnePlace
        /\ HoldsWhileLookingUp /\ JobsNameTheirHost /\ PermitsAreExact /\ OwnerPhases
        /\ WorkersServeUntilClean /\ NoLostWakeup
    BY DEF IInv
  <1>1. /\ owner = "joining" /\ owner' = "draining" /\ AllJoined
        /\ JL' = FinishedDnsJobList /\ FinishedDnsJobList' = << >>
        /\ UNCHANGED <<JobList, Permits, worker, holding, TotalDnsJob, JobOf, Reported,
                       Notified>>
    BY DEF Drain, threadVars
  <1>2. JL = << >> /\ Serving = {}
    BY <1>0, <1>1 DEF OwnerPhases, AllJoined, Serving
  <1>3. /\ IsFiniteSet(Alive)' /\ CounterIsExact'
        /\ JobsInOnePlace' /\ JobsNameTheirHost'
        /\ JL' \in Seq(Job) /\ FinishedDnsJobList' \in Seq(Job)
    BY <1>1, <1>2, JobsCollected
  <1>4. TypeOK'
    BY <1>0, <1>1, <1>3 DEF TypeOK, OwnerStates
  <1>5. Serving' = Serving
    BY <1>1 DEF Serving
  <1>6. HoldsWhileLookingUp' /\ PermitsAreExact' /\ OwnerPhases'
    BY <1>0, <1>1, <1>2, <1>5 DEF HoldsWhileLookingUp, PermitsAreExact, OwnerPhases
  <1>7. WorkersServeUntilClean' /\ NoLostWakeup'
    BY <1>0, <1>1 DEF WorkersServeUntilClean, NoLostWakeup
  <1> QED
    BY <1>3, <1>4, <1>6, <1>7 DEF IInv

(* Clean has deleted all it took over. *)
LEMMA DrainEndsIInv ==
    ASSUME IInv, DrainEnds
    PROVE  IInv'
  <1>0. /\ TypeOK /\ IsFiniteSet(Alive) /\ CounterIsExact /\ JobsInOnePlace
        /\ HoldsWhileLookingUp /\ JobsNameTheirHost /\ PermitsAreExact /\ OwnerPhases
        /\ WorkersServeUntilClean /\ NoLostWakeup
    BY DEF IInv
  <1>1. /\ owner = "draining" /\ owner' = "finished" /\ JL = << >>
        /\ UNCHANGED <<JobList, Permits, worker, holding, FinishedDnsJobList, JL,
                       TotalDnsJob, JobOf, Reported, Notified>>
    BY DEF DrainEnds, threadVars
  <1>2. TypeOK'
    BY <1>0, <1>1 DEF TypeOK, OwnerStates
  <1>3. /\ IsFiniteSet(Alive)' /\ CounterIsExact'
        /\ JobsInOnePlace' /\ JobsNameTheirHost'
    BY <1>1, JobsUntouched
  <1>4. HoldsWhileLookingUp' /\ PermitsAreExact' /\ OwnerPhases'
    BY <1>0, <1>1 DEF HoldsWhileLookingUp, PermitsAreExact, OwnerPhases, Serving
  <1>5. WorkersServeUntilClean' /\ NoLostWakeup'
    BY <1>0, <1>1 DEF WorkersServeUntilClean, NoLostWakeup
  <1> QED
    BY <1>2, <1>3, <1>4, <1>5 DEF IInv

-----------------------------------------------------------------------------
(* Every step keeps it. *)
LEMMA StepIInv ==
    ASSUME IInv, [Next]_dnsVars
    PROVE  IInv'
  <1>1. ASSUME NEW j \in Job, NEW host \in Host, NEW ctx \in Context,
               QueryAccepted(j, host, ctx)
        PROVE  IInv'
    BY <1>1, QueryAcceptedIInv
  <1>2. ASSUME UNCHANGED dnsVars
        PROVE  IInv'
    <2>1. UNCHANGED <<JobList, Permits, worker, holding, FinishedDnsJobList, JL, owner,
                      TotalDnsJob, JobOf, Reported, Notified>>
      BY <1>2 DEF dnsVars, threadVars
    <2>2. /\ IsFiniteSet(Alive)' /\ CounterIsExact'
          /\ JobsInOnePlace' /\ JobsNameTheirHost'
      BY <2>1, JobsUntouched
    <2>3. TypeOK' /\ HoldsWhileLookingUp'
      BY <2>1 DEF IInv, TypeOK, HoldsWhileLookingUp
    <2>4. PermitsAreExact' /\ OwnerPhases' /\ WorkersServeUntilClean' /\ NoLostWakeup'
      BY <2>1 DEF IInv, PermitsAreExact, OwnerPhases, Serving, WorkersServeUntilClean,
                  NoLostWakeup
    <2> QED
      BY <2>2, <2>3, <2>4 DEF IInv
  <1>3. CASE QueryRefused
    BY <1>2, <1>3 DEF QueryRefused
  <1>4. ASSUME NEW w \in Worker, Work(w)
        PROVE  IInv'
    BY <1>4, TakeJobIInv, ExitIInv, FinishIInv, NotifyIInv DEF Work
  <1>5. CASE Collect
    BY <1>5, WakeIInv, GrabResultsIInv, ReportResultIInv, DispatchEndsIInv, DrainIInv,
       DrainEndsIInv DEF Collect
  <1>6. CASE Stop
    BY <1>6, StopIInv
  <1> QED
    BY <1>1, <1>2, <1>3, <1>4, <1>5, <1>6 DEF Next

(* The inductive invariant of the service, for any number of threads and jobs.
   *)
THEOREM InductiveInvariant == Spec => []IInv
  BY InitIInv, StepIInv, PTL DEF Spec

(* The list, the semaphore, the counter and the threads stay what they are; the
   counter below its limit. *)
THEOREM TypeCorrect == Spec => []TypeOK
  BY InductiveInvariant, PTL DEF IInv

(* TotalDnsJob counts the jobs that were allocated and not deleted, and each of
   them is queued, with one worker, finished or collected. *)
THEOREM CounterCorrect == Spec => []CounterIsExact
  BY InductiveInvariant, PTL DEF IInv

(* No thread takes an empty queue for the end before Clean, and none ends while
   jobs are queued. *)
THEOREM ServiceCorrect == Spec => []WorkersServeUntilClean
  BY InductiveInvariant, PTL DEF IInv

(* A finished job is never left in the list while the owner sleeps unnotified. *)
THEOREM WakeupCorrect == Spec => []NoLostWakeup
  BY InductiveInvariant, PTL DEF IInv

(* Clean's assertion: when the threads are joined and the results drained, no
   job is left anywhere. *)
THEOREM CleanCorrect == Spec => []CleanLeavesNothing
  <1>1. IInv => CleanLeavesNothing
    <2> SUFFICES ASSUME IInv, owner = "finished"
                 PROVE  TotalDnsJob = 0
      BY DEF CleanLeavesNothing
    <2>1. JL = << >> /\ FinishedDnsJobList = << >> /\ Serving = {}
      BY DEF IInv, OwnerPhases
    <2>2. JobList = << >>
      BY <2>1, JobAssumption DEF IInv, WorkersServeUntilClean, Serving
    <2>3. Busy = {}
      BY <2>1 DEF IInv, HoldsWhileLookingUp, Serving, Busy
    <2>4. Cardinality(Busy) = 0
      BY <2>3, FS_EmptySet
    <2>5. Len(JL) = 0 /\ Len(FinishedDnsJobList) = 0 /\ Len(JobList) = 0
      BY <2>1, <2>2
    <2> QED
      BY <2>4, <2>5, CounterParts DEF IInv
  <1> QED
    BY <1>1, InductiveInvariant, PTL

=============================================================================
