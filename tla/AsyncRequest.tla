---------------------------- MODULE AsyncRequest ----------------------------
(***************************************************************************)
(* xAsyncRequestManager: a cache of answers in front of something that is  *)
(* slow.  The first query of a key posts one request; every source that    *)
(* asks for the key is remembered with it; the result is kept, and given   *)
(* to all sources at the next Tick, until the request is CacheTimeoutMS    *)
(* old.  A request that has no result by then is destroyed all the same.   *)
(***************************************************************************)
EXTENDS XList

CONSTANTS
    Key,                \* keys, and for each key the data that belongs to it
    Source,             \* one for each query that is made
    RequestId,          \* ids of the request pool; an id is never drawn twice
    MaxRequestNodes,    \* capacity of the pool
    CacheTimeoutMS,     \* 5 * 60'000
    StartTime,          \* time of the first Tick
    MaxTime,            \* bound on the clock
    None

(* NEW is left before Query returns. *)
States == {"QUERYING", "NODATA", "READY"}

ASSUME RequestAssumption ==
    /\ None \notin Key \union RequestId \union States
    /\ CacheTimeoutMS \in Nat
    /\ StartTime \in Nat /\ StartTime >= CacheTimeoutMS
    /\ MaxTime \in Nat /\ MaxTime >= StartTime

VARIABLES
    CacheNodeMap,           \* request of a key
    RequestNodeManager,     \* ids that lead to a request
    Released,               \* ids given back to the pool
    CacheKey,               \* of a request; kept after the release
    CacheTimestampMS,       \* of a request, 0 when there is none
    State,                  \* of its dispatcher
    DataNode,               \* of its dispatcher: whose data it is
    RequestSources,         \* of its dispatcher
    CacheTimeoutList,
    DispatcherList,
    Ticker,                 \* time of the last Tick
    Asked,                  \* key of each query that was accepted (history)
    Answers                 \* results posted to each source (history)

nodes == <<CacheKey, CacheTimestampMS, State, DataNode, RequestSources>>
history == <<Asked, Answers>>
requestVars == <<CacheNodeMap, RequestNodeManager, Released, nodes,
                 CacheTimeoutList, DispatcherList, Ticker, history>>

RequestsTypeOK ==
    /\ CacheNodeMap \in [Key -> RequestId \union {None}]
    /\ RequestNodeManager \subseteq RequestId
    /\ Released \subseteq RequestId
    /\ CacheKey \in [RequestId -> Key \union {None}]
    /\ CacheTimestampMS \in [RequestId -> Nat]
    /\ State \in [RequestId -> States \union {None}]
    /\ DataNode \in [RequestId -> Key \union {None}]
    /\ RequestSources \in [RequestId -> SUBSET Source]
    /\ CacheTimeoutList \in Seq(RequestId)
    /\ DispatcherList \in Seq(RequestId)
    /\ Ticker \in StartTime..MaxTime
    /\ Asked \in [Source -> Key \union {None}]
    /\ Answers \in [Source -> Seq(Key \union {None})]

(* No query comes before the first Tick: the server has to connect first. *)
RequestsInit ==
    /\ CacheNodeMap = [k \in Key |-> None]
    /\ RequestNodeManager = {}
    /\ Released = {}
    /\ CacheKey = [r \in RequestId |-> None]
    /\ CacheTimestampMS = [r \in RequestId |-> 0]
    /\ State = [r \in RequestId |-> None]
    /\ DataNode = [r \in RequestId |-> None]
    /\ RequestSources = [r \in RequestId |-> {}]
    /\ CacheTimeoutList = << >>
    /\ DispatcherList = << >>
    /\ Ticker = StartTime
    /\ Asked = [s \in Source |-> None]
    /\ Answers = [s \in Source |-> << >>]

-----------------------------------------------------------------------------
(* Query. *)

PoolIsFull == Cardinality(RequestNodeManager) >= MaxRequestNodes

(* An id the pool can still hand out. *)
CanAcquire(r) == r \notin RequestNodeManager \union Released /\ ~PoolIsFull

(* A query that has not been made. *)
Fresh(s) == Asked[s] = None

(* The key is not in the cache: r is drawn for it and PostRequest called. *)
QueryNew(k, s, r) ==
    /\ Fresh(s)
    /\ CacheNodeMap[k] = None
    /\ CanAcquire(r)
    /\ CacheNodeMap' = [CacheNodeMap EXCEPT ![k] = r]
    /\ RequestNodeManager' = RequestNodeManager \union {r}
    /\ CacheKey' = [CacheKey EXCEPT ![r] = k]
    /\ CacheTimestampMS' = [CacheTimestampMS EXCEPT ![r] = Ticker]
    /\ CacheTimeoutList' = GrabTail(CacheTimeoutList, r)
    /\ RequestSources' = [RequestSources EXCEPT ![r] = {s}]
    /\ State' = [State EXCEPT ![r] = "QUERYING"]
    /\ Asked' = [Asked EXCEPT ![s] = k]
    /\ UNCHANGED <<Released, DataNode, DispatcherList, Ticker, Answers>>

(* The pool is full: the entry operator[] made is erased, nothing is kept. *)
QueryRefused(k, s) ==
    /\ Fresh(s)
    /\ CacheNodeMap[k] = None
    /\ PoolIsFull
    /\ UNCHANGED requestVars

(* Mutant of QueryKnown: a request that is ready is not dispatched again. *)
QueryKnownQuietly(k, s) ==
    /\ Fresh(s)
    /\ CacheNodeMap[k] # None
    /\ RequestSources' = [RequestSources EXCEPT ![CacheNodeMap[k]] = @ \union {s}]
    /\ Asked' = [Asked EXCEPT ![s] = k]
    /\ UNCHANGED <<CacheNodeMap, RequestNodeManager, Released, CacheKey,
                   CacheTimestampMS, State, DataNode, CacheTimeoutList,
                   DispatcherList, Ticker, Answers>>

(* The key is in the cache: the source waits with the others, until the next
   Tick when the result is there. *)
QueryKnown(k, s) ==
    /\ Fresh(s)
    /\ CacheNodeMap[k] # None
    /\ LET r == CacheNodeMap[k] IN
         /\ RequestSources' = [RequestSources EXCEPT ![r] = @ \union {s}]
         /\ DispatcherList' = IF State[r] = "QUERYING"
                                THEN DispatcherList
                                ELSE GrabTail(DispatcherList, r)
    /\ Asked' = [Asked EXCEPT ![s] = k]
    /\ UNCHANGED <<CacheNodeMap, RequestNodeManager, Released, CacheKey,
                   CacheTimestampMS, State, DataNode, CacheTimeoutList, Ticker, Answers>>

-----------------------------------------------------------------------------
(* Results. *)

(* What SetNoData and SetData do when CheckAndGet finds the request. *)
Resolve(r, state, data) ==
    /\ State' = [State EXCEPT ![r] = state]
    /\ DataNode' = [DataNode EXCEPT ![r] = data]
    /\ DispatcherList' = GrabTail(DispatcherList, r)
    /\ UNCHANGED <<CacheNodeMap, RequestNodeManager, Released, CacheKey, CacheTimestampMS,
                   RequestSources, CacheTimeoutList, Ticker, history>>

(* A result for a request that is not there any more is dropped. *)
Unknown(r) ==
    /\ r \notin RequestNodeManager
    /\ UNCHANGED requestVars

SetData(r, data) ==
    \/ r \in RequestNodeManager /\ Resolve(r, "READY", data)
    \/ Unknown(r)

SetNoData(r) ==
    \/ r \in RequestNodeManager /\ Resolve(r, "NODATA", None)
    \/ Unknown(r)

-----------------------------------------------------------------------------
(* Tick. *)

(* Mutant of Served: the timeouts come before the results. *)
ServedIfKept(s) ==
    {r \in ToSet(DispatcherList) \intersect RequestNodeManager' : s \in RequestSources[r]}

(* Requests in DispatcherList that owe s a result. *)
Served(s) == {r \in ToSet(DispatcherList) : s \in RequestSources[r]}

(* Mutant of DispatchResults: RequestSources.clear() is forgotten. *)
DispatchResultsAgain ==
    /\ Answers' = [s \in Source |->
                     IF Served(s) = {} THEN Answers[s]
                     ELSE Append(Answers[s], DataNode[CHOOSE r \in Served(s) : TRUE])]
    /\ DispatcherList' = << >>
    /\ RequestSources' = [r \in RequestId |->
                            IF r \in RequestNodeManager' THEN RequestSources[r] ELSE {}]

(* Every source of a listed request gets its result, and waits no longer; the
   sources of a request that is destroyed in this Tick go with it. *)
DispatchResults ==
    /\ Answers' = [s \in Source |->
                     IF Served(s) = {} THEN Answers[s]
                     ELSE Append(Answers[s], DataNode[CHOOSE r \in Served(s) : TRUE])]
    /\ DispatcherList' = << >>
    /\ RequestSources' =
         [r \in RequestId |->
            IF r \in ToSet(DispatcherList) \/ r \notin RequestNodeManager'
              THEN {} ELSE RequestSources[r]]

(* Mutant of DestroyRequests: CacheNodeMap.erase is forgotten. *)
DestroyRequestsNotKeys(D) ==
    /\ RequestNodeManager' = RequestNodeManager \ D
    /\ Released' = Released \union D
    /\ CacheTimestampMS' = [r \in RequestId |-> IF r \in D THEN 0 ELSE CacheTimestampMS[r]]
    /\ State' = [r \in RequestId |-> IF r \in D THEN None ELSE State[r]]
    /\ DataNode' = [r \in RequestId |-> IF r \in D THEN None ELSE DataNode[r]]
    /\ UNCHANGED CacheNodeMap

(* DestroyRequest of every member of D. *)
DestroyRequests(D) ==
    /\ CacheNodeMap' = [k \in Key |-> IF CacheNodeMap[k] \in D THEN None ELSE CacheNodeMap[k]]
    /\ RequestNodeManager' = RequestNodeManager \ D
    /\ Released' = Released \union D
    /\ CacheTimestampMS' = [r \in RequestId |-> IF r \in D THEN 0 ELSE CacheTimestampMS[r]]
    /\ State' = [r \in RequestId |-> IF r \in D THEN None ELSE State[r]]
    /\ DataNode' = [r \in RequestId |-> IF r \in D THEN None ELSE DataNode[r]]

StampedBy(t) == {r \in RequestNodeManager : CacheTimestampMS[r] <= t}

(* Dispatches, then destroys what is too old, from the head of the list. *)
RequestTick(NowMS) ==
    /\ Ticker' = NowMS
    /\ CacheTimeoutList' = PopHeadWhile(CacheTimeoutList, StampedBy(NowMS - CacheTimeoutMS))
    /\ DestroyRequests(ToSet(CacheTimeoutList) \ ToSet(CacheTimeoutList'))
    /\ DispatchResults
    /\ UNCHANGED <<CacheKey, Asked>>

-----------------------------------------------------------------------------

(* The manager by itself: a result may come for any request that was posted,
   at any time, more than once, and after the request was destroyed. *)
RequestsNext ==
    \/ \E k \in Key, s \in Source :
         \/ \E r \in RequestId : QueryNew(k, s, r)
         \/ QueryRefused(k, s)
         \/ QueryKnown(k, s)
    \/ \E r \in RequestNodeManager \union Released :
         SetData(r, CacheKey[r]) \/ SetNoData(r)
    \/ \E NowMS \in Ticker..MaxTime : RequestTick(NowMS)

RequestsSpec == RequestsInit /\ [][RequestsNext]_requestVars

-----------------------------------------------------------------------------

(* Map, pool and timeout list speak of the same requests, and the oldest is at
   the head, where PopHead looks; no list keeps a request that was destroyed.
   An entry left in the map would hand a freed request to the next query. *)
CacheIsConsistent ==
    /\ \A r \in RequestId, k \in Key :
         CacheNodeMap[k] = r <=> r \in RequestNodeManager /\ CacheKey[r] = k
    /\ ToSet(CacheTimeoutList) = RequestNodeManager
    /\ IsInjective(CacheTimeoutList)
    /\ SortedBy(CacheTimeoutList, CacheTimestampMS)
    /\ ToSet(DispatcherList) \subseteq RequestNodeManager
    /\ IsInjective(DispatcherList)

(* No source is forgotten: where there is a result and someone waits for it,
   the next Tick hands it out. *)
ResolvedIsListed ==
    \A r \in RequestNodeManager :
      State[r] # "QUERYING" /\ RequestSources[r] # {} => r \in ToSet(DispatcherList)

(* Nobody gets a second answer, or one for another key: not when a result comes
   after its request was destroyed and the key was asked for again, not when
   it comes twice. *)
AnswersAreRight ==
    \A s \in Source :
      /\ Len(Answers[s]) <= 1
      /\ ToSet(Answers[s]) \subseteq {Asked[s], None}

WaitsIn(s) == {r \in RequestNodeManager : s \in RequestSources[r]}

(* A source goes without an answer only if its request ran into the timeout
   before any result came: a Tick that finds both a result and the timeout
   answers first. *)
OnlyUnresolvedIsDropped ==
    [][\A s \in Source, r \in RequestId :
         /\ r \in WaitsIn(s) \ WaitsIn(s)'
         /\ Answers'[s] = Answers[s]
         => /\ State[r] = "QUERYING"
            /\ CacheTimestampMS[r] + CacheTimeoutMS <= Ticker']_requestVars

-----------------------------------------------------------------------------
(* What the properties above rest on. *)

(* An id leads to a request or was given back, never both; the stamp of a
   request is not of the future. *)
IdsAreDrawnOnce ==
    /\ RequestNodeManager \intersect Released = {}
    /\ \A r \in RequestNodeManager : CacheTimestampMS[r] <= Ticker

(* What a request keeps is about its own key, and without a request there is
   no data. *)
RequestsAreOfAKey ==
    /\ \A r \in RequestNodeManager :
         CacheKey[r] \in Key /\ State[r] \in States /\ DataNode[r] \in {CacheKey[r], None}
    /\ \A r \in RequestId \ RequestNodeManager : DataNode[r] = None

(* Who waits with a request asked for its key and has no answer yet. *)
SourcesAreWaiting ==
    /\ \A r \in RequestId : \A s \in RequestSources[r] :
         r \in RequestNodeManager /\ Asked[s] = CacheKey[r] /\ Answers[s] = << >>
    /\ \A s \in Source : Fresh(s) => Answers[s] = << >>

RequestsIInv ==
    /\ RequestsTypeOK
    /\ CacheIsConsistent
    /\ IdsAreDrawnOnce
    /\ RequestsAreOfAKey
    /\ SourcesAreWaiting
    /\ ResolvedIsListed
    /\ AnswersAreRight

=============================================================================
