--------------------------- MODULE DnsServerProofs ---------------------------
(***************************************************************************)
(* The request manager answers everyone once and rightly, and the dns      *)
(* server is a request manager on top of a dns service: for any keys, any  *)
(* number of queries and threads, any capacity and any timeout.            *)
(***************************************************************************)
EXTENDS DnsServer, XListTheorems, FiniteSetTheorems

(* The request manager by itself. *)

(* The cache starts empty. *)
LEMMA RequestsInitIInv == RequestsInit => RequestsIInv
  <1> SUFFICES ASSUME RequestsInit PROVE RequestsIInv
    OBVIOUS
  <1>1. RequestsTypeOK
    <2>1. /\ CacheTimeoutList \in Seq(RequestId) /\ DispatcherList \in Seq(RequestId)
          /\ Answers \in [Source -> Seq(Key \union {None})]
      BY DEF RequestsInit
    <2>2. Ticker \in StartTime..MaxTime
      BY RequestAssumption DEF RequestsInit
    <2> QED
      BY <2>1, <2>2 DEF RequestsInit, RequestsTypeOK
  <1>2. CacheIsConsistent
    <2>1. /\ ToSet(CacheTimeoutList) = {} /\ ToSet(DispatcherList) = {}
          /\ IsInjective(CacheTimeoutList) /\ IsInjective(DispatcherList)
          /\ SortedBy(CacheTimeoutList, CacheTimestampMS)
      BY DEF RequestsInit, ToSet, IsInjective, SortedBy
    <2>2. RequestNodeManager = {} /\ \A k \in Key : CacheNodeMap[k] = None
      BY DEF RequestsInit
    <2> QED
      BY <2>1, <2>2, RequestAssumption DEF CacheIsConsistent
  <1>3. IdsAreDrawnOnce /\ RequestsAreOfAKey /\ ResolvedIsListed
    BY DEF RequestsInit, IdsAreDrawnOnce, RequestsAreOfAKey, ResolvedIsListed
  <1>4. SourcesAreWaiting
    BY DEF RequestsInit, SourcesAreWaiting
  <1>5. AnswersAreRight
    <2>1. Len(<< >>) = 0 /\ ToSet(<< >>) = {}
      BY DEF ToSet
    <2> QED
      BY <2>1 DEF RequestsInit, AnswersAreRight
  <1> QED
    BY <1>1, <1>2, <1>3, <1>4, <1>5 DEF RequestsIInv

(* The first query of a key makes its request, stamped with the present, at
   the tail of the timeout list. *)
LEMMA QueryNewIInv ==
    ASSUME RequestsIInv, NEW k \in Key, NEW s \in Source, NEW r \in RequestId,
           QueryNew(k, s, r)
    PROVE  RequestsIInv'
  <1>0. /\ RequestsTypeOK /\ CacheIsConsistent /\ IdsAreDrawnOnce /\ RequestsAreOfAKey
        /\ SourcesAreWaiting /\ ResolvedIsListed /\ AnswersAreRight
    BY DEF RequestsIInv
  <1>1. /\ Asked[s] = None /\ CacheNodeMap[k] = None
        /\ r \notin RequestNodeManager /\ r \notin Released
        /\ CacheNodeMap' = [CacheNodeMap EXCEPT ![k] = r]
        /\ RequestNodeManager' = RequestNodeManager \union {r}
        /\ CacheKey' = [CacheKey EXCEPT ![r] = k]
        /\ CacheTimestampMS' = [CacheTimestampMS EXCEPT ![r] = Ticker]
        /\ RequestSources' = [RequestSources EXCEPT ![r] = {s}]
        /\ State' = [State EXCEPT ![r] = "QUERYING"]
        /\ Asked' = [Asked EXCEPT ![s] = k]
        /\ UNCHANGED <<Released, DataNode, DispatcherList, Ticker, Answers>>
    BY DEF QueryNew, Fresh, CanAcquire
  <1>2. /\ \A q \in RequestId \ {r} :
             /\ CacheKey'[q] = CacheKey[q] /\ CacheTimestampMS'[q] = CacheTimestampMS[q]
             /\ RequestSources'[q] = RequestSources[q] /\ State'[q] = State[q]
        /\ CacheKey'[r] = k /\ CacheTimestampMS'[r] = Ticker
        /\ RequestSources'[r] = {s} /\ State'[r] = "QUERYING"
        /\ \A t \in Source \ {s} : Asked'[t] = Asked[t]
        /\ Asked'[s] = k
        /\ \A l \in Key \ {k} : CacheNodeMap'[l] = CacheNodeMap[l]
        /\ CacheNodeMap'[k] = r
    BY <1>0, <1>1 DEF RequestsTypeOK
  <1>3. /\ RequestNodeManager \subseteq RequestId /\ Ticker \in Nat
        /\ \A q \in RequestId : CacheTimestampMS[q] \in Nat
        /\ None \notin RequestId /\ None \notin Key
        /\ \A q \in RequestId : RequestSources[q] \subseteq Source
    BY <1>0, RequestAssumption DEF RequestsTypeOK
  <1>4. /\ CacheTimeoutList' \in Seq(RequestId) /\ IsInjective(CacheTimeoutList')
        /\ ToSet(CacheTimeoutList') = RequestNodeManager'
        /\ SortedBy(CacheTimeoutList', CacheTimestampMS')
    <2>1. /\ CacheTimeoutList \in Seq(RequestId) /\ IsInjective(CacheTimeoutList)
          /\ ToSet(CacheTimeoutList) = RequestNodeManager
          /\ SortedBy(CacheTimeoutList, CacheTimestampMS)
      BY <1>0 DEF RequestsTypeOK, CacheIsConsistent
    <2>2. CacheTimeoutList' = GrabTail(CacheTimeoutList, r)
      BY DEF QueryNew
    <2>3. \A q \in ToSet(CacheTimeoutList) \ {r} :
            /\ CacheTimestampMS'[q] = CacheTimestampMS[q]
            /\ CacheTimestampMS'[q] <= CacheTimestampMS'[r]
      BY <1>0, <1>2, <1>3, <2>1 DEF IdsAreDrawnOnce
    <2>4. SortedBy(CacheTimeoutList', CacheTimestampMS')
      BY <2>1, <2>2, <2>3, GrabTailSorted
    <2> QED
      BY <1>1, <2>1, <2>2, <2>4, GrabTailProperties
  <1>5. RequestsTypeOK'
    <2>1. /\ CacheTimestampMS' \in [RequestId -> Nat]
          /\ State' \in [RequestId -> States \union {None}]
      BY <1>0, <1>1, <1>3 DEF RequestsTypeOK, States
    <2>2. /\ CacheNodeMap' \in [Key -> RequestId \union {None}]
          /\ RequestNodeManager' \subseteq RequestId
          /\ CacheKey' \in [RequestId -> Key \union {None}]
          /\ RequestSources' \in [RequestId -> SUBSET Source]
          /\ Asked' \in [Source -> Key \union {None}]
      BY <1>0, <1>1 DEF RequestsTypeOK
    <2> QED
      BY <1>0, <1>1, <1>4, <2>1, <2>2 DEF RequestsTypeOK
  <1>6. CacheIsConsistent'
    <2>1. \A q \in RequestId, l \in Key :
            CacheNodeMap'[l] = q <=> q \in RequestNodeManager' /\ CacheKey'[q] = l
      BY <1>0, <1>1, <1>2, <1>3 DEF CacheIsConsistent
    <2>2. ToSet(DispatcherList') \subseteq RequestNodeManager' /\ IsInjective(DispatcherList')
      BY <1>0, <1>1 DEF CacheIsConsistent
    <2> QED
      BY <1>4, <2>1, <2>2 DEF CacheIsConsistent
  <1>7. IdsAreDrawnOnce'
    BY <1>0, <1>1, <1>2, <1>3 DEF IdsAreDrawnOnce
  <1>8. RequestsAreOfAKey'
    BY <1>0, <1>1, <1>2, <1>3 DEF RequestsAreOfAKey, States
  <1>9. SourcesAreWaiting'
    BY <1>0, <1>1, <1>2, <1>3 DEF SourcesAreWaiting, RequestsAreOfAKey, Fresh
  <1>10. ResolvedIsListed'
    BY <1>0, <1>1, <1>2, <1>3 DEF ResolvedIsListed
  <1>11. AnswersAreRight'
    BY <1>0, <1>1, <1>2 DEF AnswersAreRight, SourcesAreWaiting, Fresh
  <1> QED
    BY <1>5, <1>6, <1>7, <1>8, <1>9, <1>10, <1>11 DEF RequestsIInv

(* A query of a known key waits with its request, which is listed again if it
   is resolved. *)
LEMMA QueryKnownIInv ==
    ASSUME RequestsIInv, NEW k \in Key, NEW s \in Source, QueryKnown(k, s)
    PROVE  RequestsIInv'
  <1>0. /\ RequestsTypeOK /\ CacheIsConsistent /\ IdsAreDrawnOnce /\ RequestsAreOfAKey
        /\ SourcesAreWaiting /\ ResolvedIsListed /\ AnswersAreRight
    BY DEF RequestsIInv
  <1>1. PICK r \in RequestId :
          /\ CacheNodeMap[k] = r
          /\ RequestSources' = [RequestSources EXCEPT ![r] = @ \union {s}]
          /\ DispatcherList' = IF State[r] = "QUERYING"
                                 THEN DispatcherList
                                 ELSE GrabTail(DispatcherList, r)
    BY <1>0 DEF QueryKnown, RequestsTypeOK
  <1>2. /\ Asked[s] = None
        /\ Asked' = [Asked EXCEPT ![s] = k]
        /\ UNCHANGED <<CacheNodeMap, RequestNodeManager, Released, CacheKey,
                       CacheTimestampMS, State, DataNode, CacheTimeoutList, Ticker,
                       Answers>>
    BY DEF QueryKnown, Fresh
  <1>3. r \in RequestNodeManager /\ CacheKey[r] = k
    BY <1>0, <1>1 DEF CacheIsConsistent
  <1>4. /\ DispatcherList' \in Seq(RequestId) /\ IsInjective(DispatcherList')
        /\ ToSet(DispatcherList') \subseteq RequestNodeManager
        /\ ToSet(DispatcherList) \subseteq ToSet(DispatcherList')
        /\ State[r] # "QUERYING" => r \in ToSet(DispatcherList')
    <2>1. /\ DispatcherList \in Seq(RequestId) /\ IsInjective(DispatcherList)
          /\ ToSet(DispatcherList) \subseteq RequestNodeManager
      BY <1>0 DEF RequestsTypeOK, CacheIsConsistent
    <2>2. CASE State[r] = "QUERYING"
      BY <1>1, <2>1, <2>2
    <2>3. CASE State[r] # "QUERYING"
      <3>1. DispatcherList' = GrabTail(DispatcherList, r)
        BY <1>1, <2>3
      <3> QED
        BY <1>3, <2>1, <3>1, GrabTailProperties
    <2> QED
      BY <2>2, <2>3
  <1>5. /\ \A q \in RequestId \ {r} : RequestSources'[q] = RequestSources[q]
        /\ RequestSources'[r] = RequestSources[r] \union {s}
        /\ \A t \in Source \ {s} : Asked'[t] = Asked[t]
        /\ Asked'[s] = k
        /\ None \notin RequestId /\ None \notin Key
        /\ \A q \in RequestId : RequestSources[q] \subseteq Source
        /\ RequestNodeManager \subseteq RequestId
    BY <1>0, <1>1, <1>2, RequestAssumption DEF RequestsTypeOK
  <1>6. RequestsTypeOK'
    <2>1. /\ RequestSources' \in [RequestId -> SUBSET Source]
          /\ Asked' \in [Source -> Key \union {None}]
      BY <1>0, <1>1, <1>2 DEF RequestsTypeOK
    <2> QED
      BY <1>0, <1>2, <1>4, <2>1 DEF RequestsTypeOK
  <1>7. CacheIsConsistent'
    BY <1>0, <1>2, <1>4 DEF CacheIsConsistent
  <1>8. IdsAreDrawnOnce' /\ RequestsAreOfAKey'
    BY <1>0, <1>2 DEF IdsAreDrawnOnce, RequestsAreOfAKey
  <1>9. SourcesAreWaiting'
    BY <1>0, <1>2, <1>3, <1>5 DEF SourcesAreWaiting, RequestsAreOfAKey, Fresh
  <1>10. ResolvedIsListed'
    BY <1>0, <1>2, <1>4, <1>5 DEF ResolvedIsListed
  <1>11. AnswersAreRight'
    BY <1>0, <1>2, <1>5 DEF AnswersAreRight, SourcesAreWaiting, Fresh
  <1> QED
    BY <1>6, <1>7, <1>8, <1>9, <1>10, <1>11 DEF RequestsIInv

(* A result, also a late or a second one, lists the request for the next Tick.
   *)
LEMMA ResolveIInv ==
    ASSUME RequestsIInv, NEW r \in RequestNodeManager,
           NEW state \in {"NODATA", "READY"}, NEW data \in {CacheKey[r], None},
           Resolve(r, state, data)
    PROVE  RequestsIInv'
  <1>0. /\ RequestsTypeOK /\ CacheIsConsistent /\ IdsAreDrawnOnce /\ RequestsAreOfAKey
        /\ SourcesAreWaiting /\ ResolvedIsListed /\ AnswersAreRight
    BY DEF RequestsIInv
  <1>1. /\ State' = [State EXCEPT ![r] = state]
        /\ DataNode' = [DataNode EXCEPT ![r] = data]
        /\ UNCHANGED <<CacheNodeMap, RequestNodeManager, Released, CacheKey,
                       CacheTimestampMS, RequestSources, CacheTimeoutList, Ticker, Asked,
                       Answers>>
    BY DEF Resolve, history
  <1>2. r \in RequestId /\ CacheKey[r] \in Key
    BY <1>0 DEF RequestsTypeOK, RequestsAreOfAKey
  <1>3. /\ DispatcherList' \in Seq(RequestId) /\ IsInjective(DispatcherList')
        /\ ToSet(DispatcherList') = ToSet(DispatcherList) \union {r}
    <2>1. DispatcherList \in Seq(RequestId) /\ IsInjective(DispatcherList)
      BY <1>0 DEF RequestsTypeOK, CacheIsConsistent
    <2>2. DispatcherList' = GrabTail(DispatcherList, r)
      BY DEF Resolve
    <2> QED
      BY <1>2, <2>1, <2>2, GrabTailProperties
  <1>4. RequestsTypeOK'
    <2>1. State' \in [RequestId -> States \union {None}]
      BY <1>0, <1>1 DEF RequestsTypeOK, States
    <2>2. DataNode' \in [RequestId -> Key \union {None}]
      BY <1>0, <1>1, <1>2 DEF RequestsTypeOK
    <2> QED
      BY <1>0, <1>1, <1>3, <2>1, <2>2 DEF RequestsTypeOK
  <1>5. CacheIsConsistent'
    BY <1>0, <1>1, <1>3 DEF CacheIsConsistent
  <1>6. IdsAreDrawnOnce' /\ SourcesAreWaiting'
    BY <1>0, <1>1 DEF IdsAreDrawnOnce, SourcesAreWaiting, Fresh
  <1>7. /\ \A q \in RequestId \ {r} : State'[q] = State[q] /\ DataNode'[q] = DataNode[q]
        /\ State'[r] = state /\ DataNode'[r] = data
        /\ RequestNodeManager \subseteq RequestId
    BY <1>0, <1>1, <1>2 DEF RequestsTypeOK
  <1>8. RequestsAreOfAKey'
    BY <1>0, <1>1, <1>7 DEF RequestsAreOfAKey, States
  <1>9. ResolvedIsListed'
    BY <1>0, <1>1, <1>3, <1>7 DEF ResolvedIsListed
  <1>10. AnswersAreRight'
    BY <1>0, <1>1 DEF AnswersAreRight
  <1> QED
    BY <1>4, <1>5, <1>6, <1>8, <1>9, <1>10 DEF RequestsIInv

(* Who is served waits with the one request of the key it asked for; the answer
   is this request's. *)
LEMMA ServedOnce ==
    ASSUME RequestsIInv, NEW s \in Source, Served(s) # {}
    PROVE  \E r \in RequestNodeManager :
             /\ r \in ToSet(DispatcherList) /\ s \in RequestSources[r]
             /\ r = CHOOSE q \in Served(s) : TRUE
  <1>1. (CHOOSE q \in Served(s) : TRUE) \in Served(s)
    OBVIOUS
  <1>2. \A r \in Served(s) : /\ r \in ToSet(DispatcherList) /\ s \in RequestSources[r]
                             /\ r \in RequestNodeManager
    BY DEF Served, RequestsIInv, CacheIsConsistent
  <1> QED
    BY <1>1, <1>2

(* Tick answers the sources of the listed requests and destroys those at their
   timeout, from the head of a list in stamp order. *)
LEMMA RequestTickIInv ==
    ASSUME RequestsIInv, NEW NowMS \in Ticker..MaxTime, RequestTick(NowMS)
    PROVE  RequestsIInv'
  <1>0. /\ RequestsTypeOK /\ CacheIsConsistent /\ IdsAreDrawnOnce /\ RequestsAreOfAKey
        /\ SourcesAreWaiting /\ ResolvedIsListed /\ AnswersAreRight
    BY DEF RequestsIInv
  <1> DEFINE D == ToSet(CacheTimeoutList) \ ToSet(CacheTimeoutList')
  <1>1. /\ Ticker' = NowMS
        /\ CacheNodeMap' = [k \in Key |-> IF CacheNodeMap[k] \in D THEN None ELSE CacheNodeMap[k]]
        /\ RequestNodeManager' = RequestNodeManager \ D
        /\ Released' = Released \union D
        /\ CacheTimestampMS' = [r \in RequestId |-> IF r \in D THEN 0 ELSE CacheTimestampMS[r]]
        /\ State' = [r \in RequestId |-> IF r \in D THEN None ELSE State[r]]
        /\ DataNode' = [r \in RequestId |-> IF r \in D THEN None ELSE DataNode[r]]
        /\ UNCHANGED <<CacheKey, Asked>>
    BY DEF RequestTick, DestroyRequests
  <1>2. /\ DispatcherList' = << >>
        /\ RequestSources' =
             [r \in RequestId |->
                IF r \in ToSet(DispatcherList) \/ r \notin RequestNodeManager'
                  THEN {} ELSE RequestSources[r]]
    BY DEF RequestTick, DispatchResults
  <1>3. /\ RequestNodeManager \subseteq RequestId
        /\ None \notin RequestId /\ None \notin Key
        /\ Ticker \in Nat /\ NowMS \in Nat /\ Ticker <= NowMS
        /\ NowMS \in StartTime..MaxTime
        /\ \A r \in RequestId : CacheTimestampMS[r] \in Nat
    BY <1>0, RequestAssumption DEF RequestsTypeOK
  <1>4. /\ CacheTimeoutList' \in Seq(RequestId) /\ IsInjective(CacheTimeoutList')
        /\ ToSet(CacheTimeoutList') = RequestNodeManager \ D
        /\ ToSet(CacheTimeoutList) = RequestNodeManager
        /\ SortedBy(CacheTimeoutList', CacheTimestampMS)
    <2>1. /\ CacheTimeoutList \in Seq(RequestId) /\ IsInjective(CacheTimeoutList)
          /\ ToSet(CacheTimeoutList) = RequestNodeManager
          /\ SortedBy(CacheTimeoutList, CacheTimestampMS)
      BY <1>0 DEF RequestsTypeOK, CacheIsConsistent
    <2>2. CacheTimeoutList'
            = PopHeadWhile(CacheTimeoutList, StampedBy(NowMS - CacheTimeoutMS))
      BY DEF RequestTick
    <2>3. /\ CacheTimeoutList' \in Seq(RequestId) /\ IsInjective(CacheTimeoutList')
          /\ ToSet(CacheTimeoutList') \subseteq ToSet(CacheTimeoutList)
      BY <2>1, <2>2, PopHeadWhileProperties
    <2>4. SortedBy(CacheTimeoutList', CacheTimestampMS)
      BY <2>1, <2>2, PopHeadWhileSorted
    <2> QED
      BY <2>1, <2>3, <2>4
  <1>5. D \subseteq RequestNodeManager
    BY <1>4
  <1> HIDE DEF D
  <1>6. /\ \A r \in RequestNodeManager' :
             /\ r \in RequestNodeManager /\ r \in RequestId /\ r \notin D
             /\ CacheTimestampMS'[r] = CacheTimestampMS[r]
             /\ State'[r] = State[r] /\ DataNode'[r] = DataNode[r]
        /\ \A r \in RequestId : r \notin RequestNodeManager' => DataNode'[r] = None
    <2>1. \A r \in RequestId : r \notin RequestNodeManager' => DataNode'[r] = None
      BY <1>0, <1>1 DEF RequestsAreOfAKey
    <2> QED
      BY <1>1, <1>3, <2>1
  <1>7. SortedBy(CacheTimeoutList', CacheTimestampMS')
    <2>1. \A r \in ToSet(CacheTimeoutList') : CacheTimestampMS'[r] = CacheTimestampMS[r]
      BY <1>1, <1>4, <1>6
    <2> QED
      BY <1>4, <2>1, SortedByAgree
  <1>8. \A s \in Source :
          Answers'[s] = IF Served(s) = {} THEN Answers[s]
                        ELSE Append(Answers[s], DataNode[CHOOSE r \in Served(s) : TRUE])
    BY DEF RequestTick, DispatchResults
  <1>9. ASSUME NEW s \in Source, Served(s) # {}
        PROVE  /\ Asked[s] \in Key
               /\ Answers[s] = << >>
               /\ \E d \in {Asked[s], None} : Answers'[s] = << d >>
    <2>1. PICK r \in RequestNodeManager :
            /\ r \in ToSet(DispatcherList) /\ s \in RequestSources[r]
            /\ r = CHOOSE q \in Served(s) : TRUE
      BY <1>9, ServedOnce
    <2>2. /\ Asked[s] = CacheKey[r] /\ Answers[s] = << >>
          /\ CacheKey[r] \in Key /\ DataNode[r] \in {CacheKey[r], None}
      BY <1>0, <1>3, <2>1 DEF SourcesAreWaiting, RequestsAreOfAKey
    <2>3. Answers'[s] = Append(Answers[s], DataNode[r])
      BY <1>8, <1>9, <2>1
    <2>4. Answers'[s] = << DataNode[r] >>
      BY <2>2, <2>3
    <2> QED
      BY <2>2, <2>4
  <1>10. RequestsTypeOK'
    <2>1. /\ State' \in [RequestId -> States \union {None}]
          /\ DataNode' \in [RequestId -> Key \union {None}]
      BY <1>0, <1>1 DEF RequestsTypeOK
    <2>2. CacheTimestampMS' \in [RequestId -> Nat]
      BY <1>1, <1>3
    <2>3. /\ CacheNodeMap' \in [Key -> RequestId \union {None}]
          /\ RequestNodeManager' \subseteq RequestId
          /\ Released' \subseteq RequestId
      BY <1>0, <1>1, <1>3, <1>5 DEF RequestsTypeOK
    <2>4. RequestSources' \in [RequestId -> SUBSET Source]
      BY <1>0, <1>2 DEF RequestsTypeOK
    <2>5. Answers' \in [Source -> Seq(Key \union {None})]
      <3>1. Answers' = [s \in Source |-> Answers'[s]]
        BY DEF RequestTick, DispatchResults
      <3>2. ASSUME NEW s \in Source
            PROVE  Answers'[s] \in Seq(Key \union {None})
        <4>1. CASE Served(s) = {}
          <5>1. Answers'[s] = Answers[s]
            BY <1>8, <4>1
          <5>2. Answers[s] \in Seq(Key \union {None})
            BY <1>0 DEF RequestsTypeOK
          <5> QED
            BY <5>1, <5>2
        <4>2. CASE Served(s) # {}
          <5>1. PICK d \in Key \union {None} : Answers'[s] = << d >>
            BY <1>9, <4>2
          <5> QED
            BY <5>1
        <4> QED
          BY <4>1, <4>2
      <3> QED
        BY <3>1, <3>2
    <2>6. DispatcherList' \in Seq(RequestId)
      BY <1>2
    <2> QED
      BY <1>0, <1>1, <1>3, <1>4, <2>1, <2>2, <2>3, <2>4, <2>5, <2>6 DEF RequestsTypeOK
  <1>11. CacheIsConsistent'
    <2>1. \A r \in RequestId, k \in Key :
            CacheNodeMap'[k] = r <=> r \in RequestNodeManager' /\ CacheKey'[r] = k
      BY <1>0, <1>1, <1>3 DEF CacheIsConsistent
    <2>2. ToSet(DispatcherList') = {} /\ IsInjective(DispatcherList')
      BY <1>2 DEF ToSet, IsInjective
    <2>3. ToSet(CacheTimeoutList') = RequestNodeManager' /\ IsInjective(CacheTimeoutList')
      BY <1>1, <1>4
    <2> QED
      BY <1>7, <2>1, <2>2, <2>3 DEF CacheIsConsistent
  <1>12. IdsAreDrawnOnce'
    <2>1. RequestNodeManager' \intersect Released' = {}
      BY <1>0, <1>1 DEF IdsAreDrawnOnce
    <2>2. \A r \in RequestNodeManager' : CacheTimestampMS'[r] <= Ticker'
      BY <1>0, <1>1, <1>3, <1>6 DEF IdsAreDrawnOnce
    <2> QED
      BY <2>1, <2>2 DEF IdsAreDrawnOnce
  <1>13. RequestsAreOfAKey'
    BY <1>0, <1>1, <1>6 DEF RequestsAreOfAKey
  <1>14. SourcesAreWaiting'
    <2>1. ASSUME NEW r \in RequestId, NEW s \in RequestSources'[r]
          PROVE  r \in RequestNodeManager' /\ Asked'[s] = CacheKey'[r] /\ Answers'[s] = << >>
      <3>1. /\ r \notin ToSet(DispatcherList) /\ r \in RequestNodeManager'
            /\ s \in RequestSources[r]
        BY <1>2, <2>1
      <3>2. /\ r \in RequestNodeManager /\ Asked[s] = CacheKey[r] /\ Answers[s] = << >>
            /\ s \in Source
        BY <1>0, <3>1 DEF SourcesAreWaiting, RequestsTypeOK
      <3>3. Served(s) = {}
        <4> SUFFICES ASSUME NEW q \in Served(s) PROVE FALSE
          OBVIOUS
        <4>1. q \in ToSet(DispatcherList) /\ s \in RequestSources[q] /\ q \in RequestId
          BY <1>0, <1>3 DEF Served, CacheIsConsistent
        <4>2. q \in RequestNodeManager /\ Asked[s] = CacheKey[q]
          BY <1>0, <4>1 DEF SourcesAreWaiting
        <4>3. CacheKey[r] \in Key
          BY <1>0, <3>2 DEF RequestsAreOfAKey
        <4>4. CacheNodeMap[CacheKey[r]] = r /\ CacheNodeMap[CacheKey[r]] = q
          BY <1>0, <3>2, <4>1, <4>2, <4>3 DEF CacheIsConsistent
        <4> QED
          BY <3>1, <4>1, <4>4
      <3> QED
        BY <1>1, <1>8, <3>1, <3>2, <3>3
    <2>2. ASSUME NEW s \in Source, Asked'[s] = None
          PROVE  Answers'[s] = << >>
      <3>1. Served(s) = {}
        BY <1>1, <1>3, <1>9, <2>2
      <3> QED
        BY <1>0, <1>1, <1>8, <2>2, <3>1 DEF SourcesAreWaiting, Fresh
    <2> QED
      BY <2>1, <2>2 DEF SourcesAreWaiting, Fresh
  <1>15. ResolvedIsListed'
    BY <1>0, <1>2, <1>6 DEF ResolvedIsListed
  <1>16. AnswersAreRight'
    <2>1. SUFFICES ASSUME NEW s \in Source
                   PROVE  Len(Answers'[s]) <= 1 /\ ToSet(Answers'[s]) \subseteq {Asked'[s], None}
      BY DEF AnswersAreRight
    <2>2. CASE Served(s) = {}
      BY <1>0, <1>1, <1>8, <2>2 DEF AnswersAreRight
    <2>3. CASE Served(s) # {}
      <3>1. PICK d \in {Asked[s], None} : Answers'[s] = << d >>
        BY <1>9, <2>3
      <3>2. Len(<< d >>) = 1 /\ ToSet(<< d >>) = {d}
        BY DEF ToSet
      <3> QED
        BY <1>1, <3>1, <3>2
    <2> QED
      BY <2>2, <2>3
  <1> QED
    BY <1>10, <1>11, <1>12, <1>13, <1>14, <1>15, <1>16 DEF RequestsIInv

(* Every operation of the request manager keeps the invariant. *)
LEMMA RequestsStepIInv ==
    ASSUME RequestsIInv, [RequestsNext]_requestVars
    PROVE  RequestsIInv'
  <1>1. ASSUME UNCHANGED requestVars
        PROVE  RequestsIInv'
    <2>1. UNCHANGED <<CacheNodeMap, RequestNodeManager, Released, CacheKey,
                      CacheTimestampMS, State, DataNode, RequestSources,
                      CacheTimeoutList, DispatcherList, Ticker, Asked, Answers>>
      BY <1>1 DEF requestVars, nodes, history
    <2>2. RequestsTypeOK' /\ CacheIsConsistent'
      BY <2>1 DEF RequestsIInv, RequestsTypeOK, CacheIsConsistent
    <2>3. IdsAreDrawnOnce' /\ RequestsAreOfAKey' /\ SourcesAreWaiting'
      BY <2>1 DEF RequestsIInv, IdsAreDrawnOnce, RequestsAreOfAKey, SourcesAreWaiting, Fresh
    <2>4. ResolvedIsListed' /\ AnswersAreRight'
      BY <2>1 DEF RequestsIInv, ResolvedIsListed, AnswersAreRight
    <2> QED
      BY <2>2, <2>3, <2>4 DEF RequestsIInv
  <1>2. ASSUME NEW k \in Key, NEW s \in Source, NEW r \in RequestId, QueryNew(k, s, r)
        PROVE  RequestsIInv'
    BY <1>2, QueryNewIInv
  <1>3. ASSUME NEW k \in Key, NEW s \in Source, QueryRefused(k, s)
        PROVE  RequestsIInv'
    BY <1>1, <1>3 DEF QueryRefused
  <1>4. ASSUME NEW k \in Key, NEW s \in Source, QueryKnown(k, s)
        PROVE  RequestsIInv'
    BY <1>4, QueryKnownIInv
  <1>5. ASSUME NEW r \in RequestNodeManager \union Released, SetData(r, CacheKey[r])
        PROVE  RequestsIInv'
    BY <1>1, <1>5, ResolveIInv DEF SetData, Unknown
  <1>6. ASSUME NEW r \in RequestNodeManager \union Released, SetNoData(r)
        PROVE  RequestsIInv'
    BY <1>1, <1>6, ResolveIInv DEF SetNoData, Unknown
  <1>7. ASSUME NEW NowMS \in Ticker..MaxTime, RequestTick(NowMS)
        PROVE  RequestsIInv'
    BY <1>7, RequestTickIInv
  <1> QED
    BY <1>1, <1>2, <1>3, <1>4, <1>5, <1>6, <1>7 DEF RequestsNext

(* The inductive invariant of the request manager by itself: a result may come
   at any time, more than once, and after its request was destroyed. *)
THEOREM RequestsInductiveInvariant == RequestsSpec => []RequestsIInv
  BY RequestsInitIInv, RequestsStepIInv, PTL DEF RequestsSpec

(* Map, pool and lists of the request manager agree on which requests there
   are, whatever is asked and whenever a result comes. *)
THEOREM CacheCorrect == RequestsSpec => []CacheIsConsistent
  BY RequestsInductiveInvariant, PTL DEF RequestsIInv

(* A request that is resolved and owes someone an answer is in the list that
   the next Tick serves. *)
THEOREM ResolvedCorrect == RequestsSpec => []ResolvedIsListed
  BY RequestsInductiveInvariant, PTL DEF RequestsIInv

(* Nobody is answered twice, or with the data of another key. *)
THEOREM AnswersCorrect == RequestsSpec => []AnswersAreRight
  BY RequestsInductiveInvariant, PTL DEF RequestsIInv

(* A step that makes a source stop waiting without an answer is a Tick that
   destroys its request at the timeout, before there was any result. *)
LEMMA DropsOnlyUnresolved ==
    ASSUME RequestsIInv, [RequestsNext]_requestVars,
           NEW s \in Source, NEW r \in RequestId,
           r \in WaitsIn(s) \ WaitsIn(s)', Answers'[s] = Answers[s]
    PROVE  /\ State[r] = "QUERYING"
           /\ CacheTimestampMS[r] + CacheTimeoutMS <= Ticker'
  <1>1. /\ r \in RequestNodeManager /\ s \in RequestSources[r]
        /\ ~(r \in RequestNodeManager' /\ s \in RequestSources'[r])
    BY DEF WaitsIn
  <1>2. PICK NowMS \in Ticker..MaxTime : RequestTick(NowMS)
    <2>1. ~(UNCHANGED requestVars)
      BY <1>1 DEF requestVars, nodes
    <2>2. RequestSources \in [RequestId -> SUBSET Source]
      BY DEF RequestsIInv, RequestsTypeOK
    <2>3. ASSUME NEW k \in Key, NEW t \in Source, NEW q \in RequestId, QueryNew(k, t, q)
          PROVE  FALSE
      BY <1>1, <2>2, <2>3 DEF QueryNew, CanAcquire
    <2>4. ASSUME NEW k \in Key, NEW t \in Source, QueryKnown(k, t)
          PROVE  FALSE
      BY <1>1, <2>2, <2>4 DEF QueryKnown
    <2>5. \A q, state, data : ~Resolve(q, state, data)
      BY <1>1 DEF Resolve
    <2> QED
      BY <2>1, <2>3, <2>4, <2>5
      DEF RequestsNext, QueryRefused, SetData, SetNoData, Unknown
  <1>3. r \notin ToSet(DispatcherList)
    <2> SUFFICES ASSUME r \in ToSet(DispatcherList) PROVE FALSE
      OBVIOUS
    <2>1. r \in Served(s)
      BY <1>1 DEF Served
    <2>2. Answers'[s] = Append(Answers[s], DataNode[CHOOSE q \in Served(s) : TRUE])
      BY <1>2, <2>1 DEF RequestTick, DispatchResults
    <2>3. Answers[s] = << >>
      BY <1>1 DEF RequestsIInv, SourcesAreWaiting
    <2> QED
      BY <2>2, <2>3
  <1>4. State[r] = "QUERYING"
    BY <1>1, <1>3 DEF RequestsIInv, ResolvedIsListed
  <1>5. r \in StampedBy(NowMS - CacheTimeoutMS)
    <2>1. r \notin RequestNodeManager'
      BY <1>1, <1>2, <1>3 DEF RequestTick, DispatchResults
    <2>2. r \in ToSet(CacheTimeoutList) \ ToSet(CacheTimeoutList')
      BY <1>1, <1>2, <2>1 DEF RequestTick, DestroyRequests
    <2>3. CacheTimeoutList \in Seq(RequestId) /\ IsInjective(CacheTimeoutList)
      BY DEF RequestsIInv, RequestsTypeOK, CacheIsConsistent
    <2>4. CacheTimeoutList'
            = PopHeadWhile(CacheTimeoutList, StampedBy(NowMS - CacheTimeoutMS))
      BY <1>2 DEF RequestTick
    <2> QED
      BY <2>2, <2>3, <2>4, PopHeadWhileProperties
  <1>6. CacheTimestampMS[r] + CacheTimeoutMS <= Ticker'
    <2>1. CacheTimestampMS[r] <= NowMS - CacheTimeoutMS
      BY <1>5 DEF StampedBy
    <2>2. CacheTimestampMS[r] \in Nat /\ CacheTimeoutMS \in Nat /\ NowMS \in Int
      BY RequestAssumption DEF RequestsIInv, RequestsTypeOK
    <2>3. Ticker' = NowMS
      BY <1>2 DEF RequestTick
    <2> QED
      BY <2>1, <2>2, <2>3
  <1> QED
    BY <1>4, <1>6

(* Whoever stops waiting without an answer waited for a request that was
   destroyed at its timeout, before any result. *)
THEOREM DropsAreTimeouts == RequestsSpec => OnlyUnresolvedIsDropped
  <1>1. RequestsIInv /\ [RequestsNext]_requestVars =>
          [\A s \in Source, r \in RequestId :
             /\ r \in WaitsIn(s) \ WaitsIn(s)'
             /\ Answers'[s] = Answers[s]
             => /\ State[r] = "QUERYING"
                /\ CacheTimestampMS[r] + CacheTimeoutMS <= Ticker']_requestVars
    BY DropsOnlyUnresolved
  <1> QED
    BY <1>1, RequestsInductiveInvariant, PTL DEF RequestsSpec, OnlyUnresolvedIsDropped

-----------------------------------------------------------------------------
(* The dns service in the server: DnsService with the server's keys and ids, and
   what is proved of it.  The two instances are the same definitions under two
   names; SameInit, SameNext and SameInvariant say so. *)

ServiceProofs == INSTANCE DnsServiceProofs WITH Host <- Key, Context <- RequestId

(* The instance of the service in the server and the one in its proofs have
   the same initial states, ... *)
LEMMA SameInit == LocalDnsService!Init => ServiceProofs!Init
  BY DEF LocalDnsService!Init, ServiceProofs!Init, LocalDnsService!NoJob, ServiceProofs!NoJob

(* ... the same steps ... *)
LEMMA SameNext ==
    [LocalDnsService!Next]_LocalDnsService!dnsVars
      => [ServiceProofs!Next]_ServiceProofs!dnsVars
  <1>1. \A l, x : LocalDnsService!GrabTail(l, x) = ServiceProofs!GrabTail(l, x)
    BY DEF
      LocalDnsService!GrabTail, ServiceProofs!GrabTail, LocalDnsService!RemoveFirst,
      ServiceProofs!RemoveFirst, LocalDnsService!RemoveAt, ServiceProofs!RemoveAt,
      LocalDnsService!SelectInSeq, ServiceProofs!SelectInSeq, LocalDnsService!Min,
      ServiceProofs!Min
  <1>2. \A j \in Job, host \in Key, ctx \in RequestId :
          LocalDnsService!QueryAccepted(j, host, ctx)
            <=> ServiceProofs!QueryAccepted(j, host, ctx)
    BY <1>1 DEF
      LocalDnsService!QueryAccepted, ServiceProofs!QueryAccepted,
      LocalDnsService!Unallocated, ServiceProofs!Unallocated,
      LocalDnsService!HasRoom, ServiceProofs!HasRoom, LocalDnsService!PostJob,
      ServiceProofs!PostJob, LocalDnsService!NoJob, ServiceProofs!NoJob,
      LocalDnsService!threadVars, ServiceProofs!threadVars
  <1>3. LocalDnsService!QueryRefused <=> ServiceProofs!QueryRefused
    BY DEF
      LocalDnsService!QueryRefused, ServiceProofs!QueryRefused,
      LocalDnsService!HasRoom, ServiceProofs!HasRoom, LocalDnsService!dnsVars,
      ServiceProofs!dnsVars, LocalDnsService!threadVars, ServiceProofs!threadVars
  <1>4. \A w \in Worker : LocalDnsService!Work(w) <=> ServiceProofs!Work(w)
    BY <1>1 DEF
      LocalDnsService!Work, ServiceProofs!Work, LocalDnsService!TakeJob,
      ServiceProofs!TakeJob, LocalDnsService!Exit, ServiceProofs!Exit,
      LocalDnsService!Finish, ServiceProofs!Finish, LocalDnsService!Notify,
      ServiceProofs!Notify
  <1>5. LocalDnsService!Collect <=> ServiceProofs!Collect
    BY DEF
      LocalDnsService!Collect, ServiceProofs!Collect, LocalDnsService!Wake,
      ServiceProofs!Wake, LocalDnsService!GrabResults, ServiceProofs!GrabResults,
      LocalDnsService!ReportResult, ServiceProofs!ReportResult,
      LocalDnsService!DispatchEnds, ServiceProofs!DispatchEnds,
      LocalDnsService!Drain, ServiceProofs!Drain, LocalDnsService!DrainEnds,
      ServiceProofs!DrainEnds, LocalDnsService!AllJoined, ServiceProofs!AllJoined,
      LocalDnsService!NoJob, ServiceProofs!NoJob, LocalDnsService!threadVars,
      ServiceProofs!threadVars
  <1>6. LocalDnsService!Stop <=> ServiceProofs!Stop
    BY DEF
      LocalDnsService!Stop, ServiceProofs!Stop, LocalDnsService!threadVars,
      ServiceProofs!threadVars, LocalDnsService!Cardinality,
      ServiceProofs!Cardinality
  <1>7. LocalDnsService!dnsVars = ServiceProofs!dnsVars
    BY DEF
      LocalDnsService!dnsVars, ServiceProofs!dnsVars, LocalDnsService!threadVars,
      ServiceProofs!threadVars
  <1> QED
    BY <1>2, <1>3, <1>4, <1>5, <1>6, <1>7 DEF
      LocalDnsService!Next, ServiceProofs!Next, LocalDnsService!dnsVars,
      ServiceProofs!dnsVars, LocalDnsService!threadVars, ServiceProofs!threadVars

(* ... and the same invariant, ... *)
LEMMA SameInvariant == LocalDnsService!IInv <=> ServiceProofs!IInv
  BY DEF
    LocalDnsService!IInv, ServiceProofs!IInv, LocalDnsService!TypeOK,
    ServiceProofs!TypeOK, LocalDnsService!CounterIsExact,
    ServiceProofs!CounterIsExact, LocalDnsService!JobsInOnePlace,
    ServiceProofs!JobsInOnePlace, LocalDnsService!HoldsWhileLookingUp,
    ServiceProofs!HoldsWhileLookingUp, LocalDnsService!JobsNameTheirHost,
    ServiceProofs!JobsNameTheirHost, LocalDnsService!PermitsAreExact,
    ServiceProofs!PermitsAreExact, LocalDnsService!OwnerPhases,
    ServiceProofs!OwnerPhases, LocalDnsService!WorkersServeUntilClean,
    ServiceProofs!WorkersServeUntilClean, LocalDnsService!NoLostWakeup,
    ServiceProofs!NoLostWakeup, LocalDnsService!Alive, ServiceProofs!Alive,
    LocalDnsService!NoJob, ServiceProofs!NoJob, LocalDnsService!DnsJob,
    ServiceProofs!DnsJob, LocalDnsService!WorkerStates, ServiceProofs!WorkerStates,
    LocalDnsService!OwnerStates, ServiceProofs!OwnerStates, LocalDnsService!Serving,
    ServiceProofs!Serving, LocalDnsService!Places, ServiceProofs!Places,
    LocalDnsService!ToSet, ServiceProofs!ToSet, LocalDnsService!IsInjective,
    ServiceProofs!IsInjective, LocalDnsService!IsFiniteSet,
    ServiceProofs!IsFiniteSet, LocalDnsService!Cardinality, ServiceProofs!Cardinality

(* ... before a step and after it. *)
LEMMA SameInvariantNext == LocalDnsService!IInv' <=> ServiceProofs!IInv'
  BY SameInvariant, PTL

(* What DnsServiceProofs assumes of its constants holds of the server's. *)
LEMMA ServiceAssumptionHolds ==
    /\ MaxDnsJob \in Nat \ {0}
    /\ ServiceProofs!IsFiniteSet(Worker) /\ Worker # {}
    /\ None \notin Key \union RequestId
  BY ServiceAssumption, RequestAssumption DEF ServiceProofs!IsFiniteSet, IsFiniteSet

(* So the service in the server starts in its invariant ... *)
LEMMA ServiceInit == LocalDnsService!Init => LocalDnsService!IInv
  BY SameInit, SameInvariant, ServiceProofs!InitIInv, ServiceAssumptionHolds

(* ... and its steps keep it. *)
LEMMA ServiceStep ==
    ASSUME LocalDnsService!IInv, [LocalDnsService!Next]_LocalDnsService!dnsVars
    PROVE  LocalDnsService!IInv'
  BY SameNext, SameInvariant, SameInvariantNext, ServiceProofs!StepIInv, ServiceAssumptionHolds

(* Every step of the server is one of its dns service, or leaves it alone. *)
LEMMA StepIsServiceStep ==
    [Next]_vars => [LocalDnsService!Next]_LocalDnsService!dnsVars
  <1> SUFFICES ASSUME [Next]_vars
               PROVE  LocalDnsService!Next \/ UNCHANGED LocalDnsService!dnsVars
    OBVIOUS
  <1>1. UNCHANGED serviceVars => UNCHANGED LocalDnsService!dnsVars
    BY DEF serviceVars, LocalDnsService!dnsVars, LocalDnsService!threadVars
  <1>2. CASE UNCHANGED vars
    BY <1>1, <1>2 DEF vars
  <1>3. ASSUME NEW k \in Key, NEW s \in Source, OnPacket(k, s)
        PROVE  LocalDnsService!Next \/ UNCHANGED LocalDnsService!dnsVars
    BY <1>1, <1>3 DEF OnPacket, PostRequest, LocalDnsService!Next
  <1>4. CASE ServerStep
    BY <1>4 DEF ServerStep, LoopEnds, GetResults, OnLocalDnsResult, TickEnds,
                LocalDnsService!Next, LocalDnsService!Collect
  <1>5. ASSUME NEW w \in Worker, WorkerStep(w)
        PROVE  LocalDnsService!Next \/ UNCHANGED LocalDnsService!dnsVars
    BY <1>5 DEF WorkerStep, LocalDnsService!Next
  <1> QED
    BY <1>2, <1>3, <1>4, <1>5 DEF Next

(* What the server uses is the dns service: queries, collecting and the threads
   are steps of it. *)
THEOREM ServerUsesService == Spec => LocalDnsService!Spec
  <1>1. Init => LocalDnsService!Init
    BY DEF Init
  <1> QED
    BY <1>1, StepIsServiceStep, PTL DEF Spec, LocalDnsService!Spec

(* The facts about the jobs that the request manager needs. *)
LEMMA ServiceFacts ==
    ASSUME LocalDnsService!IInv
    PROVE  /\ JobOf \in [Job -> [host: Key \union {None}, ctx: RequestId \union {None},
                                 result: Key \union {None}]]
           /\ JL \in Seq(Job) /\ IsInjective(JL)
           /\ FinishedDnsJobList \in Seq(Job) /\ IsInjective(FinishedDnsJobList)
           /\ ToSet(JL) \subseteq LocalDnsService!Alive
           /\ ToSet(FinishedDnsJobList) \subseteq LocalDnsService!Alive
           /\ \A w \in Worker : holding[w] \subseteq LocalDnsService!Alive
           /\ \A j \in LocalDnsService!Alive : JobOf[j].host \in Key
  <1>1. /\ LocalDnsService!TypeOK /\ LocalDnsService!CounterIsExact
        /\ LocalDnsService!JobsInOnePlace /\ LocalDnsService!JobsNameTheirHost
    BY DEF LocalDnsService!IInv
  <1>2. /\ JobOf \in [Job -> [host: Key \union {None}, ctx: RequestId \union {None},
                              result: Key \union {None}]]
        /\ JL \in Seq(Job) /\ FinishedDnsJobList \in Seq(Job)
    BY <1>1 DEF LocalDnsService!TypeOK, LocalDnsService!DnsJob
  <1>3. IsInjective(JL) /\ IsInjective(FinishedDnsJobList)
    BY <1>1 DEF LocalDnsService!JobsInOnePlace, LocalDnsService!IsInjective, IsInjective
  <1>4. /\ ToSet(JL) = LocalDnsService!ToSet(JL)
        /\ ToSet(FinishedDnsJobList) = LocalDnsService!ToSet(FinishedDnsJobList)
    BY DEF ToSet, LocalDnsService!ToSet
  <1>5. /\ DOMAIN LocalDnsService!Places = 1..3
        /\ LocalDnsService!Places[2] = FinishedDnsJobList
        /\ LocalDnsService!Places[3] = JL
    BY DEF LocalDnsService!Places
  <1>6. LocalDnsService!Alive
          = (UNION {LocalDnsService!ToSet(LocalDnsService!Places[i]) :
                      i \in DOMAIN LocalDnsService!Places})
              \union (UNION {holding[w] : w \in Worker})
    BY <1>1 DEF LocalDnsService!CounterIsExact
  <1>7. /\ LocalDnsService!ToSet(JL) \subseteq LocalDnsService!Alive
        /\ LocalDnsService!ToSet(FinishedDnsJobList) \subseteq LocalDnsService!Alive
    <2>1. 2 \in DOMAIN LocalDnsService!Places /\ 3 \in DOMAIN LocalDnsService!Places
      BY <1>5
    <2> QED
      BY <1>5, <1>6, <2>1
  <1>8. \A w \in Worker : holding[w] \subseteq LocalDnsService!Alive
    BY <1>6
  <1>9. \A j \in LocalDnsService!Alive : JobOf[j].host \in Key
    BY <1>1 DEF LocalDnsService!JobsNameTheirHost
  <1> QED
    BY <1>2, <1>3, <1>4, <1>7, <1>8, <1>9

-----------------------------------------------------------------------------
(* The request manager in the server. *)

(* What OnLocalDnsResult gives to the request manager: the head of the collected
   jobs, with the data of the key its request is for. *)
LEMMA ResultIsOfTheRequest ==
    ASSUME ServerIInv, OnLocalDnsResult
    PROVE  \E j \in LocalDnsService!Alive :
             /\ j \in ToSet(JL)
             /\ JobOf[j].ctx \in RequestNodeManager \union Released
             /\ SetData(JobOf[j].ctx, CacheKey[JobOf[j].ctx])
             /\ JobOf' = [JobOf EXCEPT ![j] = LocalDnsService!NoJob]
             /\ JL' \in Seq(Job) /\ ToSet(JL') = ToSet(JL) \ {j}
             /\ UNCHANGED <<FinishedDnsJobList, owner, Now>>
  <1>1. JL \in Seq(Job) /\ IsInjective(JL) /\ ToSet(JL) \subseteq LocalDnsService!Alive
    BY ServiceFacts DEF ServerIInv
  <1>2. JL # << >>
    BY DEF OnLocalDnsResult, LocalDnsService!ReportResult
  <1>3. /\ Head(JL) \in ToSet(JL) /\ Head(JL) \in LocalDnsService!Alive
        /\ Tail(JL) \in Seq(Job) /\ ToSet(Tail(JL)) = ToSet(JL) \ {Head(JL)}
    BY <1>1, <1>2, HeadTailOfInjective
  <1> DEFINE j == Head(JL)
  <1>4. /\ SetData(JobOf[j].ctx, JobOf[j].result)
        /\ JobOf' = [JobOf EXCEPT ![j] = LocalDnsService!NoJob]
        /\ JL' = Tail(JL)
        /\ UNCHANGED <<FinishedDnsJobList, owner, Now>>
    BY DEF OnLocalDnsResult, LocalDnsService!ReportResult
  <1>5. /\ JobOf[j].ctx \in RequestNodeManager \union Released
        /\ JobOf[j].result = CacheKey[JobOf[j].ctx]
    BY <1>3 DEF ServerIInv, JobsBelongToRequests
  <1> QED
    BY <1>3, <1>4, <1>5

(* Every step of the server is one of its request manager, or leaves that
   alone. *)
LEMMA StepIsRequestsStep ==
    ASSUME ServerIInv, [Next]_vars
    PROVE  [RequestsNext]_requestVars
  <1>1. CASE UNCHANGED vars
    BY <1>1 DEF vars
  <1>2. ASSUME NEW k \in Key, NEW s \in Source, OnPacket(k, s)
        PROVE  RequestsNext
    BY <1>2 DEF OnPacket, RequestsNext
  <1>3. CASE LoopEnds \/ GetResults
    BY <1>3 DEF LoopEnds, GetResults
  <1>4. CASE OnLocalDnsResult
    BY <1>4, ResultIsOfTheRequest DEF RequestsNext
  <1>5. CASE TickEnds
    <2>1. Now \in Ticker..MaxTime
      BY DEF ServerIInv, ServerIsTicking
    <2> QED
      BY <1>5, <2>1 DEF TickEnds, RequestsNext
  <1>6. ASSUME NEW w \in Worker, WorkerStep(w)
        PROVE  UNCHANGED requestVars
    BY <1>6 DEF WorkerStep
  <1> QED
    BY <1>1, <1>2, <1>3, <1>4, <1>5, <1>6 DEF Next, ServerStep

(* Nothing of the two parts that JobsBelongToRequests speaks of has changed. *)
LEMMA JobsBelongUntouched ==
    ASSUME JobsBelongToRequests,
           RequestNodeManager \union Released
             \subseteq RequestNodeManager' \union Released',
           UNCHANGED <<CacheKey, State, JobOf>>,
           ToSet(FinishedDnsJobList') \union ToSet(JL')
             \subseteq ToSet(FinishedDnsJobList) \union ToSet(JL)
    PROVE  JobsBelongToRequests'
  <1>1. LocalDnsService!Alive' = LocalDnsService!Alive
    BY DEF LocalDnsService!Alive
  <1> QED
    BY <1>1 DEF JobsBelongToRequests

(* A job is posted for a request that has none and has no data yet. *)
LEMMA OnPacketBelong ==
    ASSUME ServerIInv, NEW k \in Key, NEW s \in Source, OnPacket(k, s)
    PROVE  JobsBelongToRequests'
  <1>0. /\ RequestsIInv /\ LocalDnsService!IInv /\ JobsBelongToRequests
    BY DEF ServerIInv
  <1>1. CASE UNCHANGED serviceVars /\ UNCHANGED <<CacheKey, State, RequestNodeManager, Released>>
    BY <1>0, <1>1, JobsBelongUntouched DEF serviceVars
  <1>2. CASE QueryRefused(k, s) /\ UNCHANGED serviceVars
    BY <1>1, <1>2 DEF QueryRefused, requestVars, nodes
  <1>3. CASE QueryKnown(k, s) /\ UNCHANGED serviceVars
    BY <1>1, <1>3 DEF QueryKnown
  <1>4. ASSUME NEW r \in RequestId, QueryNew(k, s, r), PostRequest(k, r)
        PROVE  JobsBelongToRequests'
    <2>1. /\ r \notin RequestNodeManager /\ r \notin Released
          /\ RequestNodeManager' = RequestNodeManager \union {r} /\ Released' = Released
          /\ CacheKey' = [CacheKey EXCEPT ![r] = k]
          /\ State' = [State EXCEPT ![r] = "QUERYING"]
          /\ CacheKey \in [RequestId -> Key \union {None}]
          /\ State \in [RequestId -> States \union {None}]
          /\ RequestNodeManager \union Released \subseteq RequestId
      BY <1>0, <1>4 DEF QueryNew, CanAcquire, RequestsIInv, RequestsTypeOK
    <2>2. \A q \in RequestNodeManager \union Released :
            q # r /\ CacheKey'[q] = CacheKey[q] /\ State'[q] = State[q]
      BY <2>1
    <2>3. CASE LocalDnsService!QueryRefused
      <3>1. UNCHANGED <<JobOf, FinishedDnsJobList, JL>>
        BY <2>3 DEF LocalDnsService!QueryRefused, LocalDnsService!dnsVars
      <3>2. LocalDnsService!Alive' = LocalDnsService!Alive
        BY <3>1 DEF LocalDnsService!Alive
      <3>3. \A j \in LocalDnsService!Alive' :
               /\ JobOf'[j].ctx \in RequestNodeManager' \union Released'
               /\ JobOf'[j].host = CacheKey'[JobOf'[j].ctx]
               /\ State'[JobOf'[j].ctx] # "READY"
        BY <1>0, <2>1, <2>2, <3>1, <3>2 DEF JobsBelongToRequests
      <3> QED
        BY <1>0, <3>1, <3>2, <3>3 DEF JobsBelongToRequests
    <2>4. ASSUME NEW j \in Job, LocalDnsService!QueryAccepted(j, k, r)
          PROVE  JobsBelongToRequests'
      <3>1. /\ j \notin LocalDnsService!Alive
            /\ JobOf' = [JobOf EXCEPT ![j] =
                           [LocalDnsService!NoJob EXCEPT !.host = k, !.ctx = r]]
            /\ UNCHANGED <<FinishedDnsJobList, JL>>
        BY <2>4 DEF LocalDnsService!QueryAccepted, LocalDnsService!Unallocated,
                    LocalDnsService!Alive
      <3>2. /\ \A i \in Job \ {j} : JobOf'[i] = JobOf[i]
            /\ JobOf'[j].host = k /\ JobOf'[j].ctx = r
        BY <1>0, <3>1, ServiceFacts DEF LocalDnsService!NoJob
      <3>3. LocalDnsService!Alive' \subseteq LocalDnsService!Alive \union {j}
        BY <3>2 DEF LocalDnsService!Alive
      <3>4. CacheKey'[r] = k /\ State'[r] = "QUERYING"
        BY <2>1
      <3>5. \A i \in LocalDnsService!Alive' \ {j} :
               /\ i \in LocalDnsService!Alive /\ JobOf'[i] = JobOf[i]
               /\ JobOf'[i].ctx \in RequestNodeManager \union Released
        BY <1>0, <3>2, <3>3 DEF LocalDnsService!Alive, JobsBelongToRequests
      <3>6. \A i \in LocalDnsService!Alive' :
               /\ JobOf'[i].ctx \in RequestNodeManager' \union Released'
               /\ JobOf'[i].host = CacheKey'[JobOf'[i].ctx]
               /\ State'[JobOf'[i].ctx] # "READY"
        BY <1>0, <2>1, <2>2, <3>2, <3>4, <3>5 DEF JobsBelongToRequests
      <3>7. \A i, h \in LocalDnsService!Alive' : JobOf'[i].ctx = JobOf'[h].ctx => i = h
        BY <1>0, <2>2, <3>2, <3>5 DEF JobsBelongToRequests
      <3>8. \A i \in ToSet(FinishedDnsJobList) \union ToSet(JL) :
               JobOf'[i].result = JobOf'[i].host
        <4>1. \A i \in ToSet(FinishedDnsJobList) \union ToSet(JL) :
                 i \in LocalDnsService!Alive
          BY <1>0, ServiceFacts
        <4>2. \A i \in LocalDnsService!Alive : i \in Job
          BY DEF LocalDnsService!Alive
        <4> QED
          BY <1>0, <3>1, <3>2, <4>1, <4>2 DEF JobsBelongToRequests
      <3> QED
        BY <3>1, <3>6, <3>7, <3>8 DEF JobsBelongToRequests
    <2> QED
      BY <1>4, <2>3, <2>4 DEF PostRequest
  <1> QED
    BY <1>2, <1>3, <1>4 DEF OnPacket

(* The job whose result is delivered is deleted with it. *)
LEMMA OnLocalDnsResultBelong ==
    ASSUME ServerIInv, OnLocalDnsResult
    PROVE  JobsBelongToRequests'
  <1>0. /\ RequestsIInv /\ LocalDnsService!IInv /\ JobsBelongToRequests
    BY DEF ServerIInv
  <1>1. PICK j \in LocalDnsService!Alive :
          /\ j \in ToSet(JL)
          /\ SetData(JobOf[j].ctx, CacheKey[JobOf[j].ctx])
          /\ JobOf' = [JobOf EXCEPT ![j] = LocalDnsService!NoJob]
          /\ ToSet(JL') = ToSet(JL) \ {j}
          /\ UNCHANGED FinishedDnsJobList
    BY ResultIsOfTheRequest
  <1>2. /\ LocalDnsService!Alive' = LocalDnsService!Alive \ {j}
        /\ \A i \in Job \ {j} : JobOf'[i] = JobOf[i]
    BY <1>0, <1>1, ServiceFacts DEF LocalDnsService!Alive
  <1>3. /\ UNCHANGED <<RequestNodeManager, Released, CacheKey>>
        /\ \A q \in RequestId : q # JobOf[j].ctx => State'[q] = State[q]
    <2>1. State \in [RequestId -> States \union {None}]
      BY <1>0 DEF RequestsIInv, RequestsTypeOK
    <2> QED
      BY <1>1, <2>1 DEF SetData, Resolve, Unknown, requestVars, nodes
  <1>4. \A i \in LocalDnsService!Alive' :
          /\ i \in Job /\ i \in LocalDnsService!Alive /\ i # j
          /\ JobOf'[i] = JobOf[i] /\ JobOf[i].ctx # JobOf[j].ctx
          /\ JobOf[i].ctx \in RequestNodeManager \union Released
          /\ JobOf[i].ctx \in RequestId
    <2>1. RequestNodeManager \union Released \subseteq RequestId
      BY <1>0 DEF RequestsIInv, RequestsTypeOK
    <2> QED
      BY <1>0, <1>2, <2>1 DEF JobsBelongToRequests, LocalDnsService!Alive
  <1>5. \A i \in LocalDnsService!Alive' :
          /\ JobOf'[i].ctx \in RequestNodeManager' \union Released'
          /\ JobOf'[i].host = CacheKey'[JobOf'[i].ctx]
          /\ State'[JobOf'[i].ctx] # "READY"
    BY <1>0, <1>3, <1>4 DEF JobsBelongToRequests
  <1>6. \A i, h \in LocalDnsService!Alive' : JobOf'[i].ctx = JobOf'[h].ctx => i = h
    BY <1>0, <1>4 DEF JobsBelongToRequests
  <1>7. \A i \in ToSet(FinishedDnsJobList') \union ToSet(JL') :
          JobOf'[i].result = JobOf'[i].host
    <2>1. \A i \in ToSet(FinishedDnsJobList) \union ToSet(JL) : i \in Job
      BY <1>0, ServiceFacts DEF LocalDnsService!Alive
    <2>2. JobOf'[j].result = JobOf'[j].host
      BY <1>0, <1>1, ServiceFacts DEF LocalDnsService!NoJob, LocalDnsService!Alive
    <2>3. \A i \in Job : i = j \/ JobOf'[i] = JobOf[i]
      BY <1>2
    <2>4. ToSet(FinishedDnsJobList') \union ToSet(JL')
            \subseteq ToSet(FinishedDnsJobList) \union ToSet(JL)
      BY <1>1
    <2> QED
      BY <1>0, <2>1, <2>2, <2>3, <2>4 DEF JobsBelongToRequests
  <1> QED
    BY <1>5, <1>6, <1>7 DEF JobsBelongToRequests

(* A request that Tick destroys leaves its job to an id that is never drawn
   again. *)
LEMMA TickEndsBelong ==
    ASSUME ServerIInv, TickEnds
    PROVE  JobsBelongToRequests'
  <1>0. /\ RequestsIInv /\ JobsBelongToRequests
    BY DEF ServerIInv
  <1>1. UNCHANGED <<JobOf, FinishedDnsJobList, JL>>
    BY DEF TickEnds, LocalDnsService!DispatchEnds
  <1>2. /\ RequestNodeManager \union Released = RequestNodeManager' \union Released'
        /\ CacheKey' = CacheKey
        /\ \A r \in RequestId : State'[r] \in {State[r], None}
    <2> DEFINE D == ToSet(CacheTimeoutList) \ ToSet(CacheTimeoutList')
    <2>1. /\ RequestNodeManager' = RequestNodeManager \ D
          /\ Released' = Released \union D
          /\ State' = [r \in RequestId |-> IF r \in D THEN None ELSE State[r]]
          /\ CacheKey' = CacheKey
      BY DEF TickEnds, RequestTick, DestroyRequests
    <2>2. D \subseteq RequestNodeManager
      BY <1>0 DEF RequestsIInv, CacheIsConsistent
    <2> HIDE DEF D
    <2> QED
      BY <2>1, <2>2
  <1>3. LocalDnsService!Alive' = LocalDnsService!Alive
    BY <1>1 DEF LocalDnsService!Alive
  <1>4. \A j \in LocalDnsService!Alive : State'[JobOf[j].ctx] # "READY"
    <2>1. RequestNodeManager \union Released \subseteq RequestId
      BY <1>0 DEF RequestsIInv, RequestsTypeOK
    <2>2. ASSUME NEW j \in LocalDnsService!Alive
          PROVE  State'[JobOf[j].ctx] # "READY"
      <3>1. JobOf[j].ctx \in RequestId /\ State[JobOf[j].ctx] # "READY"
        BY <1>0, <2>1 DEF JobsBelongToRequests
      <3> QED
        BY <1>2, <3>1, RequestAssumption DEF States
    <2> QED
      BY <2>2
  <1> QED
    BY <1>0, <1>1, <1>2, <1>3, <1>4 DEF JobsBelongToRequests

(* The threads move a job and give it its result, of its own key. *)
LEMMA WorkerStepBelong ==
    ASSUME ServerIInv, NEW w \in Worker, WorkerStep(w)
    PROVE  JobsBelongToRequests'
  <1>0. /\ RequestsIInv /\ LocalDnsService!IInv /\ JobsBelongToRequests
    BY DEF ServerIInv
  <1>1. UNCHANGED <<RequestNodeManager, Released, CacheKey, State>>
    BY DEF WorkerStep, requestVars, nodes
  <1>2. CASE UNCHANGED <<JobOf, FinishedDnsJobList, JL>>
    BY <1>0, <1>1, <1>2, JobsBelongUntouched
  <1>3. CASE LocalDnsService!TakeJob(w) \/ LocalDnsService!Exit(w) \/ LocalDnsService!Notify(w)
    BY <1>2, <1>3
    DEF LocalDnsService!TakeJob, LocalDnsService!Exit, LocalDnsService!Notify
  <1>4. ASSUME NEW j \in Job, LocalDnsService!Finish(w, j)
        PROVE  JobsBelongToRequests'
    <2>1. /\ JobOf \in [Job -> [host: Key \union {None}, ctx: RequestId \union {None},
                                result: Key \union {None}]]
          /\ FinishedDnsJobList \in Seq(Job) /\ IsInjective(FinishedDnsJobList)
          /\ holding[w] \subseteq LocalDnsService!Alive
          /\ ToSet(FinishedDnsJobList) \subseteq Job /\ ToSet(JL) \subseteq Job
      BY <1>0, ServiceFacts DEF LocalDnsService!Alive
    <2>2. /\ j \in holding[w]
          /\ JobOf' = [JobOf EXCEPT ![j].result = JobOf[j].host]
          /\ FinishedDnsJobList' = LocalDnsService!GrabTail(FinishedDnsJobList, j)
          /\ JL' = JL
      BY <1>4 DEF LocalDnsService!Finish
    <2>3. /\ JobOf'[j].host = JobOf[j].host /\ JobOf'[j].ctx = JobOf[j].ctx
          /\ JobOf'[j].result = JobOf'[j].host
          /\ \A i \in Job \ {j} : JobOf'[i] = JobOf[i]
      BY <2>1, <2>2
    <2>4. ToSet(FinishedDnsJobList') = ToSet(FinishedDnsJobList) \union {j}
      <3>1. LocalDnsService!GrabTail(FinishedDnsJobList, j) = GrabTail(FinishedDnsJobList, j)
        BY DEF LocalDnsService!GrabTail, GrabTail, LocalDnsService!RemoveFirst, RemoveFirst,
               LocalDnsService!RemoveAt, RemoveAt, LocalDnsService!SelectInSeq, SelectInSeq,
               LocalDnsService!Min, Min
      <3> QED
        BY <2>1, <2>2, <3>1, GrabTailProperties
    <2>5. LocalDnsService!Alive' \subseteq LocalDnsService!Alive
      BY <2>1, <2>2, <2>3 DEF LocalDnsService!Alive
    <2>6. \A i \in LocalDnsService!Alive' :
            /\ i \in LocalDnsService!Alive
            /\ JobOf'[i].host = JobOf[i].host /\ JobOf'[i].ctx = JobOf[i].ctx
      BY <2>3, <2>5 DEF LocalDnsService!Alive
    <2>7. \A i \in LocalDnsService!Alive' :
            /\ JobOf'[i].ctx \in RequestNodeManager' \union Released'
            /\ JobOf'[i].host = CacheKey'[JobOf'[i].ctx]
            /\ State'[JobOf'[i].ctx] # "READY"
      BY <1>0, <1>1, <2>6 DEF JobsBelongToRequests
    <2>8. \A i, h \in LocalDnsService!Alive' : JobOf'[i].ctx = JobOf'[h].ctx => i = h
      BY <1>0, <2>6 DEF JobsBelongToRequests
    <2>9. \A i \in ToSet(FinishedDnsJobList') \union ToSet(JL') :
            JobOf'[i].result = JobOf'[i].host
      BY <1>0, <2>1, <2>2, <2>3, <2>4 DEF JobsBelongToRequests
    <2> QED
      BY <2>7, <2>8, <2>9 DEF JobsBelongToRequests
  <1> QED
    BY <1>3, <1>4 DEF WorkerStep, LocalDnsService!Work

(* The clock of the cache runs only within the Tick of the server. *)
LEMMA ServerTicks ==
    ASSUME ServerIInv, [Next]_vars
    PROVE  ServerIsTicking'
  <1>0. /\ owner \in {"idle", "awake", "dispatching"} /\ Now \in Ticker..MaxTime
        /\ Ticker \in Nat /\ MaxTime \in Nat
    BY RequestAssumption DEF ServerIInv, ServerIsTicking, RequestsIInv, RequestsTypeOK
  <1>1. CASE UNCHANGED <<owner, Now, Ticker>>
    BY <1>0, <1>1 DEF ServerIsTicking
  <1>2. CASE UNCHANGED vars
    BY <1>1, <1>2 DEF vars, serviceVars, requestVars
  <1>3. ASSUME NEW k \in Key, NEW s \in Source, OnPacket(k, s)
        PROVE  ServerIsTicking'
    <2>1. UNCHANGED <<owner, Now, Ticker>>
      BY <1>3 DEF OnPacket, PostRequest, QueryNew, QueryRefused, QueryKnown, serviceVars,
                  requestVars, LocalDnsService!QueryAccepted, LocalDnsService!QueryRefused,
                  LocalDnsService!dnsVars
    <2> QED
      BY <1>1, <2>1
  <1>4. CASE LoopEnds \/ GetResults
    <2>1. owner' \in {"awake", "dispatching"} /\ UNCHANGED <<Now, Ticker>>
      BY <1>4 DEF LoopEnds, GetResults, LocalDnsService!Wake, LocalDnsService!GrabResults,
                  requestVars
    <2> QED
      BY <1>0, <2>1 DEF ServerIsTicking
  <1>5. CASE OnLocalDnsResult
    <2>1. UNCHANGED <<owner, Now, Ticker>>
      BY <1>5 DEF OnLocalDnsResult, LocalDnsService!ReportResult, SetData, Resolve, Unknown,
                  requestVars
    <2> QED
      BY <1>1, <2>1
  <1>6. CASE TickEnds
    <2>1. owner' = "idle" /\ Ticker' = Now /\ Now' \in Now..MaxTime
      BY <1>6 DEF TickEnds, RequestTick, LocalDnsService!DispatchEnds
    <2> QED
      BY <1>0, <2>1 DEF ServerIsTicking
  <1>7. ASSUME NEW w \in Worker, WorkerStep(w)
        PROVE  ServerIsTicking'
    <2>1. UNCHANGED <<owner, Now, Ticker>>
      BY <1>7 DEF WorkerStep, requestVars, LocalDnsService!Work, LocalDnsService!TakeJob,
                  LocalDnsService!Exit, LocalDnsService!Finish, LocalDnsService!Notify
    <2> QED
      BY <1>1, <2>1
  <1> QED
    BY <1>2, <1>3, <1>4, <1>5, <1>6, <1>7 DEF Next, ServerStep

(* The server starts with an empty cache and an idle service. *)
LEMMA ServerInitIInv == Init => ServerIInv
  <1> SUFFICES ASSUME Init PROVE ServerIInv
    OBVIOUS
  <1>1. RequestsIInv /\ LocalDnsService!IInv
    BY RequestsInitIInv, ServiceInit DEF Init
  <1>2. JobsBelongToRequests
    <2>1. LocalDnsService!Alive = {}
      BY DEF Init, LocalDnsService!Init, LocalDnsService!Alive
    <2>2. ToSet(FinishedDnsJobList) = {} /\ ToSet(JL) = {}
      BY DEF Init, LocalDnsService!Init, ToSet
    <2> QED
      BY <2>1, <2>2 DEF JobsBelongToRequests
  <1>3. ServerIsTicking
    BY RequestAssumption DEF Init, LocalDnsService!Init, RequestsInit, ServerIsTicking
  <1> QED
    BY <1>1, <1>2, <1>3 DEF ServerIInv

(* Every step of the server keeps the invariant. *)
LEMMA ServerStepIInv ==
    ASSUME ServerIInv, [Next]_vars
    PROVE  ServerIInv'
  <1>1. RequestsIInv'
    BY StepIsRequestsStep, RequestsStepIInv DEF ServerIInv
  <1>2. LocalDnsService!IInv'
    BY StepIsServiceStep, ServiceStep DEF ServerIInv
  <1>3. JobsBelongToRequests'
    <2>1. CASE UNCHANGED vars
      BY <2>1, JobsBelongUntouched DEF vars, requestVars, nodes, serviceVars, ServerIInv
    <2>2. CASE LoopEnds \/ GetResults
      <3>1. UNCHANGED <<RequestNodeManager, Released, CacheKey, State, JobOf>>
        BY <2>2 DEF LoopEnds, GetResults, requestVars, nodes, LocalDnsService!Wake,
                    LocalDnsService!GrabResults
      <3>2. ToSet(FinishedDnsJobList') \union ToSet(JL')
              \subseteq ToSet(FinishedDnsJobList) \union ToSet(JL)
        <4>1. ToSet(<< >>) = {}
          BY DEF ToSet
        <4>2. \/ FinishedDnsJobList' = FinishedDnsJobList /\ JL' = JL
              \/ FinishedDnsJobList' = << >> /\ JL' = FinishedDnsJobList
          BY <2>2 DEF LoopEnds, GetResults, LocalDnsService!Wake,
                      LocalDnsService!GrabResults
        <4> QED
          BY <4>1, <4>2
      <3> QED
        BY <3>1, <3>2, JobsBelongUntouched DEF ServerIInv
    <2> QED
      BY <2>1, <2>2, OnPacketBelong, OnLocalDnsResultBelong, TickEndsBelong,
         WorkerStepBelong DEF Next, ServerStep
  <1>4. ServerIsTicking'
    BY ServerTicks
  <1> QED
    BY <1>1, <1>2, <1>3, <1>4 DEF ServerIInv

(* The inductive invariant of the server: those of its two parts, and which
   job belongs to which request. *)
THEOREM ServerInductiveInvariant == Spec => []ServerIInv
  BY ServerInitIInv, ServerStepIInv, PTL DEF Spec

(* The variables of the cache, of the service and of the server have their
   types. *)
THEOREM TypeCorrect == Spec => []TypeOK
  <1>1. ServerIInv => TypeOK
    BY DEF ServerIInv, ServerIsTicking, RequestsIInv, LocalDnsService!IInv, TypeOK
  <1> QED
    BY <1>1, ServerInductiveInvariant, PTL

(* The server is a request manager: what it does with the results of the dns
   service is what the manager allows, a result for the key of its request. *)
THEOREM ServerIsRequestManager == Spec => RequestsSpec
  <1>1. Init => RequestsInit
    BY DEF Init
  <1>2. ServerIInv /\ [Next]_vars => [RequestsNext]_requestVars
    BY StepIsRequestsStep
  <1> QED
    BY <1>1, <1>2, ServerInductiveInvariant, PTL DEF Spec, RequestsSpec

(* The manager's properties hold in the server. *)
THEOREM ServerAnswersCorrect ==
    Spec => [](CacheIsConsistent /\ ResolvedIsListed /\ AnswersAreRight)
  BY ServerInductiveInvariant, PTL DEF ServerIInv, RequestsIInv

(* In the server too, nobody is dropped but at the timeout of an unresolved
   request. *)
THEOREM ServerDropsAreTimeouts == Spec => OnlyUnresolvedIsDropped
  BY ServerIsRequestManager, DropsAreTimeouts

(* A request has one job at most, for its own key, and none once its data is
   there. *)
THEOREM OneLookupEach == Spec => []OneJobPerRequest
  <1>1. ServerIInv => OneJobPerRequest
    <2> SUFFICES ASSUME ServerIInv, NEW r \in RequestId
                 PROVE  /\ Cardinality(JobsFor(r)) <= 1
                        /\ \A j \in JobsFor(r) : JobOf[j].host = CacheKey[r]
                        /\ JobsFor(r) # {} => State[r] # "READY"
      BY DEF OneJobPerRequest
    <2>1. \A j \in JobsFor(r) : j \in LocalDnsService!Alive /\ JobOf[j].ctx = r
      BY RequestAssumption DEF JobsFor, LocalDnsService!Alive, LocalDnsService!NoJob
    <2>2. \A i, j \in JobsFor(r) : i = j
      BY <2>1 DEF ServerIInv, JobsBelongToRequests
    <2>3. JobsFor(r) = {} \/ \E j : JobsFor(r) = {j}
      BY <2>2
    <2>4. Cardinality(JobsFor(r)) <= 1
      <3>1. CASE JobsFor(r) = {}
        BY <3>1, FS_EmptySet
      <3>2. ASSUME NEW j, JobsFor(r) = {j}
            PROVE  Cardinality(JobsFor(r)) <= 1
        BY <3>2, FS_Singleton
      <3> QED
        BY <2>3, <3>1, <3>2
    <2> QED
      BY <2>1, <2>4 DEF ServerIInv, JobsBelongToRequests
  <1> QED
    BY <1>1, ServerInductiveInvariant, PTL

-----------------------------------------------------------------------------
(* Lookups are not lost. *)

(* The jobs somebody has are those that were allocated and not deleted. *)
LEMMA InHandIsAlive == LocalDnsService!IInv => InHand = LocalDnsService!Alive
  <1> SUFFICES ASSUME LocalDnsService!IInv PROVE InHand = LocalDnsService!Alive
    OBVIOUS
  <1>1. /\ DOMAIN LocalDnsService!Places = 1..3
        /\ LocalDnsService!Places[1] = JobList
        /\ LocalDnsService!Places[2] = FinishedDnsJobList
        /\ LocalDnsService!Places[3] = JL
    BY DEF LocalDnsService!Places
  <1>2. LocalDnsService!Alive
          = (UNION {LocalDnsService!ToSet(LocalDnsService!Places[i]) :
                      i \in DOMAIN LocalDnsService!Places})
              \union (UNION {holding[w] : w \in Worker})
    BY DEF LocalDnsService!IInv, LocalDnsService!CounterIsExact
  <1>3. UNION {LocalDnsService!ToSet(LocalDnsService!Places[i]) :
                 i \in DOMAIN LocalDnsService!Places}
          = LocalDnsService!ToSet(JobList) \union LocalDnsService!ToSet(FinishedDnsJobList)
              \union LocalDnsService!ToSet(JL)
    BY <1>1
  <1>4. /\ ToSet(JobList) = LocalDnsService!ToSet(JobList)
        /\ ToSet(FinishedDnsJobList) = LocalDnsService!ToSet(FinishedDnsJobList)
        /\ ToSet(JL) = LocalDnsService!ToSet(JL)
    BY DEF ToSet, LocalDnsService!ToSet
  <1> QED
    BY <1>2, <1>3, <1>4 DEF InHand

(* After a step, too. *)
LEMMA InHandIsAliveNext == LocalDnsService!IInv' => (InHand = LocalDnsService!Alive)'
  BY InHandIsAlive, PTL

(* A request was forlorn before if it was there and QUERYING, and its job, if it
   had one, is still there. *)
LEMMA LookupKept ==
    ASSUME ServerIInv, ServerIInv', NEW r \in RequestId, Forlorn(r)',
           r \in RequestNodeManager, State[r] = "QUERYING",
           \A j \in LocalDnsService!Alive :
             JobOf[j].ctx = r => j \in LocalDnsService!Alive' /\ JobOf'[j].ctx = r
    PROVE  Forlorn(r)
  <1>1. InHand = LocalDnsService!Alive /\ InHand' = LocalDnsService!Alive'
    BY InHandIsAlive, InHandIsAliveNext DEF ServerIInv
  <1> QED
    BY <1>1 DEF Forlorn

(* A request that is made has a job, unless there was no room for one. *)
LEMMA OnPacketLosesNone ==
    ASSUME ServerIInv, ServerIInv', NEW k \in Key, NEW s \in Source, OnPacket(k, s),
           NEW r \in RequestId, Forlorn(r)'
    PROVE  Forlorn(r) \/ (r \notin RequestNodeManager /\ ~LocalDnsService!HasRoom)
  <1>0. /\ LocalDnsService!IInv
        /\ State \in [RequestId -> States \union {None}]
        /\ r \in RequestNodeManager' /\ State'[r] = "QUERYING"
    BY DEF ServerIInv, RequestsIInv, RequestsTypeOK, Forlorn
  <1>1. CASE UNCHANGED <<RequestNodeManager, State, JobOf>>
    BY <1>0, <1>1, LookupKept DEF LocalDnsService!Alive
  <1>2. CASE (QueryRefused(k, s) \/ QueryKnown(k, s)) /\ UNCHANGED serviceVars
    BY <1>1, <1>2 DEF QueryRefused, QueryKnown, requestVars, nodes, serviceVars
  <1>3. ASSUME NEW q \in RequestId, QueryNew(k, s, q), PostRequest(k, q)
        PROVE  Forlorn(r) \/ (r \notin RequestNodeManager /\ ~LocalDnsService!HasRoom)
    <2>1. /\ q \notin RequestNodeManager
          /\ RequestNodeManager' = RequestNodeManager \union {q}
          /\ State' = [State EXCEPT ![q] = "QUERYING"]
      BY <1>3 DEF QueryNew, CanAcquire
    <2>2. CASE LocalDnsService!QueryRefused
      <3>1. ~LocalDnsService!HasRoom /\ UNCHANGED JobOf
        BY <2>2 DEF LocalDnsService!QueryRefused, LocalDnsService!dnsVars
      <3>2. CASE r = q
        BY <2>1, <3>1, <3>2
      <3>3. CASE r # q
        <4>1. r \in RequestNodeManager /\ State[r] = "QUERYING"
          BY <1>0, <2>1, <3>3
        <4> QED
          BY <3>1, <4>1, LookupKept DEF LocalDnsService!Alive
      <3> QED
        BY <3>2, <3>3
    <2>3. ASSUME NEW j \in Job, LocalDnsService!QueryAccepted(j, k, q)
          PROVE  Forlorn(r)
      <3>1. /\ j \notin LocalDnsService!Alive
            /\ JobOf' = [JobOf EXCEPT ![j] =
                           [LocalDnsService!NoJob EXCEPT !.host = k, !.ctx = q]]
        BY <2>3 DEF LocalDnsService!QueryAccepted, LocalDnsService!Unallocated,
                    LocalDnsService!Alive
      <3>2. /\ \A i \in Job \ {j} : JobOf'[i] = JobOf[i]
            /\ JobOf'[j].host = k /\ JobOf'[j].ctx = q
        BY <1>0, <3>1, ServiceFacts DEF LocalDnsService!NoJob
      <3>3. /\ \A i \in LocalDnsService!Alive : i \in LocalDnsService!Alive' /\ JobOf'[i] = JobOf[i]
            /\ j \in LocalDnsService!Alive'
        <4>1. k # LocalDnsService!NoJob.host
          BY RequestAssumption DEF LocalDnsService!NoJob
        <4>2. j \in LocalDnsService!Alive'
          BY <3>2, <4>1 DEF LocalDnsService!Alive
        <4> QED
          BY <3>1, <3>2, <4>2 DEF LocalDnsService!Alive
      <3>4. r # q
        <4>1. j \in InHand'
          BY <3>3, InHandIsAliveNext DEF ServerIInv
        <4> QED
          BY <3>2, <4>1 DEF Forlorn
      <3>5. r \in RequestNodeManager /\ State[r] = "QUERYING"
        BY <1>0, <2>1, <3>4
      <3> QED
        BY <3>3, <3>5, LookupKept
    <2> QED
      BY <1>3, <2>2, <2>3 DEF PostRequest
  <1> QED
    BY <1>2, <1>3 DEF OnPacket

(* A result that is delivered resolves the request its job was for, if that is
   still there, and no other loses its job. *)
LEMMA OnLocalDnsResultLosesNone ==
    ASSUME ServerIInv, ServerIInv', OnLocalDnsResult, NEW r \in RequestId, Forlorn(r)'
    PROVE  Forlorn(r)
  <1>0. /\ LocalDnsService!IInv
        /\ State \in [RequestId -> States \union {None}]
        /\ r \in RequestNodeManager' /\ State'[r] = "QUERYING"
    BY DEF ServerIInv, RequestsIInv, RequestsTypeOK, Forlorn
  <1>1. PICK j \in LocalDnsService!Alive :
          /\ SetData(JobOf[j].ctx, CacheKey[JobOf[j].ctx])
          /\ JobOf' = [JobOf EXCEPT ![j] = LocalDnsService!NoJob]
    BY ResultIsOfTheRequest
  <1>2. RequestNodeManager' = RequestNodeManager
    BY <1>1 DEF SetData, Resolve, Unknown, requestVars
  <1>3. JobOf[j].ctx # r /\ State'[r] = State[r]
    <2>1. CASE Unknown(JobOf[j].ctx)
      BY <1>0, <1>2, <2>1 DEF Unknown, requestVars, nodes
    <2>2. CASE Resolve(JobOf[j].ctx, "READY", CacheKey[JobOf[j].ctx])
      <3>1. State' = [State EXCEPT ![JobOf[j].ctx] = "READY"]
        BY <2>2 DEF Resolve
      <3> QED
        BY <1>0, <3>1
    <2> QED
      BY <1>1, <2>1, <2>2 DEF SetData
  <1>4. \A i \in LocalDnsService!Alive :
          JobOf[i].ctx = r => i \in LocalDnsService!Alive' /\ JobOf'[i].ctx = r
    <2>1. \A i \in Job \ {j} : JobOf'[i] = JobOf[i]
      BY <1>0, <1>1, ServiceFacts DEF LocalDnsService!Alive
    <2> QED
      BY <1>3, <2>1 DEF LocalDnsService!Alive
  <1> QED
    BY <1>0, <1>2, <1>3, <1>4, LookupKept

(* A thread keeps the job it works on. *)
LEMMA WorkerStepLosesNone ==
    ASSUME ServerIInv, ServerIInv', NEW w \in Worker, WorkerStep(w),
           NEW r \in RequestId, Forlorn(r)'
    PROVE  Forlorn(r)
  <1>0. /\ LocalDnsService!IInv
        /\ r \in RequestNodeManager' /\ State'[r] = "QUERYING"
    BY DEF ServerIInv, Forlorn
  <1>1. r \in RequestNodeManager /\ State[r] = "QUERYING"
    BY <1>0 DEF WorkerStep, requestVars, nodes
  <1>2. CASE UNCHANGED JobOf
    BY <1>1, <1>2, LookupKept DEF LocalDnsService!Alive
  <1>3. CASE LocalDnsService!TakeJob(w) \/ LocalDnsService!Exit(w) \/ LocalDnsService!Notify(w)
    BY <1>2, <1>3
    DEF LocalDnsService!TakeJob, LocalDnsService!Exit, LocalDnsService!Notify
  <1>4. ASSUME NEW j \in Job, LocalDnsService!Finish(w, j)
        PROVE  Forlorn(r)
    <2>1. j \in LocalDnsService!Alive
      BY <1>0, <1>4, ServiceFacts DEF LocalDnsService!Finish
    <2>2. /\ JobOf'[j].host = JobOf[j].host /\ JobOf'[j].ctx = JobOf[j].ctx
          /\ \A i \in Job \ {j} : JobOf'[i] = JobOf[i]
      BY <1>0, <1>4, ServiceFacts DEF LocalDnsService!Finish
    <2>3. j \in LocalDnsService!Alive'
      <3>1. JobOf'[j].host \in Key
        BY <1>0, <2>1, <2>2, ServiceFacts
      <3> QED
        BY <3>1, RequestAssumption DEF LocalDnsService!Alive, LocalDnsService!NoJob
    <2>4. \A i \in LocalDnsService!Alive :
            i \in LocalDnsService!Alive' /\ JobOf'[i].ctx = JobOf[i].ctx
      BY <2>2, <2>3 DEF LocalDnsService!Alive
    <2> QED
      BY <1>1, <2>4, LookupKept
  <1> QED
    BY <1>3, <1>4 DEF WorkerStep, LocalDnsService!Work

(* Every way of losing a lookup: the io loop, the collection and the timeouts
   take no job and make no request QUERYING. *)
THEOREM LookupsAreNotLost == Spec => NoLookupIsLost
  <1>1. ASSUME ServerIInv, ServerIInv', [Next]_vars, NEW r \in RequestId, Forlorn(r)'
        PROVE  Forlorn(r) \/ (r \notin RequestNodeManager /\ ~LocalDnsService!HasRoom)
    <2>0. /\ r \in RequestNodeManager' /\ State'[r] = "QUERYING"
          /\ State \in [RequestId -> States \union {None}]
      BY <1>1 DEF ServerIInv, RequestsIInv, RequestsTypeOK, Forlorn
    <2>1. CASE UNCHANGED <<RequestNodeManager, State, JobOf>>
      BY <1>1, <2>0, <2>1, LookupKept DEF LocalDnsService!Alive
    <2>2. CASE UNCHANGED vars \/ LoopEnds \/ GetResults
      BY <2>1, <2>2 DEF vars, serviceVars, requestVars, nodes, LoopEnds, GetResults,
                        LocalDnsService!Wake, LocalDnsService!GrabResults
    <2>3. CASE TickEnds
      <3> DEFINE D == ToSet(CacheTimeoutList) \ ToSet(CacheTimeoutList')
      <3>1. /\ RequestNodeManager' = RequestNodeManager \ D
            /\ State' = [q \in RequestId |-> IF q \in D THEN None ELSE State[q]]
            /\ UNCHANGED JobOf
        BY <2>3 DEF TickEnds, RequestTick, DestroyRequests, LocalDnsService!DispatchEnds
      <3> HIDE DEF D
      <3>2. r \in RequestNodeManager /\ State[r] = "QUERYING"
        BY <2>0, <3>1
      <3> QED
        BY <1>1, <3>1, <3>2, LookupKept DEF LocalDnsService!Alive
    <2> QED
      BY <1>1, <2>2, <2>3, OnPacketLosesNone, OnLocalDnsResultLosesNone, WorkerStepLosesNone
         DEF Next, ServerStep
  <1>2. ServerIInv /\ ServerIInv' /\ [Next]_vars =>
          \A r \in RequestId :
            Forlorn(r)' => \/ Forlorn(r)
                           \/ r \notin RequestNodeManager /\ ~LocalDnsService!HasRoom
    BY <1>1
  <1> QED
    BY <1>2, ServerInductiveInvariant, PTL DEF Spec, NoLookupIsLost

=============================================================================
