------------------------ MODULE ProxyConnectionsProofs ------------------------
(***************************************************************************)
(* The lists of xRD_ProxyConnectionManager are sound and implement the    *)
(* reaper, for every set of connections, capacity, timeouts and clock.     *)
(***************************************************************************)
EXTENDS ProxyConnections, XListTheorems

(* The invariant holds at the start. *)
LEMMA InitIInv == Init => IInv
  <1> SUFFICES ASSUME Init PROVE IInv
    OBVIOUS
  <1>1. TypeOK
    BY TimeAssumption DEF Init, InitExceptClock, TypeOK
  <1>2. EachInOneList
    BY DEF Init, InitExceptClock, EachInOneList, IsInjective, ToSet
  <1>3. StampsArePast
    BY TimeAssumption DEF Init, InitExceptClock, StampsArePast
  <1>4. ListsInStampOrder
    BY DEF Init, InitExceptClock, ListsInStampOrder, SortedBy
  <1>5. NoOverdueSurvivor
    BY DEF Init, InitExceptClock, NoOverdueSurvivor, ToSet
  <1>6. ChallengeDecidesList
    BY DEF Init, InitExceptClock, ChallengeDecidesList, ToSet
  <1> QED
    BY <1>1, <1>2, <1>3, <1>4, <1>5, <1>6 DEF IInv

(* A new connection goes to the tail of the new list; no stamp is later than
   its own. *)
LEMMA CreateIInv ==
    ASSUME IInv, NEW c \in Conn, CreateConnection(c)
    PROVE  IInv'
  <1>0. /\ TypeOK /\ EachInOneList /\ ChallengeDecidesList
        /\ StampsArePast /\ ListsInStampOrder /\ NoOverdueSurvivor
    BY DEF IInv
  <1>1. /\ c \notin ConnectionIdManager /\ c \notin Released
        /\ c \notin ToSet(ChallengeConnectionList)
        /\ c \notin ToSet(IdleConnectionList)
    BY <1>0 DEF CreateConnection, CanAcquire, EachInOneList
  <1>2. /\ ChallengeConnectionList' \in Seq(Conn)
        /\ IsInjective(ChallengeConnectionList')
        /\ ToSet(ChallengeConnectionList') = ToSet(ChallengeConnectionList) \union {c}
    BY <1>0, GrabTailProperties DEF CreateConnection, TypeOK, EachInOneList
  <1>3. /\ IdleTimestampMS' \in [Conn -> Nat]
        /\ IdleTimestampMS'[c] = Ticker
        /\ \A x \in Conn \ {c} : IdleTimestampMS'[x] = IdleTimestampMS[x]
    BY <1>0, TimeAssumption DEF CreateConnection, TypeOK
  <1>4. /\ ToSet(ChallengeConnectionList) \subseteq Conn
        /\ ToSet(IdleConnectionList) \subseteq Conn
    BY <1>0 DEF TypeOK, ToSet
  <1>5. TypeOK'
    BY <1>0, <1>2, <1>3 DEF CreateConnection, TypeOK
  <1>6. EachInOneList'
    BY <1>0, <1>1, <1>2 DEF CreateConnection, EachInOneList, TypeOK
  <1>7. StampsArePast'
    BY <1>0, <1>1, <1>3, TimeAssumption DEF CreateConnection, StampsArePast, TypeOK
  <1>8. ListsInStampOrder'
    <2>1. SortedBy(ChallengeConnectionList', IdleTimestampMS')
      <3>1. \A x \in ToSet(ChallengeConnectionList) \ {c} :
              /\ IdleTimestampMS'[x] = IdleTimestampMS[x]
              /\ IdleTimestampMS'[x] <= IdleTimestampMS'[c]
        BY <1>0, <1>3, <1>4 DEF StampsArePast
      <3> QED
        BY <1>0, <3>1, GrabTailSorted
           DEF CreateConnection, TypeOK, EachInOneList, ListsInStampOrder
    <2>2. SortedBy(IdleConnectionList', IdleTimestampMS')
      <3>1. \A x \in ToSet(IdleConnectionList) : IdleTimestampMS'[x] = IdleTimestampMS[x]
        BY <1>1, <1>3, <1>4
      <3>2. SortedBy(IdleConnectionList, IdleTimestampMS')
        BY <1>0, <3>1, SortedByAgree DEF ListsInStampOrder, TypeOK
      <3> QED
        BY <3>2 DEF CreateConnection
    <2> QED
      BY <2>1, <2>2 DEF ListsInStampOrder
  <1>9. NoOverdueSurvivor'
    BY <1>0, <1>1, <1>2, <1>3, <1>4, TimeAssumption
       DEF CreateConnection, NoOverdueSurvivor, TypeOK
  <1>10. ChallengeDecidesList'
    BY <1>0, <1>1, <1>2 DEF CreateConnection, ChallengeDecidesList
  <1> QED
    BY <1>5, <1>6, <1>7, <1>8, <1>9, <1>10 DEF IInv

(* A creation that fails gives its id back and touches no list. *)
LEMMA CreateFailsIInv ==
    ASSUME IInv, NEW c \in Conn, CreateConnectionFails(c)
    PROVE  IInv'
  <1>1. TypeOK'
    BY DEF IInv, CreateConnectionFails, CanAcquire, TypeOK, lists
  <1>2. EachInOneList'
    BY DEF IInv, CreateConnectionFails, EachInOneList, lists
  <1>3. StampsArePast'
    BY DEF IInv, CreateConnectionFails, CanAcquire, StampsArePast, lists
  <1>4. ListsInStampOrder' /\ NoOverdueSurvivor' /\ ChallengeDecidesList'
    BY DEF IInv, CreateConnectionFails, ListsInStampOrder, NoOverdueSurvivor,
           ChallengeDecidesList, lists
  <1> QED
    BY <1>1, <1>2, <1>3, <1>4 DEF IInv

(* A call that returns early changes nothing. *)
LEMMA StutterIInv ==
    ASSUME IInv, UNCHANGED vars
    PROVE  IInv'
  BY DEF IInv, vars, lists, TypeOK, EachInOneList, ChallengeDecidesList,
         StampsArePast, ListsInStampOrder, NoOverdueSurvivor

(* A connection that is not released is unlinked from wherever it is. *)
LEMMA UnlinkConnection ==
    ASSUME TypeOK, EachInOneList, ListsInStampOrder, NEW c \in Conn
    PROVE  /\ RemoveFirst(ChallengeConnectionList, c) \in Seq(Conn)
           /\ IsInjective(RemoveFirst(ChallengeConnectionList, c))
           /\ ToSet(RemoveFirst(ChallengeConnectionList, c)) = ToSet(ChallengeConnectionList) \ {c}
           /\ SortedBy(RemoveFirst(ChallengeConnectionList, c), IdleTimestampMS)
           /\ RemoveFirst(IdleConnectionList, c) \in Seq(Conn)
           /\ IsInjective(RemoveFirst(IdleConnectionList, c))
           /\ ToSet(RemoveFirst(IdleConnectionList, c)) = ToSet(IdleConnectionList) \ {c}
           /\ SortedBy(RemoveFirst(IdleConnectionList, c), IdleTimestampMS)
           /\ RemoveFirst(KillConnectionList, c) \in Seq(Conn)
           /\ IsInjective(RemoveFirst(KillConnectionList, c))
           /\ ToSet(RemoveFirst(KillConnectionList, c)) = ToSet(KillConnectionList) \ {c}
  <1>1. /\ ChallengeConnectionList \in Seq(Conn) /\ IsInjective(ChallengeConnectionList)
        /\ IdleConnectionList \in Seq(Conn) /\ IsInjective(IdleConnectionList)
        /\ KillConnectionList \in Seq(Conn) /\ IsInjective(KillConnectionList)
        /\ SortedBy(ChallengeConnectionList, IdleTimestampMS)
        /\ SortedBy(IdleConnectionList, IdleTimestampMS)
    BY DEF TypeOK, EachInOneList, ListsInStampOrder
  <1> QED
    BY <1>1, RemoveFirstProperties, RemoveFirstSorted

(* A challenged connection that is not released moves to the idle list. *)
LEMMA MoveToIdleIInv ==
    ASSUME IInv, NEW c \in Conn,
           c \in ConnectionIdManager, c \notin Marked,
           MoveToIdle(c),
           ChallengeReady' = ChallengeReady \union {c},
           UNCHANGED <<ConnectionIdManager, Released, Marked, Ticker>>
    PROVE  IInv'
  <1>0. /\ TypeOK /\ EachInOneList /\ ChallengeDecidesList
        /\ StampsArePast /\ ListsInStampOrder /\ NoOverdueSurvivor
    BY DEF IInv
  <1>1. /\ IdleTimestampMS' = [IdleTimestampMS EXCEPT ![c] = Ticker]
        /\ IdleConnectionList' = GrabTail(IdleConnectionList, c)
        /\ ChallengeConnectionList' = RemoveFirst(ChallengeConnectionList, c)
        /\ KillConnectionList' = RemoveFirst(KillConnectionList, c)
    BY DEF MoveToIdle
  <1>2. /\ IdleConnectionList' \in Seq(Conn)
        /\ IsInjective(IdleConnectionList')
        /\ ToSet(IdleConnectionList') = ToSet(IdleConnectionList) \union {c}
    BY <1>0, <1>1, GrabTailProperties DEF TypeOK, EachInOneList
  <1>3. /\ ChallengeConnectionList' \in Seq(Conn)
        /\ IsInjective(ChallengeConnectionList')
        /\ ToSet(ChallengeConnectionList') = ToSet(ChallengeConnectionList) \ {c}
        /\ SortedBy(ChallengeConnectionList', IdleTimestampMS)
        /\ KillConnectionList' \in Seq(Conn)
        /\ IsInjective(KillConnectionList')
        /\ ToSet(KillConnectionList') = ToSet(KillConnectionList) \ {c}
    BY <1>0, <1>1, UnlinkConnection
  <1>4. /\ IdleTimestampMS' \in [Conn -> Nat]
        /\ IdleTimestampMS'[c] = Ticker
        /\ \A x \in Conn \ {c} : IdleTimestampMS'[x] = IdleTimestampMS[x]
    BY <1>0, <1>1, TimeAssumption DEF TypeOK
  <1>5. /\ ToSet(ChallengeConnectionList) \subseteq Conn
        /\ ToSet(IdleConnectionList) \subseteq Conn
    BY <1>0 DEF TypeOK, ToSet
  <1>6. TypeOK'
    BY <1>0, <1>1, <1>2, <1>3, <1>4 DEF TypeOK
  <1>7. EachInOneList'
    BY <1>0, <1>1, <1>2, <1>3 DEF EachInOneList
  <1>8. ChallengeDecidesList'
    BY <1>0, <1>2, <1>3 DEF ChallengeDecidesList
  <1>9. StampsArePast'
    BY <1>0, <1>1, <1>4, TimeAssumption DEF StampsArePast, TypeOK
  <1>10. ListsInStampOrder'
    <2>1. SortedBy(ChallengeConnectionList', IdleTimestampMS')
      <3>1. \A x \in ToSet(ChallengeConnectionList') :
              IdleTimestampMS'[x] = IdleTimestampMS[x]
        BY <1>3, <1>4, <1>5
      <3> QED
        BY <1>3, <3>1, SortedByAgree
    <2>2. SortedBy(IdleConnectionList', IdleTimestampMS')
      <3>1. \A x \in ToSet(IdleConnectionList) \ {c} :
              /\ IdleTimestampMS'[x] = IdleTimestampMS[x]
              /\ IdleTimestampMS'[x] <= IdleTimestampMS'[c]
        BY <1>0, <1>4, <1>5 DEF StampsArePast
      <3> QED
        BY <1>0, <1>1, <3>1, GrabTailSorted
           DEF TypeOK, EachInOneList, ListsInStampOrder
    <2> QED
      BY <2>1, <2>2 DEF ListsInStampOrder
  <1>11. NoOverdueSurvivor'
    BY <1>0, <1>1, <1>2, <1>3, <1>4, <1>5, TimeAssumption
       DEF NoOverdueSurvivor, TypeOK
  <1> QED
    BY <1>6, <1>7, <1>8, <1>9, <1>10, <1>11 DEF IInv

(* KeepAlive of a challenged connection puts it at the tail of the idle list.
   *)
LEMMA KeepAliveIInv ==
    ASSUME IInv, NEW c \in Conn, KeepAlive(c)
    PROVE  IInv'
  <1>1. CASE c \in Marked \/ c \notin ChallengeReady
    BY <1>1, StutterIInv DEF KeepAlive
  <1>2. CASE c \in ChallengeReady \ Marked
    <2>1. ChallengeReady' = ChallengeReady \union {c}
      BY <1>2 DEF KeepAlive
    <2> QED
      BY <1>2, <2>1, MoveToIdleIInv DEF KeepAlive
  <1> QED
    BY <1>1, <1>2

(* The accepted challenge moves the connection from the new to the idle list.
   *)
LEMMA AcceptChallengeIInv ==
    ASSUME IInv, NEW c \in Conn, AcceptChallenge(c)
    PROVE  IInv'
  <1>1. CASE c \in Marked
    <2>1. /\ UNCHANGED <<IdleTimestampMS, lists>>
          /\ UNCHANGED <<ConnectionIdManager, Released, Marked, Ticker>>
          /\ c \in ConnectionIdManager
          /\ ChallengeReady' = ChallengeReady \union {c}
      BY <1>1 DEF AcceptChallenge
    <2>2. TypeOK'
      BY <2>1 DEF IInv, TypeOK, lists
    <2>3. EachInOneList' /\ StampsArePast' /\ ListsInStampOrder' /\ NoOverdueSurvivor'
      BY <2>1 DEF IInv, EachInOneList, StampsArePast, ListsInStampOrder,
                  NoOverdueSurvivor, lists
    <2>4. ChallengeDecidesList'
      BY <1>1, <2>1 DEF IInv, EachInOneList, ChallengeDecidesList, lists
    <2> QED
      BY <2>2, <2>3, <2>4 DEF IInv
  <1>2. CASE c \notin Marked
    BY <1>2, MoveToIdleIInv DEF AcceptChallenge
  <1> QED
    BY <1>1, <1>2

(* A released connection is in the kill list only, whichever list it comes
   from. *)
LEMMA DeferReleaseIInv ==
    ASSUME IInv, NEW c \in Conn, DeferReleaseConnection(c)
    PROVE  IInv'
  <1>0. /\ TypeOK /\ EachInOneList /\ ChallengeDecidesList
        /\ StampsArePast /\ ListsInStampOrder /\ NoOverdueSurvivor
    BY DEF IInv
  <1>1. CASE c \in Marked
    BY <1>1, StutterIInv DEF DeferReleaseConnection
  <1>2. CASE c \notin Marked
    <2>1. /\ c \in ConnectionIdManager
          /\ Marked' = Marked \union {c}
          /\ KillConnectionList' = GrabTail(KillConnectionList, c)
          /\ ChallengeConnectionList' = RemoveFirst(ChallengeConnectionList, c)
          /\ IdleConnectionList' = RemoveFirst(IdleConnectionList, c)
          /\ UNCHANGED <<ConnectionIdManager, Released, ChallengeReady,
                         IdleTimestampMS, Ticker>>
      BY <1>2 DEF DeferReleaseConnection
    <2>2. /\ KillConnectionList' \in Seq(Conn)
          /\ IsInjective(KillConnectionList')
          /\ ToSet(KillConnectionList') = ToSet(KillConnectionList) \union {c}
      BY <1>0, <2>1, GrabTailProperties DEF TypeOK, EachInOneList
    <2>3. /\ ChallengeConnectionList' \in Seq(Conn)
          /\ IsInjective(ChallengeConnectionList')
          /\ ToSet(ChallengeConnectionList') = ToSet(ChallengeConnectionList) \ {c}
          /\ SortedBy(ChallengeConnectionList', IdleTimestampMS)
          /\ IdleConnectionList' \in Seq(Conn)
          /\ IsInjective(IdleConnectionList')
          /\ ToSet(IdleConnectionList') = ToSet(IdleConnectionList) \ {c}
          /\ SortedBy(IdleConnectionList', IdleTimestampMS)
      BY <1>0, <2>1, UnlinkConnection
    <2>4. TypeOK'
      BY <1>0, <2>1, <2>2, <2>3 DEF TypeOK
    <2>5. EachInOneList'
      BY <1>0, <2>1, <2>2, <2>3 DEF EachInOneList
    <2>6. StampsArePast'
      BY <1>0, <2>1 DEF StampsArePast
    <2>7. ListsInStampOrder'
      BY <2>1, <2>3 DEF ListsInStampOrder
    <2>8. NoOverdueSurvivor'
      BY <1>0, <2>1, <2>3 DEF NoOverdueSurvivor
    <2>9. ChallengeDecidesList'
      BY <1>0, <2>1, <2>3 DEF ChallengeDecidesList
    <2> QED
      BY <2>4, <2>5, <2>6, <2>7, <2>8, <2>9 DEF IInv
  <1> QED
    BY <1>1, <1>2

(* What Tick does to the three lists, and whom it destroys. *)
LEMMA TickLists ==
    ASSUME IInv, NEW NowMS \in Ticker..MaxTime, Tick(NowMS)
    PROVE  /\ ChallengeConnectionList' \in Seq(Conn)
           /\ IsInjective(ChallengeConnectionList')
           /\ SortedBy(ChallengeConnectionList', IdleTimestampMS)
           /\ IdleConnectionList' \in Seq(Conn)
           /\ IsInjective(IdleConnectionList')
           /\ SortedBy(IdleConnectionList', IdleTimestampMS)
           /\ ToSet(ChallengeConnectionList') =
                {c \in ToSet(ChallengeConnectionList) : IdleTimestampMS[c] > NowMS - ChallengeTimeout}
           /\ ToSet(IdleConnectionList') =
                {c \in ToSet(IdleConnectionList) : IdleTimestampMS[c] > NowMS - IdleTimeout}
  <1>0. TypeOK /\ EachInOneList /\ ListsInStampOrder
    BY DEF IInv
  <1>1. /\ ChallengeConnectionList \in Seq(Conn) /\ IsInjective(ChallengeConnectionList)
        /\ IdleConnectionList \in Seq(Conn) /\ IsInjective(IdleConnectionList)
        /\ SortedBy(ChallengeConnectionList, IdleTimestampMS)
        /\ SortedBy(IdleConnectionList, IdleTimestampMS)
        /\ IdleTimestampMS \in [Conn -> Int]
        /\ NowMS - ChallengeTimeout \in Int /\ NowMS - IdleTimeout \in Int
    BY <1>0, TimeAssumption DEF TypeOK, EachInOneList, ListsInStampOrder
  <1> DEFINE ChallengeStale == StampedBy(NowMS - ChallengeTimeout)
             IdleStale == StampedBy(NowMS - IdleTimeout)
  <1>2. /\ \A x \in Conn : x \notin ChallengeStale => IdleTimestampMS[x] > NowMS - ChallengeTimeout
        /\ \A x \in Conn : x \in ChallengeStale => ~(IdleTimestampMS[x] > NowMS - ChallengeTimeout)
        /\ \A x \in Conn : x \notin IdleStale => IdleTimestampMS[x] > NowMS - IdleTimeout
        /\ \A x \in Conn : x \in IdleStale => ~(IdleTimestampMS[x] > NowMS - IdleTimeout)
    BY <1>1 DEF StampedBy
  <1>3. /\ ChallengeConnectionList' = PopHeadWhile(ChallengeConnectionList, ChallengeStale)
        /\ IdleConnectionList' = PopHeadWhile(IdleConnectionList, IdleStale)
    BY DEF Tick
  <1> HIDE DEF ChallengeStale, IdleStale
  <1>4. /\ ChallengeConnectionList' \in Seq(Conn)
        /\ IsInjective(ChallengeConnectionList')
        /\ ToSet(ChallengeConnectionList') \subseteq ToSet(ChallengeConnectionList)
        /\ ToSet(ChallengeConnectionList) \ ToSet(ChallengeConnectionList') \subseteq ChallengeStale
        /\ SortedBy(ChallengeConnectionList', IdleTimestampMS)
    BY <1>1, <1>3, PopHeadWhileProperties, PopHeadWhileSorted
  <1>5. /\ IdleConnectionList' \in Seq(Conn)
        /\ IsInjective(IdleConnectionList')
        /\ ToSet(IdleConnectionList') \subseteq ToSet(IdleConnectionList)
        /\ ToSet(IdleConnectionList) \ ToSet(IdleConnectionList') \subseteq IdleStale
        /\ SortedBy(IdleConnectionList', IdleTimestampMS)
    BY <1>1, <1>3, PopHeadWhileProperties, PopHeadWhileSorted
  <1>6. \A x \in ToSet(ChallengeConnectionList') : IdleTimestampMS[x] > NowMS - ChallengeTimeout
    BY <1>1, <1>2, <1>3, PopHeadWhileComplete
  <1>7. \A x \in ToSet(IdleConnectionList') : IdleTimestampMS[x] > NowMS - IdleTimeout
    BY <1>1, <1>2, <1>3, PopHeadWhileComplete
  <1>8. /\ ToSet(ChallengeConnectionList) \subseteq Conn
        /\ ToSet(IdleConnectionList) \subseteq Conn
    BY <1>1 DEF ToSet
  <1> QED
    BY <1>2, <1>4, <1>5, <1>6, <1>7, <1>8

(* What Tick leaves is young, in order and not marked; what it destroys is in
   no list. *)
LEMMA TickIInv ==
    ASSUME IInv, NEW NowMS \in Ticker..MaxTime, Tick(NowMS)
    PROVE  IInv'
  <1>0. /\ TypeOK /\ EachInOneList /\ ChallengeDecidesList
        /\ StampsArePast /\ ListsInStampOrder /\ NoOverdueSurvivor
    BY DEF IInv
  <1> DEFINE D == Condemned
  <1>1. /\ ChallengeConnectionList' \in Seq(Conn)
        /\ IsInjective(ChallengeConnectionList')
        /\ SortedBy(ChallengeConnectionList', IdleTimestampMS)
        /\ IdleConnectionList' \in Seq(Conn)
        /\ IsInjective(IdleConnectionList')
        /\ SortedBy(IdleConnectionList', IdleTimestampMS)
        /\ ToSet(ChallengeConnectionList') =
             {c \in ToSet(ChallengeConnectionList) : IdleTimestampMS[c] > NowMS - ChallengeTimeout}
        /\ ToSet(IdleConnectionList') =
             {c \in ToSet(IdleConnectionList) : IdleTimestampMS[c] > NowMS - IdleTimeout}
    BY TickLists
  <1>2. /\ ConnectionIdManager' = ConnectionIdManager \ D
        /\ Released' = Released \union D
        /\ Marked' = Marked \ D
        /\ ChallengeReady' = ChallengeReady \ D
        /\ IdleTimestampMS' = [c \in Conn |-> IF c \in D THEN 0 ELSE IdleTimestampMS[c]]
        /\ Ticker' = NowMS
        /\ KillConnectionList' = << >>
    BY DEF Tick, DestroyConnections
  <1>3. D = (ToSet(ChallengeConnectionList) \ ToSet(ChallengeConnectionList'))
              \union (ToSet(IdleConnectionList) \ ToSet(IdleConnectionList'))
              \union ToSet(KillConnectionList)
    BY <1>0 DEF Condemned, EachInOneList
  <1> HIDE DEF D
  <1>4. ToSet(KillConnectionList') = {} /\ IsInjective(KillConnectionList')
    BY <1>2 DEF ToSet, IsInjective
  <1>5. /\ ToSet(ChallengeConnectionList) \subseteq Conn
        /\ ToSet(IdleConnectionList) \subseteq Conn
        /\ ToSet(KillConnectionList) \subseteq Conn
    BY <1>0 DEF TypeOK, ToSet
  <1>6. /\ \A c \in ToSet(ChallengeConnectionList') : c \notin D
        /\ \A c \in ToSet(IdleConnectionList') : c \notin D
    BY <1>0, <1>1, <1>3 DEF EachInOneList
  <1>7. /\ \A c \in ToSet(ChallengeConnectionList') : IdleTimestampMS'[c] = IdleTimestampMS[c]
        /\ \A c \in ToSet(IdleConnectionList') : IdleTimestampMS'[c] = IdleTimestampMS[c]
    BY <1>1, <1>2, <1>5, <1>6
  <1>8. TypeOK'
    <2>1. IdleTimestampMS' \in [Conn -> Nat]
      BY <1>0, <1>2 DEF TypeOK
    <2>2. Ticker' \in StartTime..MaxTime
      BY <1>0, <1>2, TimeAssumption DEF TypeOK
    <2>3. D \subseteq Conn
      BY <1>3, <1>5
    <2> QED
      BY <1>0, <1>1, <1>2, <2>1, <2>2, <2>3 DEF TypeOK
  <1>9. EachInOneList'
    <2>1. ToSet(ChallengeConnectionList') \union ToSet(IdleConnectionList')
            = ConnectionIdManager' \ Marked'
      BY <1>0, <1>1, <1>2, <1>3, <1>6 DEF EachInOneList
    <2>2. ToSet(KillConnectionList') = Marked' /\ Marked' \subseteq ConnectionIdManager'
      BY <1>0, <1>2, <1>3, <1>4 DEF EachInOneList
    <2>3. ToSet(ChallengeConnectionList') \intersect ToSet(IdleConnectionList') = {}
      BY <1>0, <1>1 DEF EachInOneList
    <2> QED
      BY <1>1, <1>4, <2>1, <2>2, <2>3 DEF EachInOneList
  <1>10. StampsArePast'
    <2>1. Released' \intersect ConnectionIdManager' = {}
      BY <1>0, <1>2 DEF StampsArePast
    <2>2. \A c \in Conn : IdleTimestampMS'[c] <= Ticker'
      BY <1>0, <1>2, TimeAssumption DEF StampsArePast, TypeOK
    <2> QED
      BY <2>1, <2>2 DEF StampsArePast
  <1>11. ListsInStampOrder'
    BY <1>1, <1>7, SortedByAgree DEF ListsInStampOrder
  <1>12. NoOverdueSurvivor'
    <2>1. IdleTimestampMS \in [Conn -> Nat] /\ NowMS \in Nat
      BY <1>0, TimeAssumption DEF TypeOK
    <2>2. ASSUME NEW c \in ToSet(ChallengeConnectionList')
          PROVE  IdleTimestampMS'[c] + ChallengeTimeout > Ticker'
      <3>1. c \in Conn /\ IdleTimestampMS[c] > NowMS - ChallengeTimeout
        BY <1>1, <1>5
      <3>2. IdleTimestampMS'[c] = IdleTimestampMS[c]
        BY <1>7
      <3> QED
        BY <1>2, <2>1, <3>1, <3>2, TimeAssumption
    <2>3. ASSUME NEW c \in ToSet(IdleConnectionList')
          PROVE  IdleTimestampMS'[c] + IdleTimeout > Ticker'
      <3>1. c \in Conn /\ IdleTimestampMS[c] > NowMS - IdleTimeout
        BY <1>1, <1>5
      <3>2. IdleTimestampMS'[c] = IdleTimestampMS[c]
        BY <1>7
      <3> QED
        BY <1>2, <2>1, <3>1, <3>2, TimeAssumption
    <2> QED
      BY <2>2, <2>3 DEF NoOverdueSurvivor
  <1>13. ChallengeDecidesList'
    <2>1. ToSet(ChallengeConnectionList') \intersect ChallengeReady' = {}
      BY <1>0, <1>1, <1>2 DEF ChallengeDecidesList
    <2>2. ToSet(IdleConnectionList') \subseteq ChallengeReady'
      BY <1>0, <1>1, <1>2, <1>6 DEF ChallengeDecidesList
    <2>3. ChallengeReady' \subseteq ConnectionIdManager'
      BY <1>0, <1>2 DEF ChallengeDecidesList
    <2> QED
      BY <2>1, <2>2, <2>3 DEF ChallengeDecidesList
  <1> QED
    BY <1>8, <1>9, <1>10, <1>11, <1>12, <1>13 DEF IInv

(* Every operation of the manager keeps the invariant. *)
LEMMA StepIInv == IInv /\ [Next]_vars => IInv'
  <1> SUFFICES ASSUME IInv, [Next]_vars
               PROVE  IInv'
    OBVIOUS
  <1>1. ASSUME NEW c \in Conn, CreateConnection(c) PROVE IInv'
    BY <1>1, CreateIInv
  <1>2. ASSUME NEW c \in Conn, CreateConnectionFails(c) PROVE IInv'
    BY <1>2, CreateFailsIInv
  <1>3. ASSUME NEW c \in Conn, KeepAlive(c) PROVE IInv'
    BY <1>3, KeepAliveIInv
  <1>4. ASSUME NEW c \in Conn, DeferReleaseConnection(c) PROVE IInv'
    BY <1>4, DeferReleaseIInv
  <1>5. ASSUME NEW NowMS \in Ticker..MaxTime, Tick(NowMS) PROVE IInv'
    BY <1>5, TickIInv
  <1>6. ASSUME NEW c \in Conn, AcceptChallenge(c) PROVE IInv'
    BY <1>6, AcceptChallengeIInv
  <1>7. CASE UNCHANGED vars
    BY <1>7, StutterIInv
  <1> QED
    BY <1>1, <1>2, <1>3, <1>4, <1>5, <1>6, <1>7 DEF Next

(* All parts of the inductive invariant hold in every reachable state. *)
THEOREM InductiveInvariant == Spec => []IInv
  BY InitIInv, StepIInv, PTL DEF Spec

(* Type correctness. *)
THEOREM TypeCorrect == Spec => []TypeOK
  <1>1. IInv => TypeOK
    BY DEF IInv
  <1> QED
    BY <1>1, InductiveInvariant, PTL

(* Every connection is linked in exactly one list, once, and the kill list
   holds exactly the marked ones: nothing leaks and nothing is deleted twice. *)
THEOREM OneListEach == Spec => []EachInOneList
  <1>1. IInv => EachInOneList
    BY DEF IInv
  <1> QED
    BY <1>1, InductiveInvariant, PTL

(* Only a challenged connection gets past the short challenge timeout. *)
THEOREM ChallengeFirst == Spec => []ChallengeDecidesList
  <1>1. IInv => ChallengeDecidesList
    BY DEF IInv
  <1> QED
    BY <1>1, InductiveInvariant, PTL

(* No connection outlives its timeout, although Tick looks at heads only. *)
THEOREM TimeoutsAreKept == Spec => []NoOverdueSurvivor
  <1>1. IInv => NoOverdueSurvivor
    BY DEF IInv
  <1> QED
    BY <1>1, InductiveInvariant, PTL

-----------------------------------------------------------------------------
(* The lists implement the reaper: one step of the manager is one step of
   ConnectionReaper, or none. *)

(* A manager without connections is a reaper that has admitted none. *)
LEMMA InitReaper == Init => Reaper!Init
  <1> SUFFICES ASSUME Init PROVE Reaper!Init
    OBVIOUS
  <1>1. Deadline = [c \in Conn |-> 0]
    BY DEF Init, InitExceptClock, Deadline, ToSet
  <1> QED
    BY <1>1 DEF Init, InitExceptClock, Reaper!Init

(* Creating a connection admits it, with the deadline of the new list. *)
LEMMA CreateReaper ==
    ASSUME IInv, NEW c \in Conn, CreateConnection(c)
    PROVE  Reaper!Admit(c)
  <1>0. TypeOK /\ EachInOneList
    BY DEF IInv
  <1>1. /\ c \notin ConnectionIdManager /\ c \notin Released /\ c \notin Marked
        /\ c \notin ToSet(IdleConnectionList)
    BY <1>0 DEF CreateConnection, CanAcquire, EachInOneList
  <1>2. ToSet(ChallengeConnectionList') = ToSet(ChallengeConnectionList) \union {c}
    BY <1>0, GrabTailProperties DEF CreateConnection, TypeOK, EachInOneList
  <1>3. Deadline' = [Deadline EXCEPT ![c] = Ticker + ChallengeTimeout]
    BY <1>0, <1>1, <1>2 DEF CreateConnection, Deadline, TypeOK
  <1> QED
    BY <1>1, <1>3 DEF CreateConnection, Reaper!Admit, Reaper!Unused

(* A move to the idle list moves the deadline of one connection and of no
   other. *)
LEMMA MoveToIdleReaper ==
    ASSUME IInv, NEW c \in Conn,
           c \in ConnectionIdManager, c \notin Marked,
           MoveToIdle(c),
           UNCHANGED <<ConnectionIdManager, Released, Marked, Ticker>>
    PROVE  Reaper!Refresh(c)
  <1>0. TypeOK /\ EachInOneList /\ ListsInStampOrder
    BY DEF IInv
  <1>1. /\ ToSet(IdleConnectionList') = ToSet(IdleConnectionList) \union {c}
        /\ ToSet(ChallengeConnectionList') = ToSet(ChallengeConnectionList) \ {c}
        /\ IdleTimestampMS' = [IdleTimestampMS EXCEPT ![c] = Ticker]
    <2>1. /\ IdleConnectionList' = GrabTail(IdleConnectionList, c)
          /\ ChallengeConnectionList' = RemoveFirst(ChallengeConnectionList, c)
          /\ IdleTimestampMS' = [IdleTimestampMS EXCEPT ![c] = Ticker]
      BY DEF MoveToIdle
    <2>2. ToSet(IdleConnectionList') = ToSet(IdleConnectionList) \union {c}
      BY <1>0, <2>1, GrabTailProperties DEF TypeOK, EachInOneList
    <2>3. ToSet(ChallengeConnectionList') = ToSet(ChallengeConnectionList) \ {c}
      BY <1>0, <2>1, UnlinkConnection
    <2> QED
      BY <2>1, <2>2, <2>3
  <1>2. Deadline' = [Deadline EXCEPT ![c] = Ticker + IdleTimeout]
    <2>1. /\ IdleTimestampMS'[c] = Ticker
          /\ \A x \in Conn \ {c} : IdleTimestampMS'[x] = IdleTimestampMS[x]
      BY <1>0, <1>1 DEF TypeOK
    <2>2. Deadline'[c] = Ticker + IdleTimeout
      BY <1>1, <2>1 DEF Deadline
    <2>3. \A x \in Conn \ {c} : Deadline'[x] = Deadline[x]
      BY <1>1, <2>1 DEF Deadline
    <2>4. /\ Deadline = [x \in Conn |-> Deadline[x]]
          /\ Deadline' = [x \in Conn |-> Deadline'[x]]
      BY DEF Deadline
    <2> QED
      BY <2>2, <2>3, <2>4
  <1> QED
    BY <1>2 DEF Reaper!Refresh

(* Releasing a connection dooms it. *)
LEMMA DeferReleaseReaper ==
    ASSUME IInv, NEW c \in Conn, DeferReleaseConnection(c), c \notin Marked
    PROVE  Reaper!Doom(c)
  <1>0. TypeOK /\ EachInOneList /\ ListsInStampOrder
    BY DEF IInv
  <1>1. /\ ToSet(IdleConnectionList') = ToSet(IdleConnectionList) \ {c}
        /\ ToSet(ChallengeConnectionList') = ToSet(ChallengeConnectionList) \ {c}
    BY <1>0, UnlinkConnection DEF DeferReleaseConnection
  <1>2. Deadline' = [Deadline EXCEPT ![c] = 0]
    BY <1>0, <1>1 DEF DeferReleaseConnection, Deadline, TypeOK
  <1> QED
    BY <1>2 DEF DeferReleaseConnection, Reaper!Doom

(* Tick destroys the doomed and exactly those whose deadline has come. *)
LEMMA TickReaper ==
    ASSUME IInv, NEW NowMS \in Ticker..MaxTime, Tick(NowMS)
    PROVE  Reaper!Reap(NowMS)
  <1>0. TypeOK /\ EachInOneList
    BY DEF IInv
  <1> DEFINE D == Condemned
             Active == ConnectionIdManager \ Marked
             Late == Reaper!Overdue(NowMS)
  <1>1. /\ ToSet(ChallengeConnectionList') =
             {c \in ToSet(ChallengeConnectionList) : IdleTimestampMS[c] > NowMS - ChallengeTimeout}
        /\ ToSet(IdleConnectionList') =
             {c \in ToSet(IdleConnectionList) : IdleTimestampMS[c] > NowMS - IdleTimeout}
    BY TickLists
  <1>2. /\ ConnectionIdManager' = ConnectionIdManager \ D
        /\ Released' = Released \union D
        /\ Marked' = Marked \ D
        /\ ChallengeReady' = ChallengeReady \ D
        /\ IdleTimestampMS' = [c \in Conn |-> IF c \in D THEN 0 ELSE IdleTimestampMS[c]]
        /\ Ticker' = NowMS
    BY DEF Tick, DestroyConnections
  <1>3. D = (ToSet(ChallengeConnectionList) \ ToSet(ChallengeConnectionList'))
              \union (ToSet(IdleConnectionList) \ ToSet(IdleConnectionList'))
              \union ToSet(KillConnectionList)
    BY <1>0 DEF Condemned, EachInOneList
  <1> HIDE DEF D
  <1>4. /\ ToSet(ChallengeConnectionList) \subseteq Conn
        /\ ToSet(IdleConnectionList) \subseteq Conn
        /\ IdleTimestampMS \in [Conn -> Nat]
        /\ NowMS \in Nat
    BY <1>0, TimeAssumption DEF TypeOK, ToSet
  <1>5. \A c \in ToSet(ChallengeConnectionList) :
          IdleTimestampMS[c] > NowMS - ChallengeTimeout <=> ~(Deadline[c] <= NowMS)
    BY <1>4, TimeAssumption DEF Deadline
  <1>6. \A c \in ToSet(IdleConnectionList) :
          IdleTimestampMS[c] > NowMS - IdleTimeout <=> ~(Deadline[c] <= NowMS)
    BY <1>0, <1>4, TimeAssumption DEF Deadline, EachInOneList
  <1>7. Active = ToSet(ChallengeConnectionList) \union ToSet(IdleConnectionList)
    BY <1>0 DEF EachInOneList
  <1>8. Late = {c \in Active : Deadline[c] <= NowMS}
    BY DEF Reaper!Overdue
  <1>9. Late = (ToSet(ChallengeConnectionList) \ ToSet(ChallengeConnectionList'))
                 \union (ToSet(IdleConnectionList) \ ToSet(IdleConnectionList'))
    BY <1>1, <1>5, <1>6, <1>7, <1>8
  <1>10. Marked = ToSet(KillConnectionList) /\ Marked \subseteq ConnectionIdManager
    BY <1>0 DEF EachInOneList
  <1>11. D = Late \union Marked
    BY <1>3, <1>9, <1>10
  <1>12. Marked' = {}
    BY <1>2, <1>11
  <1>13. ConnectionIdManager' \ Marked' = Active \ Late
    BY <1>2, <1>11, <1>12
  <1>14. Active \ Late = ToSet(ChallengeConnectionList') \union ToSet(IdleConnectionList')
    BY <1>0, <1>1, <1>7, <1>9 DEF EachInOneList
  <1>15. Deadline' = [c \in Conn |-> IF c \in ConnectionIdManager' \ Marked'
                                     THEN Deadline[c] ELSE 0]
    <2>1. ASSUME NEW c \in Conn
          PROVE  Deadline'[c] = IF c \in ConnectionIdManager' \ Marked'
                                THEN Deadline[c] ELSE 0
      <3>1. CASE c \in ToSet(ChallengeConnectionList')
        <4>1. c \in ToSet(ChallengeConnectionList) /\ c \notin D
          BY <1>0, <1>1, <1>3, <3>1 DEF EachInOneList
        <4> QED
          BY <1>2, <1>13, <1>14, <3>1, <4>1 DEF Deadline
      <3>2. CASE c \in ToSet(IdleConnectionList')
        <4>1. /\ c \in ToSet(IdleConnectionList) /\ c \notin D
              /\ c \notin ToSet(ChallengeConnectionList) /\ c \notin ToSet(ChallengeConnectionList')
          BY <1>0, <1>1, <1>3, <3>2 DEF EachInOneList
        <4> QED
          BY <1>2, <1>13, <1>14, <3>2, <4>1 DEF Deadline
      <3>3. CASE c \notin ToSet(ChallengeConnectionList') /\ c \notin ToSet(IdleConnectionList')
        BY <1>13, <1>14, <3>3 DEF Deadline
      <3> QED
        BY <3>1, <3>2, <3>3
    <2>2. Deadline' = [c \in Conn |-> Deadline'[c]]
      BY DEF Deadline
    <2> HIDE DEF Deadline
    <2> QED
      BY <2>1, <2>2
  <1>16. Released' = Released \union Marked \union Late
    BY <1>2, <1>11
  <1> HIDE DEF Late
  <1> QED
    BY <1>2, <1>12, <1>13, <1>15, <1>16 DEF Reaper!Reap, Late

(* Every operation is a step of the reaper or leaves it alone. *)
LEMMA StepReaper == IInv /\ [Next]_vars => [Reaper!Next]_(Reaper!vars)
  <1> SUFFICES ASSUME IInv, [Next]_vars
               PROVE  [Reaper!Next]_(Reaper!vars)
    OBVIOUS
  <1>1. ASSUME NEW c \in Conn, CreateConnection(c)
        PROVE  Reaper!Next
    BY <1>1, CreateReaper DEF Reaper!Next
  <1>2. ASSUME NEW c \in Conn, CreateConnectionFails(c)
        PROVE  Reaper!Next
    <2>1. Reaper!Abandon(c)
      BY <1>2 DEF IInv, EachInOneList, CreateConnectionFails, CanAcquire, lists,
                  Deadline, Reaper!Abandon, Reaper!Unused
    <2> QED
      BY <2>1 DEF Reaper!Next
  <1>3. UNCHANGED vars => UNCHANGED Reaper!vars
    BY DEF vars, lists, Deadline, Reaper!vars
  <1>4. ASSUME NEW c \in Conn, KeepAlive(c)
        PROVE  [Reaper!Next]_(Reaper!vars)
    <2>1. CASE c \in Marked \/ c \notin ChallengeReady
      BY <1>3, <1>4, <2>1 DEF KeepAlive
    <2>2. CASE c \in ChallengeReady \ Marked
      BY <1>4, <2>2, MoveToIdleReaper DEF KeepAlive, Reaper!Next
    <2> QED
      BY <2>1, <2>2
  <1>7. ASSUME NEW c \in Conn, AcceptChallenge(c)
        PROVE  [Reaper!Next]_(Reaper!vars)
    <2>1. CASE c \in Marked
      BY <1>7, <2>1 DEF AcceptChallenge, lists, Deadline, Reaper!vars
    <2>2. CASE c \notin Marked
      BY <1>7, <2>2, MoveToIdleReaper DEF AcceptChallenge, Reaper!Next
    <2> QED
      BY <2>1, <2>2
  <1>5. ASSUME NEW c \in Conn, DeferReleaseConnection(c)
        PROVE  [Reaper!Next]_(Reaper!vars)
    <2>1. CASE c \in Marked
      BY <1>3, <1>5, <2>1 DEF DeferReleaseConnection
    <2>2. CASE c \notin Marked
      BY <1>5, <2>2, DeferReleaseReaper DEF Reaper!Next
    <2> QED
      BY <2>1, <2>2
  <1>6. ASSUME NEW NowMS \in Ticker..MaxTime, Tick(NowMS)
        PROVE  Reaper!Next
    BY <1>6, TickReaper DEF Reaper!Next
  <1> QED
    BY <1>1, <1>2, <1>3, <1>4, <1>5, <1>6, <1>7 DEF Next

(* A Tick destroys the released connections and exactly those whose timeout
   has passed, and no packet brings a released connection back. *)
THEOREM ImplementsReaper == Spec => ReaperSpec
  <1>1. Init => Reaper!Init
    BY InitReaper
  <1>2. IInv /\ [Next]_vars => [Reaper!Next]_(Reaper!vars)
    BY StepReaper
  <1> QED
    BY <1>1, <1>2, InductiveInvariant, PTL DEF Spec, ReaperSpec, Reaper!Spec

=============================================================================
