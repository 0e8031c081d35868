----------------------- MODULE DeviceConnectionsProofs -----------------------
(***************************************************************************)
(* The lists of xRD_DeviceConnectionManager are sound and implement the    *)
(* reaper, for every set of connections, capacity, timeouts and clock.     *)
(***************************************************************************)
EXTENDS DeviceConnections, XListTheorems

(* The invariant holds at the start. *)
LEMMA InitIInv == Init => IInv
  <1> SUFFICES ASSUME Init PROVE IInv
    OBVIOUS
  <1>1. TypeOK
    BY TimeAssumption DEF Init, TypeOK
  <1>2. EachInOneList
    BY DEF Init, EachInOneList, IsInjective, ToSet
  <1>3. StampsArePast
    BY TimeAssumption DEF Init, StampsArePast
  <1>4. ListsInStampOrder
    BY DEF Init, ListsInStampOrder, SortedBy
  <1>5. NoOverdueSurvivor
    BY DEF Init, NoOverdueSurvivor, ToSet
  <1> QED
    BY <1>1, <1>2, <1>3, <1>4, <1>5 DEF IInv

(* A new connection goes to the tail of the new list; no stamp is later than
   its own. *)
LEMMA CreateIInv ==
    ASSUME IInv, NEW c \in Conn, CreateConnection(c)
    PROVE  IInv'
  <1>0. /\ TypeOK /\ EachInOneList /\ StampsArePast
        /\ ListsInStampOrder /\ NoOverdueSurvivor
    BY DEF IInv
  <1>1. /\ c \notin ConnectionIdManager /\ c \notin Released
        /\ c \notin ToSet(NewConnectionList)
        /\ c \notin ToSet(IdleConnectionList)
    BY <1>0 DEF CreateConnection, CanAcquire, EachInOneList
  <1>2. /\ NewConnectionList' \in Seq(Conn)
        /\ IsInjective(NewConnectionList')
        /\ ToSet(NewConnectionList') = ToSet(NewConnectionList) \union {c}
    BY <1>0, GrabTailProperties DEF CreateConnection, TypeOK, EachInOneList
  <1>3. /\ IdleTimestampMS' \in [Conn -> Nat]
        /\ IdleTimestampMS'[c] = Ticker
        /\ \A x \in Conn \ {c} : IdleTimestampMS'[x] = IdleTimestampMS[x]
    BY <1>0, TimeAssumption DEF CreateConnection, TypeOK
  <1>4. /\ ToSet(NewConnectionList) \subseteq Conn
        /\ ToSet(IdleConnectionList) \subseteq Conn
    BY <1>0 DEF TypeOK, ToSet
  <1>5. TypeOK'
    BY <1>0, <1>2, <1>3 DEF CreateConnection, TypeOK
  <1>6. EachInOneList'
    BY <1>0, <1>1, <1>2 DEF CreateConnection, EachInOneList, TypeOK
  <1>7. StampsArePast'
    BY <1>0, <1>1, <1>3, TimeAssumption DEF CreateConnection, StampsArePast, TypeOK
  <1>8. ListsInStampOrder'
    <2>1. SortedBy(NewConnectionList', IdleTimestampMS')
      <3>1. \A x \in ToSet(NewConnectionList) \ {c} :
              /\ IdleTimestampMS'[x] = IdleTimestampMS[x]
              /\ IdleTimestampMS'[x] <= IdleTimestampMS'[c]
        BY <1>0, <1>3, <1>4 DEF StampsArePast
      <3> QED
        BY <1>0, <3>1, GrabTailSorted
           DEF CreateConnection, TypeOK, EachInOneList, ListsInStampOrder
    <2>2. SortedBy(IdleConnectionList', IdleTimestampMS')
      <3>1. \A x \in ToSet(IdleConnectionList) : IdleTimestampMS'[x] = IdleTimestampMS[x]
        BY <1>1, <1>3, <1>4
      <3>2. SortedBy(IdleConnectionList, IdleTimestampMS')
        BY <1>0, <3>1, SortedByAgree DEF ListsInStampOrder, TypeOK
      <3> QED
        BY <3>2 DEF CreateConnection
    <2> QED
      BY <2>1, <2>2 DEF ListsInStampOrder
  <1>9. NoOverdueSurvivor'
    BY <1>0, <1>1, <1>2, <1>3, <1>4, TimeAssumption
       DEF CreateConnection, NoOverdueSurvivor, TypeOK
  <1> QED
    BY <1>5, <1>6, <1>7, <1>8, <1>9 DEF IInv

(* A creation that fails gives its id back and touches no list. *)
LEMMA CreateFailsIInv ==
    ASSUME IInv, NEW c \in Conn, CreateConnectionFails(c)
    PROVE  IInv'
  <1>1. TypeOK'
    BY DEF IInv, CreateConnectionFails, CanAcquire, TypeOK, lists
  <1>2. EachInOneList'
    BY DEF IInv, CreateConnectionFails, EachInOneList, lists
  <1>3. StampsArePast'
    BY DEF IInv, CreateConnectionFails, CanAcquire, StampsArePast, lists
  <1>4. ListsInStampOrder' /\ NoOverdueSurvivor'
    BY DEF IInv, CreateConnectionFails, ListsInStampOrder, NoOverdueSurvivor, lists
  <1> QED
    BY <1>1, <1>2, <1>3, <1>4 DEF IInv

(* A call that returns early changes nothing. *)
LEMMA StutterIInv ==
    ASSUME IInv, UNCHANGED vars
    PROVE  IInv'
  BY DEF IInv, vars, lists, TypeOK, EachInOneList, StampsArePast,
         ListsInStampOrder, NoOverdueSurvivor

(* A connection that is not released is unlinked from wherever it is. *)
LEMMA UnlinkConnection ==
    ASSUME TypeOK, EachInOneList, ListsInStampOrder, NEW c \in Conn
    PROVE  /\ RemoveFirst(NewConnectionList, c) \in Seq(Conn)
           /\ IsInjective(RemoveFirst(NewConnectionList, c))
           /\ ToSet(RemoveFirst(NewConnectionList, c)) = ToSet(NewConnectionList) \ {c}
           /\ SortedBy(RemoveFirst(NewConnectionList, c), IdleTimestampMS)
           /\ RemoveFirst(IdleConnectionList, c) \in Seq(Conn)
           /\ IsInjective(RemoveFirst(IdleConnectionList, c))
           /\ ToSet(RemoveFirst(IdleConnectionList, c)) = ToSet(IdleConnectionList) \ {c}
           /\ SortedBy(RemoveFirst(IdleConnectionList, c), IdleTimestampMS)
           /\ RemoveFirst(KillConnectionList, c) \in Seq(Conn)
           /\ IsInjective(RemoveFirst(KillConnectionList, c))
           /\ ToSet(RemoveFirst(KillConnectionList, c)) = ToSet(KillConnectionList) \ {c}
  <1>1. /\ NewConnectionList \in Seq(Conn) /\ IsInjective(NewConnectionList)
        /\ IdleConnectionList \in Seq(Conn) /\ IsInjective(IdleConnectionList)
        /\ KillConnectionList \in Seq(Conn) /\ IsInjective(KillConnectionList)
        /\ SortedBy(NewConnectionList, IdleTimestampMS)
        /\ SortedBy(IdleConnectionList, IdleTimestampMS)
    BY DEF TypeOK, EachInOneList, ListsInStampOrder
  <1> QED
    BY <1>1, RemoveFirstProperties, RemoveFirstSorted

(* KeepAlive puts the connection at the tail of the idle list with the latest
   stamp. *)
LEMMA KeepAliveIInv ==
    ASSUME IInv, NEW c \in Conn, KeepAlive(c)
    PROVE  IInv'
  <1>0. /\ TypeOK /\ EachInOneList /\ StampsArePast
        /\ ListsInStampOrder /\ NoOverdueSurvivor
    BY DEF IInv
  <1>1. CASE c \in Marked
    BY <1>1, StutterIInv DEF KeepAlive
  <1>2. CASE c \notin Marked
    <2>1. /\ c \in ConnectionIdManager
          /\ IdleTimestampMS' = [IdleTimestampMS EXCEPT ![c] = Ticker]
          /\ IdleConnectionList' = GrabTail(IdleConnectionList, c)
          /\ NewConnectionList' = RemoveFirst(NewConnectionList, c)
          /\ KillConnectionList' = RemoveFirst(KillConnectionList, c)
          /\ UNCHANGED <<ConnectionIdManager, Released, Marked, Ticker>>
      BY <1>2 DEF KeepAlive
    <2>2. /\ IdleConnectionList' \in Seq(Conn)
          /\ IsInjective(IdleConnectionList')
          /\ ToSet(IdleConnectionList') = ToSet(IdleConnectionList) \union {c}
      BY <1>0, <2>1, GrabTailProperties DEF TypeOK, EachInOneList
    <2>3. /\ NewConnectionList' \in Seq(Conn)
          /\ IsInjective(NewConnectionList')
          /\ ToSet(NewConnectionList') = ToSet(NewConnectionList) \ {c}
          /\ SortedBy(NewConnectionList', IdleTimestampMS)
          /\ KillConnectionList' \in Seq(Conn)
          /\ IsInjective(KillConnectionList')
          /\ ToSet(KillConnectionList') = ToSet(KillConnectionList) \ {c}
      BY <1>0, <2>1, UnlinkConnection
    <2>4. /\ IdleTimestampMS' \in [Conn -> Nat]
          /\ IdleTimestampMS'[c] = Ticker
          /\ \A x \in Conn \ {c} : IdleTimestampMS'[x] = IdleTimestampMS[x]
      BY <1>0, <2>1, TimeAssumption DEF TypeOK
    <2>5. /\ ToSet(NewConnectionList) \subseteq Conn
          /\ ToSet(IdleConnectionList) \subseteq Conn
      BY <1>0 DEF TypeOK, ToSet
    <2>6. TypeOK'
      BY <1>0, <2>1, <2>2, <2>3, <2>4 DEF TypeOK
    <2>7. EachInOneList'
      BY <1>0, <1>2, <2>1, <2>2, <2>3 DEF EachInOneList
    <2>8. StampsArePast'
      BY <1>0, <2>1, <2>4, TimeAssumption DEF StampsArePast, TypeOK
    <2>9. ListsInStampOrder'
      <3>1. SortedBy(NewConnectionList', IdleTimestampMS')
        <4>1. \A x \in ToSet(NewConnectionList') : IdleTimestampMS'[x] = IdleTimestampMS[x]
          BY <2>3, <2>4, <2>5
        <4> QED
          BY <2>3, <4>1, SortedByAgree
      <3>2. SortedBy(IdleConnectionList', IdleTimestampMS')
        <4>1. \A x \in ToSet(IdleConnectionList) \ {c} :
                /\ IdleTimestampMS'[x] = IdleTimestampMS[x]
                /\ IdleTimestampMS'[x] <= IdleTimestampMS'[c]
          BY <1>0, <2>4, <2>5 DEF StampsArePast
        <4> QED
          BY <1>0, <2>1, <4>1, GrabTailSorted
             DEF TypeOK, EachInOneList, ListsInStampOrder
      <3> QED
        BY <3>1, <3>2 DEF ListsInStampOrder
    <2>10. NoOverdueSurvivor'
      BY <1>0, <2>1, <2>2, <2>3, <2>4, <2>5, TimeAssumption
         DEF NoOverdueSurvivor, TypeOK
    <2> QED
      BY <2>6, <2>7, <2>8, <2>9, <2>10 DEF IInv
  <1> QED
    BY <1>1, <1>2

(* A released connection is in the kill list only, whichever list it comes
   from. *)
LEMMA DeferReleaseIInv ==
    ASSUME IInv, NEW c \in Conn, DeferReleaseConnection(c)
    PROVE  IInv'
  <1>0. /\ TypeOK /\ EachInOneList /\ StampsArePast
        /\ ListsInStampOrder /\ NoOverdueSurvivor
    BY DEF IInv
  <1>1. CASE c \in Marked
    BY <1>1, StutterIInv DEF DeferReleaseConnection
  <1>2. CASE c \notin Marked
    <2>1. /\ c \in ConnectionIdManager
          /\ Marked' = Marked \union {c}
          /\ KillConnectionList' = GrabTail(KillConnectionList, c)
          /\ NewConnectionList' = RemoveFirst(NewConnectionList, c)
          /\ IdleConnectionList' = RemoveFirst(IdleConnectionList, c)
          /\ UNCHANGED <<ConnectionIdManager, Released, IdleTimestampMS, Ticker>>
      BY <1>2 DEF DeferReleaseConnection
    <2>2. /\ KillConnectionList' \in Seq(Conn)
          /\ IsInjective(KillConnectionList')
          /\ ToSet(KillConnectionList') = ToSet(KillConnectionList) \union {c}
      BY <1>0, <2>1, GrabTailProperties DEF TypeOK, EachInOneList
    <2>3. /\ NewConnectionList' \in Seq(Conn)
          /\ IsInjective(NewConnectionList')
          /\ ToSet(NewConnectionList') = ToSet(NewConnectionList) \ {c}
          /\ SortedBy(NewConnectionList', IdleTimestampMS)
          /\ IdleConnectionList' \in Seq(Conn)
          /\ IsInjective(IdleConnectionList')
          /\ ToSet(IdleConnectionList') = ToSet(IdleConnectionList) \ {c}
          /\ SortedBy(IdleConnectionList', IdleTimestampMS)
      BY <1>0, <2>1, UnlinkConnection
    <2>4. TypeOK'
      BY <1>0, <2>1, <2>2, <2>3 DEF TypeOK
    <2>5. EachInOneList'
      BY <1>0, <2>1, <2>2, <2>3 DEF EachInOneList
    <2>6. StampsArePast'
      BY <1>0, <2>1 DEF StampsArePast
    <2>7. ListsInStampOrder'
      BY <2>1, <2>3 DEF ListsInStampOrder
    <2>8. NoOverdueSurvivor'
      BY <1>0, <2>1, <2>3 DEF NoOverdueSurvivor
    <2> QED
      BY <2>4, <2>5, <2>6, <2>7, <2>8 DEF IInv
  <1> QED
    BY <1>1, <1>2

(* What Tick does to the three lists, and whom it destroys. *)
LEMMA TickLists ==
    ASSUME IInv, NEW NowMS \in Ticker..MaxTime, Tick(NowMS)
    PROVE  /\ NewConnectionList' \in Seq(Conn)
           /\ IsInjective(NewConnectionList')
           /\ SortedBy(NewConnectionList', IdleTimestampMS)
           /\ IdleConnectionList' \in Seq(Conn)
           /\ IsInjective(IdleConnectionList')
           /\ SortedBy(IdleConnectionList', IdleTimestampMS)
           /\ ToSet(NewConnectionList') =
                {c \in ToSet(NewConnectionList) : IdleTimestampMS[c] > NowMS - NewTimeout}
           /\ ToSet(IdleConnectionList') =
                {c \in ToSet(IdleConnectionList) : IdleTimestampMS[c] > NowMS - IdleTimeout}
  <1>0. TypeOK /\ EachInOneList /\ ListsInStampOrder
    BY DEF IInv
  <1>1. /\ NewConnectionList \in Seq(Conn) /\ IsInjective(NewConnectionList)
        /\ IdleConnectionList \in Seq(Conn) /\ IsInjective(IdleConnectionList)
        /\ SortedBy(NewConnectionList, IdleTimestampMS)
        /\ SortedBy(IdleConnectionList, IdleTimestampMS)
        /\ IdleTimestampMS \in [Conn -> Int]
        /\ NowMS - NewTimeout \in Int /\ NowMS - IdleTimeout \in Int
    BY <1>0, TimeAssumption DEF TypeOK, EachInOneList, ListsInStampOrder
  <1> DEFINE NewStale == StampedBy(NowMS - NewTimeout)
             IdleStale == StampedBy(NowMS - IdleTimeout)
  <1>2. /\ \A x \in Conn : x \notin NewStale => IdleTimestampMS[x] > NowMS - NewTimeout
        /\ \A x \in Conn : x \in NewStale => ~(IdleTimestampMS[x] > NowMS - NewTimeout)
        /\ \A x \in Conn : x \notin IdleStale => IdleTimestampMS[x] > NowMS - IdleTimeout
        /\ \A x \in Conn : x \in IdleStale => ~(IdleTimestampMS[x] > NowMS - IdleTimeout)
    BY <1>1 DEF StampedBy
  <1>3. /\ NewConnectionList' = PopHeadWhile(NewConnectionList, NewStale)
        /\ IdleConnectionList' = PopHeadWhile(IdleConnectionList, IdleStale)
    BY DEF Tick
  <1> HIDE DEF NewStale, IdleStale
  <1>4. /\ NewConnectionList' \in Seq(Conn)
        /\ IsInjective(NewConnectionList')
        /\ ToSet(NewConnectionList') \subseteq ToSet(NewConnectionList)
        /\ ToSet(NewConnectionList) \ ToSet(NewConnectionList') \subseteq NewStale
        /\ SortedBy(NewConnectionList', IdleTimestampMS)
    BY <1>1, <1>3, PopHeadWhileProperties, PopHeadWhileSorted
  <1>5. /\ IdleConnectionList' \in Seq(Conn)
        /\ IsInjective(IdleConnectionList')
        /\ ToSet(IdleConnectionList') \subseteq ToSet(IdleConnectionList)
        /\ ToSet(IdleConnectionList) \ ToSet(IdleConnectionList') \subseteq IdleStale
        /\ SortedBy(IdleConnectionList', IdleTimestampMS)
    BY <1>1, <1>3, PopHeadWhileProperties, PopHeadWhileSorted
  <1>6. \A x \in ToSet(NewConnectionList') : IdleTimestampMS[x] > NowMS - NewTimeout
    BY <1>1, <1>2, <1>3, PopHeadWhileComplete
  <1>7. \A x \in ToSet(IdleConnectionList') : IdleTimestampMS[x] > NowMS - IdleTimeout
    BY <1>1, <1>2, <1>3, PopHeadWhileComplete
  <1>8. /\ ToSet(NewConnectionList) \subseteq Conn
        /\ ToSet(IdleConnectionList) \subseteq Conn
    BY <1>1 DEF ToSet
  <1> QED
    BY <1>2, <1>4, <1>5, <1>6, <1>7, <1>8

(* What Tick leaves is young, in order and not marked; what it destroys is in
   no list. *)
LEMMA TickIInv ==
    ASSUME IInv, NEW NowMS \in Ticker..MaxTime, Tick(NowMS)
    PROVE  IInv'
  <1>0. /\ TypeOK /\ EachInOneList /\ StampsArePast
        /\ ListsInStampOrder /\ NoOverdueSurvivor
    BY DEF IInv
  <1> DEFINE D == Condemned
  <1>1. /\ NewConnectionList' \in Seq(Conn)
        /\ IsInjective(NewConnectionList')
        /\ SortedBy(NewConnectionList', IdleTimestampMS)
        /\ IdleConnectionList' \in Seq(Conn)
        /\ IsInjective(IdleConnectionList')
        /\ SortedBy(IdleConnectionList', IdleTimestampMS)
        /\ ToSet(NewConnectionList') =
             {c \in ToSet(NewConnectionList) : IdleTimestampMS[c] > NowMS - NewTimeout}
        /\ ToSet(IdleConnectionList') =
             {c \in ToSet(IdleConnectionList) : IdleTimestampMS[c] > NowMS - IdleTimeout}
    BY TickLists
  <1>2. /\ ConnectionIdManager' = ConnectionIdManager \ D
        /\ Released' = Released \union D
        /\ Marked' = Marked \ D
        /\ IdleTimestampMS' = [c \in Conn |-> IF c \in D THEN 0 ELSE IdleTimestampMS[c]]
        /\ Ticker' = NowMS
        /\ KillConnectionList' = << >>
    BY DEF Tick, DestroyConnections
  <1>3. D = (ToSet(NewConnectionList) \ ToSet(NewConnectionList'))
              \union (ToSet(IdleConnectionList) \ ToSet(IdleConnectionList'))
              \union ToSet(KillConnectionList)
    BY DEF Condemned
  <1> HIDE DEF D
  <1>4. ToSet(KillConnectionList') = {} /\ IsInjective(KillConnectionList')
    BY <1>2 DEF ToSet, IsInjective
  <1>5. /\ ToSet(NewConnectionList) \subseteq Conn
        /\ ToSet(IdleConnectionList) \subseteq Conn
        /\ ToSet(KillConnectionList) \subseteq Conn
    BY <1>0 DEF TypeOK, ToSet
  <1>6. /\ \A c \in ToSet(NewConnectionList') : c \notin D
        /\ \A c \in ToSet(IdleConnectionList') : c \notin D
    BY <1>0, <1>1, <1>3 DEF EachInOneList
  <1>7. /\ \A c \in ToSet(NewConnectionList') : IdleTimestampMS'[c] = IdleTimestampMS[c]
        /\ \A c \in ToSet(IdleConnectionList') : IdleTimestampMS'[c] = IdleTimestampMS[c]
    BY <1>1, <1>2, <1>5, <1>6
  <1>8. TypeOK'
    <2>1. IdleTimestampMS' \in [Conn -> Nat]
      BY <1>0, <1>2 DEF TypeOK
    <2>2. Ticker' \in StartTime..MaxTime
      BY <1>0, <1>2, TimeAssumption DEF TypeOK
    <2>3. D \subseteq Conn
      BY <1>3, <1>5
    <2> QED
      BY <1>0, <1>1, <1>2, <2>1, <2>2, <2>3 DEF TypeOK
  <1>9. EachInOneList'
    <2>1. ToSet(NewConnectionList') \union ToSet(IdleConnectionList')
            = ConnectionIdManager' \ Marked'
      BY <1>0, <1>1, <1>2, <1>3, <1>6 DEF EachInOneList
    <2>2. ToSet(KillConnectionList') = Marked' /\ Marked' \subseteq ConnectionIdManager'
      BY <1>0, <1>2, <1>3, <1>4 DEF EachInOneList
    <2>3. ToSet(NewConnectionList') \intersect ToSet(IdleConnectionList') = {}
      BY <1>0, <1>1 DEF EachInOneList
    <2> QED
      BY <1>1, <1>4, <2>1, <2>2, <2>3 DEF EachInOneList
  <1>10. StampsArePast'
    <2>1. Released' \intersect ConnectionIdManager' = {}
      BY <1>0, <1>2 DEF StampsArePast
    <2>2. \A c \in Conn : IdleTimestampMS'[c] <= Ticker'
      BY <1>0, <1>2, TimeAssumption DEF StampsArePast, TypeOK
    <2> QED
      BY <2>1, <2>2 DEF StampsArePast
  <1>11. ListsInStampOrder'
    BY <1>1, <1>7, SortedByAgree DEF ListsInStampOrder
  <1>12. NoOverdueSurvivor'
    <2>1. IdleTimestampMS \in [Conn -> Nat] /\ NowMS \in Nat
      BY <1>0, TimeAssumption DEF TypeOK
    <2>2. ASSUME NEW c \in ToSet(NewConnectionList')
          PROVE  IdleTimestampMS'[c] + NewTimeout > Ticker'
      <3>1. c \in Conn /\ IdleTimestampMS[c] > NowMS - NewTimeout
        BY <1>1, <1>5
      <3>2. IdleTimestampMS'[c] = IdleTimestampMS[c]
        BY <1>7
      <3> QED
        BY <1>2, <2>1, <3>1, <3>2, TimeAssumption
    <2>3. ASSUME NEW c \in ToSet(IdleConnectionList')
          PROVE  IdleTimestampMS'[c] + IdleTimeout > Ticker'
      <3>1. c \in Conn /\ IdleTimestampMS[c] > NowMS - IdleTimeout
        BY <1>1, <1>5
      <3>2. IdleTimestampMS'[c] = IdleTimestampMS[c]
        BY <1>7
      <3> QED
        BY <1>2, <2>1, <3>1, <3>2, TimeAssumption
    <2> QED
      BY <2>2, <2>3 DEF NoOverdueSurvivor
  <1> QED
    BY <1>8, <1>9, <1>10, <1>11, <1>12 DEF IInv

(* Every operation of the manager keeps the invariant. *)
LEMMA StepIInv == IInv /\ [Next]_vars => IInv'
  <1> SUFFICES ASSUME IInv, [Next]_vars
               PROVE  IInv'
    OBVIOUS
  <1>1. ASSUME NEW c \in Conn, CreateConnection(c) PROVE IInv'
    BY <1>1, CreateIInv
  <1>2. ASSUME NEW c \in Conn, CreateConnectionFails(c) PROVE IInv'
    BY <1>2, CreateFailsIInv
  <1>3. ASSUME NEW c \in Conn, KeepAlive(c) PROVE IInv'
    BY <1>3, KeepAliveIInv
  <1>4. ASSUME NEW c \in Conn, DeferReleaseConnection(c) PROVE IInv'
    BY <1>4, DeferReleaseIInv
  <1>5. ASSUME NEW NowMS \in Ticker..MaxTime, Tick(NowMS) PROVE IInv'
    BY <1>5, TickIInv
  <1>6. CASE UNCHANGED vars
    BY <1>6, StutterIInv
  <1> QED
    BY <1>1, <1>2, <1>3, <1>4, <1>5, <1>6 DEF Next

(* All parts of the inductive invariant hold in every reachable state. *)
THEOREM InductiveInvariant == Spec => []IInv
  BY InitIInv, StepIInv, PTL DEF Spec

(* Type correctness. *)
THEOREM TypeCorrect == Spec => []TypeOK
  <1>1. IInv => TypeOK
    BY DEF IInv
  <1> QED
    BY <1>1, InductiveInvariant, PTL

(* Every connection is linked in exactly one list, once, and the kill list
   holds exactly the marked ones: nothing leaks and nothing is deleted twice. *)
THEOREM OneListEach == Spec => []EachInOneList
  <1>1. IInv => EachInOneList
    BY DEF IInv
  <1> QED
    BY <1>1, InductiveInvariant, PTL

(* No connection outlives its timeout, although Tick looks at heads only. *)
THEOREM TimeoutsAreKept == Spec => []NoOverdueSurvivor
  <1>1. IInv => NoOverdueSurvivor
    BY DEF IInv
  <1> QED
    BY <1>1, InductiveInvariant, PTL

-----------------------------------------------------------------------------
(* The lists implement the reaper: one step of the manager is one step of
   ConnectionReaper, or none. *)

(* A manager without connections is a reaper that has admitted none. *)
LEMMA InitReaper == Init => Reaper!Init
  <1> SUFFICES ASSUME Init PROVE Reaper!Init
    OBVIOUS
  <1>1. Deadline = [c \in Conn |-> 0]
    BY DEF Init, Deadline, ToSet
  <1> QED
    BY <1>1 DEF Init, Reaper!Init

(* Creating a connection admits it, with the deadline of the new list. *)
LEMMA CreateReaper ==
    ASSUME IInv, NEW c \in Conn, CreateConnection(c)
    PROVE  Reaper!Admit(c)
  <1>0. TypeOK /\ EachInOneList
    BY DEF IInv
  <1>1. /\ c \notin ConnectionIdManager /\ c \notin Released /\ c \notin Marked
        /\ c \notin ToSet(IdleConnectionList)
    BY <1>0 DEF CreateConnection, CanAcquire, EachInOneList
  <1>2. ToSet(NewConnectionList') = ToSet(NewConnectionList) \union {c}
    BY <1>0, GrabTailProperties DEF CreateConnection, TypeOK, EachInOneList
  <1>3. Deadline' = [Deadline EXCEPT ![c] = Ticker + NewTimeout]
    BY <1>0, <1>1, <1>2 DEF CreateConnection, Deadline, TypeOK
  <1> QED
    BY <1>1, <1>3 DEF CreateConnection, Reaper!Admit, Reaper!Unused

(* KeepAlive moves the deadline of one connection and of no other. *)
LEMMA KeepAliveReaper ==
    ASSUME IInv, NEW c \in Conn, KeepAlive(c), c \notin Marked
    PROVE  Reaper!Refresh(c)
  <1>0. TypeOK /\ EachInOneList /\ ListsInStampOrder
    BY DEF IInv
  <1>1. /\ ToSet(IdleConnectionList') = ToSet(IdleConnectionList) \union {c}
        /\ ToSet(NewConnectionList') = ToSet(NewConnectionList) \ {c}
        /\ IdleTimestampMS' = [IdleTimestampMS EXCEPT ![c] = Ticker]
    <2>1. /\ IdleConnectionList' = GrabTail(IdleConnectionList, c)
          /\ NewConnectionList' = RemoveFirst(NewConnectionList, c)
          /\ IdleTimestampMS' = [IdleTimestampMS EXCEPT ![c] = Ticker]
      BY DEF KeepAlive
    <2>2. ToSet(IdleConnectionList') = ToSet(IdleConnectionList) \union {c}
      BY <1>0, <2>1, GrabTailProperties DEF TypeOK, EachInOneList
    <2>3. ToSet(NewConnectionList') = ToSet(NewConnectionList) \ {c}
      BY <1>0, <2>1, UnlinkConnection
    <2> QED
      BY <2>1, <2>2, <2>3
  <1>2. Deadline' = [Deadline EXCEPT ![c] = Ticker + IdleTimeout]
    <2>1. /\ IdleTimestampMS'[c] = Ticker
          /\ \A x \in Conn \ {c} : IdleTimestampMS'[x] = IdleTimestampMS[x]
      BY <1>0, <1>1 DEF TypeOK
    <2>2. Deadline'[c] = Ticker + IdleTimeout
      BY <1>1, <2>1 DEF Deadline
    <2>3. \A x \in Conn \ {c} : Deadline'[x] = Deadline[x]
      BY <1>1, <2>1 DEF Deadline
    <2>4. /\ Deadline = [x \in Conn |-> Deadline[x]]
          /\ Deadline' = [x \in Conn |-> Deadline'[x]]
      BY DEF Deadline
    <2> QED
      BY <2>2, <2>3, <2>4
  <1> QED
    BY <1>2 DEF KeepAlive, Reaper!Refresh

(* Releasing a connection dooms it. *)
LEMMA DeferReleaseReaper ==
    ASSUME IInv, NEW c \in Conn, DeferReleaseConnection(c), c \notin Marked
    PROVE  Reaper!Doom(c)
  <1>0. TypeOK /\ EachInOneList /\ ListsInStampOrder
    BY DEF IInv
  <1>1. /\ ToSet(IdleConnectionList') = ToSet(IdleConnectionList) \ {c}
        /\ ToSet(NewConnectionList') = ToSet(NewConnectionList) \ {c}
    BY <1>0, UnlinkConnection DEF DeferReleaseConnection
  <1>2. Deadline' = [Deadline EXCEPT ![c] = 0]
    BY <1>0, <1>1 DEF DeferReleaseConnection, Deadline, TypeOK
  <1> QED
    BY <1>2 DEF DeferReleaseConnection, Reaper!Doom

(* Tick destroys the doomed and exactly those whose deadline has come. *)
LEMMA TickReaper ==
    ASSUME IInv, NEW NowMS \in Ticker..MaxTime, Tick(NowMS)
    PROVE  Reaper!Reap(NowMS)
  <1>0. TypeOK /\ EachInOneList
    BY DEF IInv
  <1> DEFINE D == Condemned
             Active == ConnectionIdManager \ Marked
             Late == Reaper!Overdue(NowMS)
  <1>1. /\ ToSet(NewConnectionList') =
             {c \in ToSet(NewConnectionList) : IdleTimestampMS[c] > NowMS - NewTimeout}
        /\ ToSet(IdleConnectionList') =
             {c \in ToSet(IdleConnectionList) : IdleTimestampMS[c] > NowMS - IdleTimeout}
    BY TickLists
  <1>2. /\ ConnectionIdManager' = ConnectionIdManager \ D
        /\ Released' = Released \union D
        /\ Marked' = Marked \ D
        /\ IdleTimestampMS' = [c \in Conn |-> IF c \in D THEN 0 ELSE IdleTimestampMS[c]]
        /\ Ticker' = NowMS
    BY DEF Tick, DestroyConnections
  <1>3. D = (ToSet(NewConnectionList) \ ToSet(NewConnectionList'))
              \union (ToSet(IdleConnectionList) \ ToSet(IdleConnectionList'))
              \union ToSet(KillConnectionList)
    BY DEF Condemned
  <1> HIDE DEF D
  <1>4. /\ ToSet(NewConnectionList) \subseteq Conn
        /\ ToSet(IdleConnectionList) \subseteq Conn
        /\ IdleTimestampMS \in [Conn -> Nat]
        /\ NowMS \in Nat
    BY <1>0, TimeAssumption DEF TypeOK, ToSet
  <1>5. \A c \in ToSet(NewConnectionList) :
          IdleTimestampMS[c] > NowMS - NewTimeout <=> ~(Deadline[c] <= NowMS)
    BY <1>4, TimeAssumption DEF Deadline
  <1>6. \A c \in ToSet(IdleConnectionList) :
          IdleTimestampMS[c] > NowMS - IdleTimeout <=> ~(Deadline[c] <= NowMS)
    BY <1>0, <1>4, TimeAssumption DEF Deadline, EachInOneList
  <1>7. Active = ToSet(NewConnectionList) \union ToSet(IdleConnectionList)
    BY <1>0 DEF EachInOneList
  <1>8. Late = {c \in Active : Deadline[c] <= NowMS}
    BY DEF Reaper!Overdue
  <1>9. Late = (ToSet(NewConnectionList) \ ToSet(NewConnectionList'))
                 \union (ToSet(IdleConnectionList) \ ToSet(IdleConnectionList'))
    BY <1>1, <1>5, <1>6, <1>7, <1>8
  <1>10. Marked = ToSet(KillConnectionList) /\ Marked \subseteq ConnectionIdManager
    BY <1>0 DEF EachInOneList
  <1>11. D = Late \union Marked
    BY <1>3, <1>9, <1>10
  <1>12. Marked' = {}
    BY <1>2, <1>11
  <1>13. ConnectionIdManager' \ Marked' = Active \ Late
    BY <1>2, <1>11, <1>12
  <1>14. Active \ Late = ToSet(NewConnectionList') \union ToSet(IdleConnectionList')
    BY <1>0, <1>1, <1>7, <1>9 DEF EachInOneList
  <1>15. Deadline' = [c \in Conn |-> IF c \in ConnectionIdManager' \ Marked'
                                     THEN Deadline[c] ELSE 0]
    <2>1. ASSUME NEW c \in Conn
          PROVE  Deadline'[c] = IF c \in ConnectionIdManager' \ Marked'
                                THEN Deadline[c] ELSE 0
      <3>1. CASE c \in ToSet(NewConnectionList')
        <4>1. c \in ToSet(NewConnectionList) /\ c \notin D
          BY <1>0, <1>1, <1>3, <3>1 DEF EachInOneList
        <4> QED
          BY <1>2, <1>13, <1>14, <3>1, <4>1 DEF Deadline
      <3>2. CASE c \in ToSet(IdleConnectionList')
        <4>1. /\ c \in ToSet(IdleConnectionList) /\ c \notin D
              /\ c \notin ToSet(NewConnectionList) /\ c \notin ToSet(NewConnectionList')
          BY <1>0, <1>1, <1>3, <3>2 DEF EachInOneList
        <4> QED
          BY <1>2, <1>13, <1>14, <3>2, <4>1 DEF Deadline
      <3>3. CASE c \notin ToSet(NewConnectionList') /\ c \notin ToSet(IdleConnectionList')
        BY <1>13, <1>14, <3>3 DEF Deadline
      <3> QED
        BY <3>1, <3>2, <3>3
    <2>2. Deadline' = [c \in Conn |-> Deadline'[c]]
      BY DEF Deadline
    <2> HIDE DEF Deadline
    <2> QED
      BY <2>1, <2>2
  <1>16. Released' = Released \union Marked \union Late
    BY <1>2, <1>11
  <1> HIDE DEF Late
  <1> QED
    BY <1>2, <1>12, <1>13, <1>15, <1>16 DEF Reaper!Reap, Late

(* Every operation is a step of the reaper or leaves it alone. *)
LEMMA StepReaper == IInv /\ [Next]_vars => [Reaper!Next]_(Reaper!vars)
  <1> SUFFICES ASSUME IInv, [Next]_vars
               PROVE  [Reaper!Next]_(Reaper!vars)
    OBVIOUS
  <1>1. ASSUME NEW c \in Conn, CreateConnection(c)
        PROVE  Reaper!Next
    BY <1>1, CreateReaper DEF Reaper!Next
  <1>2. ASSUME NEW c \in Conn, CreateConnectionFails(c)
        PROVE  Reaper!Next
    <2>1. Reaper!Abandon(c)
      BY <1>2 DEF IInv, EachInOneList, CreateConnectionFails, CanAcquire, lists,
                  Deadline, Reaper!Abandon, Reaper!Unused
    <2> QED
      BY <2>1 DEF Reaper!Next
  <1>3. UNCHANGED vars => UNCHANGED Reaper!vars
    BY DEF vars, lists, Deadline, Reaper!vars
  <1>4. ASSUME NEW c \in Conn, KeepAlive(c)
        PROVE  [Reaper!Next]_(Reaper!vars)
    <2>1. CASE c \in Marked
      BY <1>3, <1>4, <2>1 DEF KeepAlive
    <2>2. CASE c \notin Marked
      BY <1>4, <2>2, KeepAliveReaper DEF Reaper!Next
    <2> QED
      BY <2>1, <2>2
  <1>5. ASSUME NEW c \in Conn, DeferReleaseConnection(c)
        PROVE  [Reaper!Next]_(Reaper!vars)
    <2>1. CASE c \in Marked
      BY <1>3, <1>5, <2>1 DEF DeferReleaseConnection
    <2>2. CASE c \notin Marked
      BY <1>5, <2>2, DeferReleaseReaper DEF Reaper!Next
    <2> QED
      BY <2>1, <2>2
  <1>6. ASSUME NEW NowMS \in Ticker..MaxTime, Tick(NowMS)
        PROVE  Reaper!Next
    BY <1>6, TickReaper DEF Reaper!Next
  <1> QED
    BY <1>1, <1>2, <1>3, <1>4, <1>5, <1>6 DEF Next

(* A Tick destroys the released connections and exactly those whose timeout
   has passed, and no packet brings a released connection back. *)
THEOREM ImplementsReaper == Spec => ReaperSpec
  <1>1. Init => Reaper!Init
    BY InitReaper
  <1>2. IInv /\ [Next]_vars => [Reaper!Next]_(Reaper!vars)
    BY StepReaper
  <1> QED
    BY <1>1, <1>2, InductiveInvariant, PTL DEF Spec, ReaperSpec, Reaper!Spec

=============================================================================
