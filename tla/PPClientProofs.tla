--------------------------- MODULE PPClientProofs ---------------------------
(***************************************************************************)
(* The server connection client: its inductive invariant and what follows  *)
(* from it, for any number of servers and connections and any intervals.   *)
(***************************************************************************)
EXTENDS PPClient, XListTheorems

(* A list of one node. *)
LEMMA SingleNode ==
    ASSUME NEW c \in Connection
    PROVE  /\ <<c>> \in Seq(Connection)
           /\ IsInjective(<<c>>)
           /\ ToSet(<<c>>) = {c}
           /\ \A stamp : SortedBy(<<c>>, stamp)
  BY DEF IsInjective, ToSet, SortedBy

(* Two finite sets without a member in common. *)
LEMMA DisjointCardinality ==
    ASSUME NEW S, IsFiniteSet(S), NEW T, IsFiniteSet(T), S \intersect T = {}
    PROVE  /\ IsFiniteSet(S \union T)
           /\ Cardinality(S \union T) = Cardinality(S) + Cardinality(T)
  <1>1. /\ IsFiniteSet(S \union T)
        /\ Cardinality(S \union T) = Cardinality(S) + Cardinality(T) - Cardinality(S \intersect T)
    BY FS_Union
  <1>2. Cardinality(S \intersect T) = 0
    BY FS_EmptySet
  <1>3. Cardinality(S) \in Nat /\ Cardinality(T) \in Nat
    BY FS_CardinalityType
  <1> QED
    BY <1>1, <1>2, <1>3

(* The client is made without servers and connections. *)
LEMMA InitIInv == Init => IInv
  <1> SUFFICES ASSUME Init
               PROVE  IInv
    OBVIOUS
  <1> USE DEF Init
  <1>1. IsInjective(<< >>) /\ ToSet(<< >>) = {} /\ << >> \in Seq(Connection)
    BY DEF IsInjective, ToSet
  <1>2. \A stamp : SortedBy(<< >>, stamp)
    BY DEF SortedBy
  <1>3. Allocated = {}
    BY DEF Allocated
  <1>4. TypeOK
    BY <1>1, ClientAssumption DEF TypeOK, FirstNowMS
  <1>5. StateListsPartition
    BY <1>1, <1>3 DEF StateListsPartition
  <1>6. StateOfList /\ ClosingIsEmptied
    BY <1>1, <1>3 DEF StateOfList, ClosingIsEmptied
  <1>7. WatchedOnce
    BY <1>1 DEF WatchedOnce
  <1>8. StampOrder
    BY <1>2 DEF StampOrder
  <1>9. OneConnectionPerServer
    BY <1>3 DEF OneConnectionPerServer
  <1> QED
    BY <1>4, <1>5, <1>6, <1>7, <1>8, <1>9 DEF IInv

(* Only an update of the servers changes whose connection is whose. *)
LEMMA SameServers ==
    ASSUME IInv, UNCHANGED serverVars
    PROVE  Allocated' = Allocated /\ OneConnectionPerServer'
  <1>1. Allocated' = Allocated
    BY DEF Allocated, serverVars
  <1> QED
    BY <1>1 DEF IInv, OneConnectionPerServer, serverVars

(* A connection that the io loop is connecting, or has open, is in the list
   that says so. *)
LEMMA ListOfState ==
    ASSUME IInv, tick = "idle", NEW c \in Connection
    PROVE  /\ tcp[c] = "connecting" => c \in ConnectingNodeList
           /\ tcp[c] = "open" => c \in ToSet(ReadyClientNodeList)
           /\ tcp[c] \in {"connecting", "open"} =>
                c \in Allocated /\ c \notin ReconnectClientNodeList \union ClosingClientNodeList
  BY DEF IInv, StateListsPartition, StateOfList

(* Stamps are times of the past. *)
LEMMA StampsArePast ==
    ASSUME TypeOK
    PROVE  /\ NowMS \in Nat
           /\ \A c \in Connection : LastKeepAliveTimestampMS[c] \in Nat
           /\ \A c \in Connection : LastKeepAliveTimestampMS[c] <= NowMS
           /\ LastKeepAliveTimestampMS \in [Connection -> Int]
  BY ClientAssumption DEF TypeOK

(* OnConnected: the connection moves to the ready list and is watched from now
   on; its stamp is the oldest there is. *)
LEMMA OnConnectedIInv ==
    ASSUME IInv, NEW c \in Connection, OnConnected(c)
    PROVE  IInv'
  <1> DEFINE ready == ReadyClientNodeList
             asleep == ReadyClientKeepAliveNodeList
             stamp == LastKeepAliveTimestampMS
  <1>0. TypeOK
    BY DEF IInv
  <1>1. /\ c \in ConnectingNodeList /\ c \in Allocated
        /\ c \notin ToSet(ready)
        /\ c \notin ReconnectClientNodeList \union ClosingClientNodeList
        /\ c \notin ToSet(asleep) \union ToSet(ReadyClientKeepAliveCheckingNodeList)
    <2>1. c \in ConnectingNodeList /\ c \in Allocated
            /\ c \notin ReconnectClientNodeList \union ClosingClientNodeList
      BY ListOfState DEF OnConnected
    <2>2. c \notin ToSet(ready)
      BY <2>1 DEF IInv, StateListsPartition
    <2> QED
      BY <2>1, <2>2 DEF IInv, WatchedOnce
  <1>2. /\ ready' \in Seq(Connection)
        /\ IsInjective(ready')
        /\ ToSet(ready') = ToSet(ready) \union {c}
    <2>1. ready \in Seq(Connection) /\ IsInjective(ready) /\ ready' = GrabTail(ready, c)
      BY DEF IInv, TypeOK, StateListsPartition, OnConnected
    <2> HIDE DEF ready
    <2> QED
      BY <2>1, GrabTailProperties
  <1>3. asleep \in Seq(Connection) /\ IsInjective(asleep) /\ asleep' = <<c>> \o asleep
    BY DEF IInv, TypeOK, WatchedOnce, OnConnected, AskedFirst
  <1>4. /\ asleep' \in Seq(Connection)
        /\ IsInjective(asleep')
        /\ ToSet(asleep') = {c} \union ToSet(asleep)
    <2> DEFINE head == <<c>>
    <2>1. ToSet(head) \intersect ToSet(asleep) = {}
      BY <1>1, SingleNode
    <2>2. head \in Seq(Connection) /\ IsInjective(head) /\ ToSet(head) = {c}
      BY SingleNode
    <2>3. asleep' = head \o asleep
      BY <1>3
    <2> HIDE DEF asleep, head
    <2>4. /\ head \o asleep \in Seq(Connection)
          /\ IsInjective(head \o asleep)
          /\ ToSet(head \o asleep) = ToSet(head) \union ToSet(asleep)
      BY <1>3, <2>1, <2>2, ConcatInjective
    <2> QED
      BY <2>2, <2>3, <2>4
  <1>5. stamp \in [Connection -> Nat] /\ stamp' = [stamp EXCEPT ![c] = 0]
    BY <1>0, StampsArePast DEF OnConnected, TypeOK
  <1>6. SortedBy(asleep', stamp')
    <2>1. SortedBy(asleep, stamp)
      BY DEF IInv, StampOrder
    <2>2. \A x \in ToSet(asleep) : x \in Connection /\ stamp'[x] = stamp[x]
      BY <1>1, <1>3, <1>5 DEF ToSet
    <2>3. \A x \in ToSet(<<c>>), y \in ToSet(asleep) : stamp'[x] <= stamp'[y]
      BY <1>5, <2>2, SingleNode
    <2> HIDE DEF asleep, stamp
    <2>4. SortedBy(asleep, stamp')
      BY <1>3, <2>1, <2>2, SortedByAgree
    <2> QED
      BY <1>3, <2>3, <2>4, SingleNode, ConcatSorted
  <1>7. SortedBy(ReadyClientKeepAliveCheckingNodeList', stamp')
    <2> DEFINE asked == ReadyClientKeepAliveCheckingNodeList
    <2>1. asked \in Seq(Connection) /\ SortedBy(asked, stamp) /\ asked' = asked
      BY DEF IInv, TypeOK, StampOrder, OnConnected
    <2>2. \A x \in ToSet(asked) : stamp'[x] = stamp[x]
      BY <1>1, <1>5, <2>1 DEF ToSet
    <2> HIDE DEF asked, stamp
    <2>3. SortedBy(asked, stamp')
      BY <2>1, <2>2, SortedByAgree
    <2> QED
      BY <2>1, <2>3 DEF asked
  <1>8. TypeOK'
    BY <1>0, <1>2, <1>4, StampsArePast DEF TypeOK, OnConnected, serverVars, tickVars
  <1>9. Allocated' = Allocated /\ OneConnectionPerServer'
    BY SameServers DEF OnConnected
  <1>10. StateListsPartition'
    BY <1>1, <1>2, <1>9 DEF IInv, StateListsPartition, OnConnected
  <1>11. StateOfList' /\ ClosingIsEmptied'
    BY <1>0, <1>1, <1>2, <1>9
       DEF IInv, TypeOK, StateOfList, ClosingIsEmptied, StateListsPartition, OnConnected, tickVars
  <1>12. WatchedOnce'
    BY <1>1, <1>2, <1>4 DEF IInv, WatchedOnce, OnConnected
  <1>13. StampOrder'
    BY <1>6, <1>7 DEF StampOrder
  <1> QED
    BY <1>8, <1>9, <1>10, <1>11, <1>12, <1>13 DEF IInv

(* OnPeerClose: the connection is put aside, watched or not. *)
LEMMA OnPeerCloseIInv ==
    ASSUME IInv, NEW c \in Connection, OnPeerClose(c)
    PROVE  IInv'
  <1> DEFINE ready == ReadyClientNodeList
  <1>0. TypeOK
    BY DEF IInv
  <1>1. /\ c \in ConnectingNodeList \union ToSet(ready) /\ c \in Allocated
        /\ c \notin ReconnectClientNodeList \union ClosingClientNodeList
    BY ListOfState DEF OnPeerClose
  <1>2. /\ ready' \in Seq(Connection)
        /\ IsInjective(ready')
        /\ ToSet(ready') = ToSet(ready) \ {c}
    <2>1. ready \in Seq(Connection) /\ IsInjective(ready) /\ ready' = Without(ready, {c})
      BY DEF IInv, TypeOK, StateListsPartition, OnPeerClose
    <2> HIDE DEF ready
    <2> QED
      BY <2>1, WithoutProperties
  <1>3. TypeOK'
    BY <1>0, <1>2 DEF TypeOK, OnPeerClose, serverVars, tickVars, keepAliveVars
  <1>4. Allocated' = Allocated /\ OneConnectionPerServer'
    BY SameServers DEF OnPeerClose
  <1>5. StateListsPartition'
    BY <1>1, <1>2, <1>4 DEF IInv, StateListsPartition, OnPeerClose
  <1>6. StateOfList' /\ ClosingIsEmptied'
    BY <1>0, <1>1, <1>2, <1>4
       DEF IInv, TypeOK, StateOfList, ClosingIsEmptied, StateListsPartition, OnPeerClose, tickVars
  <1>7. WatchedOnce'
    BY <1>2 DEF IInv, WatchedOnce, OnPeerClose, keepAliveVars
  <1>8. StampOrder'
    BY DEF IInv, StampOrder, OnPeerClose, keepAliveVars
  <1> QED
    BY <1>3, <1>4, <1>5, <1>6, <1>7, <1>8 DEF IInv

(* An answer: the connection is silent from now on, nobody for a shorter time. *)
LEMMA OnKeepAliveIInv ==
    ASSUME IInv, NEW c \in Connection, OnKeepAlive(c)
    PROVE  IInv'
  <1> DEFINE asleep == ReadyClientKeepAliveNodeList
             asked == ReadyClientKeepAliveCheckingNodeList
             stamp == LastKeepAliveTimestampMS
  <1>0. TypeOK
    BY DEF IInv
  <1>1. c \in ToSet(ReadyClientNodeList)
    BY ListOfState DEF OnKeepAlive
  <1>2. /\ asleep \in Seq(Connection) /\ IsInjective(asleep) /\ asleep' = GrabTail(asleep, c)
        /\ asked \in Seq(Connection) /\ IsInjective(asked) /\ asked' = Without(asked, {c})
    BY DEF IInv, TypeOK, WatchedOnce, OnKeepAlive
  <1>3. /\ stamp \in [Connection -> Nat] /\ stamp' = [stamp EXCEPT ![c] = NowMS]
        /\ \A x \in Connection : stamp[x] <= NowMS
    BY <1>0, StampsArePast DEF OnKeepAlive, TypeOK
  <1>4. SortedBy(asleep, stamp) /\ SortedBy(asked, stamp)
    BY DEF IInv, StampOrder
  <1>5. /\ asleep' \in Seq(Connection)
        /\ IsInjective(asleep')
        /\ ToSet(asleep') = ToSet(asleep) \union {c}
    <2> HIDE DEF asleep
    <2> QED
      BY <1>2, GrabTailProperties
  <1>6. /\ asked' \in Seq(Connection)
        /\ IsInjective(asked')
        /\ ToSet(asked') = ToSet(asked) \ {c}
    <2> HIDE DEF asked
    <2> QED
      BY <1>2, WithoutProperties
  <1>7. SortedBy(asleep', stamp')
    <2>1. \A x \in ToSet(asleep) \ {c} : x \in Connection /\ stamp'[x] = stamp[x]
      BY <1>2, <1>3 DEF ToSet
    <2>2. \A x \in ToSet(asleep) \ {c} : stamp'[x] <= stamp'[c]
      BY <1>3, <2>1
    <2> HIDE DEF asleep, stamp
    <2> QED
      BY <1>2, <1>4, <2>1, <2>2, GrabTailSorted
  <1>8. SortedBy(asked', stamp')
    <2>0. ToSet(asked) \subseteq Connection
      BY <1>2 DEF ToSet
    <2>1. \A x \in ToSet(asked') : stamp'[x] = stamp[x]
      BY <1>3, <1>6, <2>0
    <2> HIDE DEF asked, stamp
    <2>2. SortedBy(asked', stamp)
      BY <1>2, <1>4, WithoutProperties
    <2> QED
      BY <1>6, <2>1, <2>2, SortedByAgree
  <1>9. TypeOK'
    BY <1>0, <1>5, <1>6 DEF TypeOK, OnKeepAlive, serverVars, stateLists, tickVars
  <1>10. Allocated' = Allocated /\ OneConnectionPerServer'
    BY SameServers DEF OnKeepAlive
  <1>11. StateListsPartition' /\ StateOfList' /\ ClosingIsEmptied'
    BY <1>10 DEF IInv, StateListsPartition, StateOfList, ClosingIsEmptied, OnKeepAlive,
                 stateLists, tickVars
  <1>12. WatchedOnce'
    BY <1>1, <1>5, <1>6 DEF IInv, WatchedOnce, OnKeepAlive, stateLists
  <1>13. StampOrder'
    BY <1>7, <1>8 DEF StampOrder
  <1> QED
    BY <1>9, <1>10, <1>11, <1>12, <1>13 DEF IInv

(* PickConnection: the head becomes the tail. *)
LEMMA PickConnectionIInv ==
    ASSUME IInv, PickConnection
    PROVE  IInv'
  <1> DEFINE ready == ReadyClientNodeList
  <1>0. TypeOK
    BY DEF IInv
  <1>1. /\ ready' \in Seq(Connection)
        /\ IsInjective(ready')
        /\ ToSet(ready') = ToSet(ready)
    <2>1. /\ ready \in Seq(Connection) /\ IsInjective(ready) /\ ready # << >>
          /\ ready' = GrabTail(ready, Head(ready))
      BY DEF IInv, TypeOK, StateListsPartition, PickConnection
    <2> HIDE DEF ready
    <2>2. Head(ready) \in Connection /\ Head(ready) \in ToSet(ready)
      BY <2>1, HeadTailOfInjective
    <2>3. /\ GrabTail(ready, Head(ready)) \in Seq(Connection)
          /\ IsInjective(GrabTail(ready, Head(ready)))
          /\ ToSet(GrabTail(ready, Head(ready))) = ToSet(ready) \union {Head(ready)}
      BY <2>1, <2>2, GrabTailProperties
    <2> QED
      BY <2>1, <2>2, <2>3
  <1>2. TypeOK'
    BY <1>0, <1>1 DEF TypeOK, PickConnection, serverVars, keepAliveVars, tickVars
  <1>3. Allocated' = Allocated /\ OneConnectionPerServer'
    BY SameServers DEF PickConnection
  <1>4. StateListsPartition' /\ StateOfList' /\ ClosingIsEmptied'
    BY <1>1, <1>3 DEF IInv, StateListsPartition, StateOfList, ClosingIsEmptied,
                      PickConnection, tickVars
  <1>5. WatchedOnce'
    BY <1>1 DEF IInv, WatchedOnce, PickConnection, keepAliveVars
  <1>6. StampOrder'
    BY DEF IInv, StampOrder, PickConnection, keepAliveVars
  <1> QED
    BY <1>2, <1>3, <1>4, <1>5, <1>6 DEF IInv

(* TickBegins: who was closing is to be reconnected, and no longer watched. *)
LEMMA TickBeginsIInv ==
    ASSUME IInv, NEW t \in NowMS..MaxTime, TickBegins(t)
    PROVE  IInv'
  <1> DEFINE asleep == ReadyClientKeepAliveNodeList
             asked == ReadyClientKeepAliveCheckingNodeList
             closing == ClosingClientNodeList
  <1>0. TypeOK
    BY DEF IInv
  <1>1. /\ asleep \in Seq(Connection) /\ IsInjective(asleep)
        /\ asked \in Seq(Connection) /\ IsInjective(asked)
        /\ asleep' = Without(asleep, closing) /\ asked' = Without(asked, closing)
    BY DEF IInv, TypeOK, WatchedOnce, TickBegins, Unwatched
  <1>2. SortedBy(asleep, LastKeepAliveTimestampMS) /\ SortedBy(asked, LastKeepAliveTimestampMS)
    BY DEF IInv, StampOrder
  <1>3. /\ asleep' \in Seq(Connection)
        /\ IsInjective(asleep')
        /\ ToSet(asleep') = ToSet(asleep) \ closing
        /\ SortedBy(asleep', LastKeepAliveTimestampMS)
    <2> HIDE DEF asleep, closing
    <2> QED
      BY <1>1, <1>2, WithoutProperties
  <1>4. /\ asked' \in Seq(Connection)
        /\ IsInjective(asked')
        /\ ToSet(asked') = ToSet(asked) \ closing
        /\ SortedBy(asked', LastKeepAliveTimestampMS)
    <2> HIDE DEF asked, closing
    <2> QED
      BY <1>1, <1>2, WithoutProperties
  <1>5. TypeOK'
    <2>1. NowMS' = t /\ t \in StartTime..MaxTime /\ t >= NowMS
      BY <1>0, ClientAssumption DEF TypeOK, TickBegins
    <2>2. LastKeepAliveTimestampMS' \in [Connection -> {0} \union StartTime..NowMS']
      BY <1>0, <2>1, ClientAssumption DEF TypeOK, TickBegins
    <2>3. LastReconnectTimestampMS' \in {0} \union StartTime..NowMS'
      BY <1>0, <2>1, ClientAssumption DEF TypeOK, TickBegins
    <2> QED
      BY <1>0, <1>3, <1>4, <2>1, <2>2, <2>3 DEF TypeOK, TickBegins, serverVars
  <1>6. Allocated' = Allocated /\ OneConnectionPerServer'
    BY SameServers DEF TickBegins
  <1>7. StateListsPartition'
    BY <1>6 DEF IInv, StateListsPartition, TickBegins
  <1>8. ClosingIsEmptied'
    BY DEF ClosingIsEmptied, TickBegins
  <1>9. StateOfList'
    BY <1>0, <1>6 DEF IInv, TypeOK, StateOfList, StateListsPartition, TickBegins
  <1>10. WatchedOnce'
    BY <1>3, <1>4 DEF IInv, StateListsPartition, WatchedOnce, TickBegins
  <1>11. StampOrder'
    BY <1>3, <1>4 DEF StampOrder, TickBegins
  <1> QED
    BY <1>5, <1>6, <1>7, <1>8, <1>9, <1>10, <1>11 DEF IInv

(* CleanTimeoutConnection closes a connection and leaves it where it is. *)
LEMMA CleanTimeoutIInv ==
    ASSUME IInv, CleanTimeoutConnection
    PROVE  IInv'
  <1>0. TypeOK
    BY DEF IInv
  <1>1. PICK c \in ConnectingNodeList : tcp' = [tcp EXCEPT ![c] = "closed"]
    BY DEF CleanTimeoutConnection
  <1>2. ConnectingNodeList' = ConnectingNodeList
    BY DEF CleanTimeoutConnection
  <1>3. c \in Connection /\ c \in Allocated /\ c \notin ToSet(ReadyClientNodeList)
          /\ c \notin ReconnectClientNodeList \union ClosingClientNodeList
    BY <1>0 DEF IInv, TypeOK, StateListsPartition
  <1>4. TypeOK'
    BY <1>0, <1>1, <1>2 DEF TypeOK, CleanTimeoutConnection, serverVars, keepAliveVars, tickVars
  <1>5. Allocated' = Allocated /\ OneConnectionPerServer'
    BY SameServers DEF CleanTimeoutConnection
  <1>6. StateListsPartition'
    BY <1>2, <1>5 DEF IInv, StateListsPartition, CleanTimeoutConnection
  <1>7. StateOfList' /\ ClosingIsEmptied'
    BY <1>0, <1>1, <1>2, <1>3, <1>5
       DEF IInv, TypeOK, StateOfList, ClosingIsEmptied, CleanTimeoutConnection, tickVars
  <1>8. WatchedOnce' /\ StampOrder'
    BY DEF IInv, WatchedOnce, StampOrder, CleanTimeoutConnection, keepAliveVars
  <1> QED
    BY <1>4, <1>5, <1>6, <1>7, <1>8 DEF IInv

(* Reconnect: everyone who waits for it is connecting. *)
LEMMA ReconnectIInv ==
    ASSUME IInv, Reconnect
    PROVE  IInv'
  <1>0. TypeOK
    BY DEF IInv
  <1>1. TypeOK'
    <2>1. NowMS \in StartTime..NowMS
      BY <1>0, ClientAssumption DEF TypeOK
    <2> QED
      BY <1>0, <2>1 DEF TypeOK, Reconnect, serverVars, keepAliveVars
  <1>2. Allocated' = Allocated /\ OneConnectionPerServer'
    BY SameServers DEF Reconnect
  <1>3. StateListsPartition'
    BY <1>2 DEF IInv, StateListsPartition, Reconnect
  <1>4. StateOfList'
    BY <1>0, <1>2 DEF IInv, TypeOK, StateOfList, StateListsPartition, Reconnect
  <1>5. ClosingIsEmptied'
    BY DEF IInv, ClosingIsEmptied, Reconnect
  <1>6. WatchedOnce' /\ StampOrder'
    BY DEF IInv, WatchedOnce, StampOrder, Reconnect, keepAliveVars
  <1> QED
    BY <1>1, <1>2, <1>3, <1>4, <1>5, <1>6 DEF IInv

(* What KeepAlive does to the keepalive lists: who is taken from the first is
   put into the second, with the present as its stamp; what is left of each is
   young, and the lists stay in stamp order. *)
LEMMA KeepAliveLists ==
    ASSUME IInv, KeepAlive
    PROVE  LET asleep == ReadyClientKeepAliveNodeList
               asked == ReadyClientKeepAliveCheckingNodeList
               stamp == LastKeepAliveTimestampMS
               lost == ToSet(asked) \ ToSet(PopHeadWhile(asked, StampedBy(NowMS - ResponseTimeout)))
           IN  /\ asleep' \in Seq(Connection) /\ IsInjective(asleep')
               /\ asked' \in Seq(Connection) /\ IsInjective(asked')
               /\ ToSet(asleep') \subseteq ToSet(asleep)
               /\ ToSet(asked') = (ToSet(asked) \ lost) \union (ToSet(asleep) \ ToSet(asleep'))
               /\ stamp' \in [Connection -> {0} \union StartTime..NowMS]
               /\ SortedBy(asleep', stamp') /\ SortedBy(asked', stamp')
               /\ \A c \in ToSet(asleep') : stamp'[c] > NowMS - KeepAliveInterval
               /\ \A c \in ToSet(asked') : stamp'[c] > NowMS - ResponseTimeout
  <1> DEFINE asleep == ReadyClientKeepAliveNodeList
             asked == ReadyClientKeepAliveCheckingNodeList
             stamp == LastKeepAliveTimestampMS
             silent == StampedBy(NowMS - KeepAliveInterval)
             late == StampedBy(NowMS - ResponseTimeout)
             resting == PopHeadWhile(asleep, silent)
             taken == SubSeq(asleep, 1, Len(asleep) - Len(resting))
             waiting == PopHeadWhile(asked, late)
             lost == ToSet(asked) \ ToSet(waiting)
  <1>0. TypeOK
    BY DEF IInv
  <1>1. /\ asleep \in Seq(Connection) /\ IsInjective(asleep)
        /\ asked \in Seq(Connection) /\ IsInjective(asked)
        /\ ToSet(asleep) \intersect ToSet(asked) = {}
        /\ SortedBy(asleep, stamp) /\ SortedBy(asked, stamp)
    BY DEF IInv, TypeOK, WatchedOnce, StampOrder
  <1>2. /\ asleep' = resting
        /\ asked' = waiting \o taken
        /\ stamp' = [c \in Connection |-> IF c \in ToSet(taken) THEN NowMS ELSE stamp[c]]
    BY DEF KeepAlive
  <1>3. /\ NowMS \in Nat /\ NowMS \in StartTime..NowMS
        /\ NowMS - KeepAliveInterval \in Int /\ NowMS - ResponseTimeout \in Int
        /\ NowMS > NowMS - ResponseTimeout
    BY <1>0, ClientAssumption DEF TypeOK
  <1>4. /\ stamp \in [Connection -> Int]
        /\ \A c \in Connection : stamp[c] <= NowMS
        /\ stamp \in [Connection -> {0} \union StartTime..NowMS]
    BY <1>0, StampsArePast DEF TypeOK
  <1>5. /\ \A c \in Connection : c \notin silent => stamp[c] > NowMS - KeepAliveInterval
        /\ \A c \in Connection : c \notin late => stamp[c] > NowMS - ResponseTimeout
    BY <1>3, <1>4 DEF StampedBy
  <1> HIDE DEF asleep, asked, stamp, silent, late
  <1>6. /\ resting \in Seq(Connection) /\ IsInjective(resting)
        /\ ToSet(resting) \subseteq ToSet(asleep)
        /\ SortedBy(resting, stamp)
        /\ \A c \in ToSet(resting) : stamp[c] > NowMS - KeepAliveInterval
    <2>1. /\ resting \in Seq(Connection) /\ IsInjective(resting)
          /\ ToSet(resting) \subseteq ToSet(asleep)
      BY <1>1, PopHeadWhileProperties
    <2>2. SortedBy(resting, stamp)
      BY <1>1, PopHeadWhileSorted
    <2>3. \A c \in ToSet(resting) : stamp[c] > NowMS - KeepAliveInterval
      BY <1>1, <1>3, <1>4, <1>5, PopHeadWhileComplete
    <2> QED
      BY <2>1, <2>2, <2>3
  <1>7. /\ waiting \in Seq(Connection) /\ IsInjective(waiting)
        /\ ToSet(waiting) \subseteq ToSet(asked)
        /\ SortedBy(waiting, stamp)
        /\ \A c \in ToSet(waiting) : stamp[c] > NowMS - ResponseTimeout
    <2>1. /\ waiting \in Seq(Connection) /\ IsInjective(waiting)
          /\ ToSet(waiting) \subseteq ToSet(asked)
      BY <1>1, PopHeadWhileProperties
    <2>2. SortedBy(waiting, stamp)
      BY <1>1, PopHeadWhileSorted
    <2>3. \A c \in ToSet(waiting) : stamp[c] > NowMS - ResponseTimeout
      BY <1>1, <1>3, <1>4, <1>5, PopHeadWhileComplete
    <2> QED
      BY <2>1, <2>2, <2>3
  <1>8. /\ taken \in Seq(Connection) /\ IsInjective(taken)
        /\ ToSet(taken) = ToSet(asleep) \ ToSet(resting)
    BY <1>1, PoppedProperties
  <1> HIDE DEF resting, waiting, taken
  <1>9. ToSet(waiting) \intersect ToSet(taken) = {}
    BY <1>1, <1>7, <1>8
  <1>10. /\ waiting \o taken \in Seq(Connection)
         /\ IsInjective(waiting \o taken)
         /\ ToSet(waiting \o taken) = ToSet(waiting) \union ToSet(taken)
    BY <1>7, <1>8, <1>9, ConcatInjective
  <1>11. /\ ToSet(resting) \subseteq Connection
         /\ ToSet(waiting) \subseteq Connection
         /\ ToSet(taken) \subseteq Connection
    BY <1>6, <1>7, <1>8 DEF ToSet
  <1>12. /\ \A c \in ToSet(resting) : stamp'[c] = stamp[c]
         /\ \A c \in ToSet(waiting) : stamp'[c] = stamp[c]
         /\ \A c \in ToSet(taken) : stamp'[c] = NowMS
    BY <1>2, <1>8, <1>9, <1>11
  <1>13. SortedBy(resting, stamp')
    BY <1>6, <1>12, SortedByAgree
  <1>14. SortedBy(waiting \o taken, stamp')
    <2>1. SortedBy(waiting, stamp')
      BY <1>7, <1>12, SortedByAgree
    <2>2. SortedBy(taken, stamp')
      <3>1. \A i \in DOMAIN taken : stamp'[taken[i]] = NowMS
        BY <1>12 DEF ToSet
      <3> QED
        BY <1>3, <3>1 DEF SortedBy
    <2>3. \A x \in ToSet(waiting), y \in ToSet(taken) : stamp'[x] <= stamp'[y]
      BY <1>4, <1>11, <1>12
    <2> QED
      BY <1>7, <1>8, <2>1, <2>2, <2>3, ConcatSorted
  <1>15. stamp' \in [Connection -> {0} \union StartTime..NowMS]
    BY <1>2, <1>3, <1>4
  <1>16. \A c \in ToSet(resting) : stamp'[c] > NowMS - KeepAliveInterval
    BY <1>6, <1>12
  <1>17. \A c \in ToSet(waiting \o taken) : stamp'[c] > NowMS - ResponseTimeout
    BY <1>3, <1>7, <1>10, <1>12
  <1>18. ToSet(waiting) = ToSet(asked) \ lost
    BY <1>7
  <1> QED
    BY <1>2, <1>6, <1>8, <1>10, <1>13, <1>14, <1>15, <1>16, <1>17, <1>18
       DEF asleep, asked, stamp, late, waiting

(* KeepAlive: who did not answer leaves the ready list, to be reconnected. *)
LEMMA KeepAliveIInv ==
    ASSUME IInv, KeepAlive
    PROVE  IInv'
  <1> DEFINE asleep == ReadyClientKeepAliveNodeList
             asked == ReadyClientKeepAliveCheckingNodeList
             ready == ReadyClientNodeList
             lost == ToSet(asked) \ ToSet(PopHeadWhile(asked, StampedBy(NowMS - ResponseTimeout)))
  <1>0. TypeOK
    BY DEF IInv
  <1>1. /\ tcp' = [c \in Connection |-> IF c \in lost THEN "closed" ELSE tcp[c]]
        /\ ready' = Without(ready, lost)
        /\ ReconnectClientNodeList' = ReconnectClientNodeList \union lost
        /\ tick = "keepalive" /\ tick' = "idle"
        /\ UNCHANGED <<serverVars, ConnectingNodeList, ClosingClientNodeList,
                       NowMS, LastReconnectTimestampMS>>
    BY DEF KeepAlive
  <1>2. /\ asleep' \in Seq(Connection) /\ IsInjective(asleep')
        /\ asked' \in Seq(Connection) /\ IsInjective(asked')
        /\ ToSet(asleep') \subseteq ToSet(asleep)
        /\ ToSet(asked') = (ToSet(asked) \ lost) \union (ToSet(asleep) \ ToSet(asleep'))
        /\ LastKeepAliveTimestampMS' \in [Connection -> {0} \union StartTime..NowMS]
        /\ SortedBy(asleep', LastKeepAliveTimestampMS') /\ SortedBy(asked', LastKeepAliveTimestampMS')
    BY KeepAliveLists
  <1>3. lost \subseteq ToSet(asked)
    OBVIOUS
  <1> HIDE DEF lost
  <1>4. lost \subseteq ToSet(ready) /\ ClosingClientNodeList = {}
    BY <1>1, <1>3 DEF IInv, ClosingIsEmptied, WatchedOnce
  <1>5. /\ ready' \in Seq(Connection)
        /\ IsInjective(ready')
        /\ ToSet(ready') = ToSet(ready) \ lost
    <2>1. ready \in Seq(Connection) /\ IsInjective(ready)
      BY DEF IInv, TypeOK, StateListsPartition
    <2> HIDE DEF ready
    <2> QED
      BY <1>1, <2>1, WithoutProperties
  <1>6. lost \subseteq Connection
    BY <1>0, <1>4 DEF TypeOK, ToSet
  <1>7. TypeOK'
    BY <1>0, <1>1, <1>2, <1>5, <1>6 DEF TypeOK, serverVars
  <1>8. Allocated' = Allocated /\ OneConnectionPerServer'
    BY <1>1, SameServers
  <1>9. StateListsPartition'
    BY <1>1, <1>4, <1>5, <1>8 DEF IInv, StateListsPartition
  <1>10. StateOfList' /\ ClosingIsEmptied'
    <2>1. StateListsPartition /\ StateOfList
      BY DEF IInv
    <2> QED
      BY <1>1, <1>4, <1>5, <1>8, <2>1 DEF StateOfList, StateListsPartition, ClosingIsEmptied
  <1>11. WatchedOnce'
    <2>1. WatchedOnce
      BY DEF IInv
    <2> QED
      BY <1>1, <1>2, <1>3, <1>4, <1>5, <2>1 DEF WatchedOnce
  <1>12. StampOrder'
    BY <1>2 DEF StampOrder
  <1> QED
    BY <1>7, <1>8, <1>9, <1>10, <1>11, <1>12 DEF IInv

(* The ready connections that survive an update are to servers of the new
   list, each to another one. *)
LEMMA SurvivorsProperties ==
    ASSUME NEW S
    PROVE  /\ Survivors(S) \subseteq ToSet(ReadyClientNodeList)
           /\ \A c \in Survivors(S) : ServerAddress[c] \in S
           /\ ReadyClientNodeList \in Seq(Connection) =>
                \A c, d \in Survivors(S) : ServerAddress[c] = ServerAddress[d] => c = d
  <1> DEFINE l == ReadyClientNodeList
             First(n) == /\ ServerAddress[l[n]] \in S
                         /\ \A m \in 1..(n - 1) : ServerAddress[l[m]] # ServerAddress[l[n]]
  <1>1. Survivors(S) = {l[i] : i \in {n \in DOMAIN l : First(n)}}
    BY DEF Survivors
  <1>2. ASSUME l \in Seq(Connection), NEW i \in DOMAIN l, NEW j \in DOMAIN l,
               First(i), First(j), ServerAddress[l[i]] = ServerAddress[l[j]]
        PROVE  i = j
    <2>1. i \in 1..Len(l) /\ j \in 1..Len(l)
      BY <1>2
    <2>2. ~(i < j)
      <3>1. i < j => i \in 1..(j - 1)
        BY <2>1
      <3> QED
        BY <1>2, <3>1
    <2>3. ~(j < i)
      <3>1. j < i => j \in 1..(i - 1)
        BY <2>1
      <3> QED
        BY <1>2, <3>1
    <2> QED
      BY <2>1, <2>2, <2>3
  <1>3. Survivors(S) \subseteq ToSet(l) /\ \A c \in Survivors(S) : ServerAddress[c] \in S
    BY <1>1 DEF ToSet
  <1>4. ASSUME l \in Seq(Connection), NEW c \in Survivors(S), NEW d \in Survivors(S),
               ServerAddress[c] = ServerAddress[d]
        PROVE  c = d
    <2> HIDE DEF First, l
    <2>1. PICK i \in DOMAIN l : First(i) /\ c = l[i]
      BY <1>1
    <2>2. PICK j \in DOMAIN l : First(j) /\ d = l[j]
      BY <1>1
    <2>3. i = j
      BY <1>2, <1>4, <2>1, <2>2
    <2> QED
      BY <2>1, <2>2, <2>3
  <1> QED
    BY <1>3, <1>4

(* UpdateServerAddresses: what is kept of the ready connections, and one new
   connection for every server that none of them is to. *)
LEMMA UpdateIInv ==
    ASSUME IInv, NEW S \in SUBSET Server, UpdateServerAddresses(S)
    PROVE  IInv'
  <1> DEFINE ready == ReadyClientNodeList
             asleep == ReadyClientKeepAliveNodeList
             asked == ReadyClientKeepAliveCheckingNodeList
             stamp == LastKeepAliveTimestampMS
             kept == Survivors(S)
             freed == (ToSet(ready) \ kept) \union ConnectingNodeList \union ReconnectClientNodeList
             missing == S \ {ServerAddress[c] : c \in kept}
  <1>0. TypeOK
    BY DEF IInv
  <1>1. PICK new \in Injection(missing, (Connection \ Allocated) \union freed) :
          /\ ReconnectClientNodeList' = {new[s] : s \in missing}
          /\ ServerAddress' =
               [c \in Connection |->
                  IF \E s \in missing : new[s] = c THEN CHOOSE s \in missing : new[s] = c
                  ELSE IF c \in freed THEN None ELSE ServerAddress[c]]
    BY DEF UpdateServerAddresses
  <1>2. /\ tick = "idle"
        /\ ServerAddresses' = S
        /\ tcp' = [c \in Connection |-> IF c \in freed THEN "closed" ELSE tcp[c]]
        /\ ready' = Without(ready, freed)
        /\ ConnectingNodeList' = {}
        /\ asleep' = Without(asleep, freed)
        /\ asked' = Without(asked, freed)
        /\ stamp' = [c \in Connection |-> IF c \in freed THEN 0 ELSE stamp[c]]
        /\ Outlived' = ClosingClientNodeList
        /\ UNCHANGED <<ClosingClientNodeList, tickVars>>
    BY DEF UpdateServerAddresses
  <1>3. /\ kept \subseteq ToSet(ready)
        /\ \A c \in kept : ServerAddress[c] \in S
        /\ \A c, d \in kept : ServerAddress[c] = ServerAddress[d] => c = d
    BY <1>0, SurvivorsProperties DEF TypeOK
  <1>4. /\ freed \subseteq Allocated
        /\ freed \intersect ClosingClientNodeList = {}
        /\ freed \intersect kept = {}
        /\ Allocated = kept \union freed \union ClosingClientNodeList
        /\ kept \intersect ClosingClientNodeList = {}
        /\ ToSet(ready) \ freed = kept
    BY <1>3 DEF IInv, StateListsPartition
  <1>5. Allocated \subseteq Connection
    BY DEF Allocated
  <1> DEFINE fresh == {new[s] : s \in missing}
  <1> HIDE DEF kept, freed
  <1>6. /\ \A s \in missing : new[s] \in (Connection \ Allocated) \union freed
        /\ \A r, s \in missing : new[r] = new[s] => r = s
    <2>1. new \in [missing -> (Connection \ Allocated) \union freed] /\ IsInjective(new)
      BY <1>1 DEF Injection
    <2>2. DOMAIN new = missing
      BY <2>1
    <2>3. \A s \in missing : new[s] \in (Connection \ Allocated) \union freed
      <3> HIDE DEF missing
      <3> QED
        BY <2>1
    <2> QED
      BY <2>1, <2>2, <2>3 DEF IsInjective
  <1>7. /\ fresh \subseteq Connection
        /\ fresh \intersect kept = {}
        /\ fresh \intersect ClosingClientNodeList = {}
        /\ fresh \subseteq (Connection \ Allocated) \union freed
    BY <1>4, <1>5, <1>6
  <1>8. \A s \in missing : ServerAddress'[new[s]] = s
    <2> SUFFICES ASSUME NEW s \in missing
                 PROVE  ServerAddress'[new[s]] = s
      OBVIOUS
    <2>1. new[s] \in Connection
      BY <1>7
    <2>2. ServerAddress'[new[s]] = CHOOSE r \in missing : new[r] = new[s]
      BY <1>1, <2>1
    <2>3. \A r \in missing : new[r] = new[s] <=> r = s
      BY <1>6
    <2> QED
      BY <2>2, <2>3
  <1>9. \A c \in Connection \ fresh :
          ServerAddress'[c] = IF c \in freed THEN None ELSE ServerAddress[c]
    BY <1>1
  <1>10. missing \subseteq S /\ S \subseteq Server /\ None \notin S
    BY ClientAssumption
  <1>11. Allocated' = kept \union ClosingClientNodeList \union fresh
    <2>1. \A c \in fresh : ServerAddress'[c] # None
      BY <1>8, <1>10
    <2>2. \A c \in Connection \ fresh :
            ServerAddress'[c] # None <=> c \notin freed /\ c \in Allocated
      BY <1>9 DEF Allocated
    <2> HIDE DEF fresh
    <2>3. Allocated' = {c \in Connection : ServerAddress'[c] # None}
      BY DEF Allocated
    <2> QED
      BY <1>4, <1>5, <1>7, <2>1, <2>2, <2>3
  <1>12. /\ ready' \in Seq(Connection)
         /\ IsInjective(ready')
         /\ ToSet(ready') = kept
    <2>1. ready \in Seq(Connection) /\ IsInjective(ready)
      BY DEF IInv, TypeOK, StateListsPartition
    <2> HIDE DEF ready
    <2> QED
      BY <1>2, <1>4, <2>1, WithoutProperties
  <1>13. /\ asleep' \in Seq(Connection)
         /\ IsInjective(asleep')
         /\ ToSet(asleep') = ToSet(asleep) \ freed
         /\ SortedBy(asleep', stamp)
    <2>1. asleep \in Seq(Connection) /\ IsInjective(asleep) /\ SortedBy(asleep, stamp)
      BY DEF IInv, TypeOK, WatchedOnce, StampOrder
    <2> HIDE DEF asleep, stamp
    <2> QED
      BY <1>2, <2>1, WithoutProperties
  <1>14. /\ asked' \in Seq(Connection)
         /\ IsInjective(asked')
         /\ ToSet(asked') = ToSet(asked) \ freed
         /\ SortedBy(asked', stamp)
    <2>1. asked \in Seq(Connection) /\ IsInjective(asked) /\ SortedBy(asked, stamp)
      BY DEF IInv, TypeOK, WatchedOnce, StampOrder
    <2> HIDE DEF asked, stamp
    <2> QED
      BY <1>2, <2>1, WithoutProperties
  <1>15. StampOrder'
    <2>1. ToSet(asleep) \subseteq Connection /\ ToSet(asked) \subseteq Connection
      BY <1>0 DEF TypeOK, ToSet
    <2>2. \A c \in ToSet(asleep') : stamp'[c] = stamp[c]
      BY <1>2, <1>13, <2>1
    <2>3. \A c \in ToSet(asked') : stamp'[c] = stamp[c]
      BY <1>2, <1>14, <2>1
    <2> HIDE DEF asleep, asked, stamp
    <2>4. SortedBy(asleep', stamp')
      BY <1>13, <2>2, SortedByAgree
    <2>5. SortedBy(asked', stamp')
      BY <1>14, <2>3, SortedByAgree
    <2> QED
      BY <2>4, <2>5 DEF StampOrder, asleep, asked, stamp
  <1>16. OneConnectionPerServer'
    <2> DEFINE current == Allocated' \ Outlived'
    <2>1. current = kept \union fresh
      BY <1>2, <1>4, <1>7, <1>11
    <2>2. kept \subseteq Connection
      BY <1>4, <1>5
    <2>3. \A c \in kept : ServerAddress'[c] = ServerAddress[c]
      BY <1>4, <1>7, <1>9, <2>2
    <2>4. {ServerAddress'[c] : c \in current} = S
      <3>1. {ServerAddress'[c] : c \in kept} = {ServerAddress[c] : c \in kept}
        BY <2>3
      <3>2. {ServerAddress'[c] : c \in fresh} = missing
        BY <1>8
      <3>3. {ServerAddress[c] : c \in kept} \subseteq S
        BY <1>3
      <3>4. {ServerAddress'[c] : c \in current} =
              {ServerAddress'[c] : c \in kept} \union {ServerAddress'[c] : c \in fresh}
        <4> HIDE DEF current, fresh
        <4> QED
          BY <2>1
      <3> QED
        BY <3>1, <3>2, <3>3, <3>4
    <2>5. ASSUME NEW c \in current, NEW d \in current, ServerAddress'[c] = ServerAddress'[d]
          PROVE  c = d
      <3>1. \A k \in kept : ServerAddress'[k] \notin missing
        BY <2>3
      <3>2. \A f \in fresh : ServerAddress'[f] \in missing
        BY <1>8
      <3>3. CASE c \in kept /\ d \in kept
        BY <1>3, <2>3, <2>5, <3>3
      <3>4. CASE c \in fresh /\ d \in fresh
        <4>1. PICK r \in missing : c = new[r]
          BY <3>4
        <4>2. PICK s \in missing : d = new[s]
          BY <3>4
        <4> QED
          BY <1>8, <2>5, <4>1, <4>2
      <3> HIDE DEF fresh, missing
      <3> QED
        BY <2>1, <2>5, <3>1, <3>2, <3>3, <3>4
    <2> QED
      BY <1>2, <2>4, <2>5 DEF OneConnectionPerServer
  <1> HIDE DEF fresh
  <1>17. ReconnectClientNodeList' = fresh
    BY <1>1 DEF fresh
  <1>18. StateListsPartition'
    BY <1>2, <1>4, <1>7, <1>11, <1>12, <1>17 DEF StateListsPartition
  <1>19. StateOfList'
    <2>1. StateOfList
      BY DEF IInv
    <2>2. ASSUME NEW c \in Connection
          PROVE  /\ c \in kept => tcp'[c] = "open"
                 /\ c \in fresh => tcp'[c] = "closed"
                 /\ c \in ClosingClientNodeList => tcp'[c] = "gone"
                 /\ c \notin kept \union ClosingClientNodeList \union fresh => tcp'[c] = "closed"
      <3>1. c \notin Allocated \/ c \in freed => tcp'[c] = "closed"
        BY <1>2, <2>1 DEF StateOfList
      <3>2. c \notin freed => tcp'[c] = tcp[c]
        BY <1>2
      <3>3. c \in kept => c \in ToSet(ready) /\ c \notin freed
        BY <1>3, <1>4
      <3>4. c \in ClosingClientNodeList => c \notin freed
        BY <1>4
      <3> QED
        BY <1>4, <1>7, <2>1, <3>1, <3>2, <3>3, <3>4 DEF StateOfList
    <2> QED
      BY <1>2, <1>11, <1>12, <1>17, <2>2 DEF StateOfList
  <1>20. ClosingIsEmptied'
    BY <1>2 DEF ClosingIsEmptied, tickVars
  <1>21. WatchedOnce'
    <2>1. WatchedOnce
      BY DEF IInv
    <2> QED
      BY <1>2, <1>4, <1>12, <1>13, <1>14, <2>1 DEF WatchedOnce
  <1>22. TypeOK'
    <2>1. ServerAddress' \in [Connection -> Server \union {None}]
      <3>1. ASSUME NEW c \in Connection
            PROVE  ServerAddress'[c] \in Server \union {None}
        <4>1. CASE c \in fresh
          BY <1>8, <1>10, <4>1 DEF fresh
        <4>2. CASE c \notin fresh
          BY <1>0, <1>9, <4>2 DEF TypeOK
        <4> QED
          BY <4>1, <4>2
      <3>2. ServerAddress' = [c \in Connection |-> ServerAddress'[c]]
        BY <1>1
      <3> QED
        BY <3>1, <3>2
    <2>2. tcp' \in [Connection -> {"closed", "connecting", "open", "gone"}]
      BY <1>0, <1>2 DEF TypeOK
    <2>3. stamp' \in [Connection -> {0} \union StartTime..NowMS]
      BY <1>0, <1>2 DEF TypeOK
    <2>4. Outlived' \subseteq Connection /\ ReconnectClientNodeList' \subseteq Connection
      BY <1>0, <1>2, <1>7, <1>17 DEF TypeOK
    <2> QED
      BY <1>0, <1>2, <1>12, <1>13, <1>14, <2>1, <2>2, <2>3, <2>4 DEF TypeOK, tickVars
  <1> QED
    BY <1>15, <1>16, <1>18, <1>19, <1>20, <1>21, <1>22 DEF IInv

(* Every step of the client. *)
LEMMA StepIInv == IInv /\ [Next]_vars => IInv'
  <1> SUFFICES ASSUME IInv, [Next]_vars
               PROVE  IInv'
    OBVIOUS
  <1>1. CASE \E S \in SUBSET Server : UpdateServerAddresses(S)
    BY <1>1, UpdateIInv
  <1>2. CASE \E c \in Connection : OnConnected(c) \/ OnPeerClose(c) \/ OnKeepAlive(c)
    BY <1>2, OnConnectedIInv, OnPeerCloseIInv, OnKeepAliveIInv
  <1>3. CASE PickConnection
    BY <1>3, PickConnectionIInv
  <1>4. CASE \E t \in NowMS..MaxTime : TickBegins(t)
    BY <1>4, TickBeginsIInv
  <1>5. CASE TickStep
    BY <1>5, CleanTimeoutIInv, ReconnectIInv, KeepAliveIInv DEF TickStep
  <1>6. CASE UNCHANGED vars
    <2> USE <1>6 DEF vars, serverVars, stateLists, keepAliveVars, tickVars
    <2>1. TypeOK'
      BY DEF IInv, TypeOK
    <2>2. Allocated' = Allocated /\ OneConnectionPerServer'
      BY SameServers
    <2>3. StateListsPartition' /\ StateOfList' /\ ClosingIsEmptied'
      BY <2>2 DEF IInv, StateListsPartition, StateOfList, ClosingIsEmptied
    <2>4. WatchedOnce' /\ StampOrder'
      BY DEF IInv, WatchedOnce, StampOrder
    <2> QED
      BY <2>1, <2>2, <2>3, <2>4 DEF IInv
  <1> QED
    BY <1>1, <1>2, <1>3, <1>4, <1>5, <1>6 DEF Next

(* The inductive invariant of the server connection client. *)
THEOREM InductiveInvariant == Spec => []IInv
  BY InitIInv, StepIInv, PTL DEF Spec

(* Every variable of the client keeps its type; times stay within the clock. *)
THEOREM TypeCorrect == Spec => []TypeOK
  <1>1. IInv => TypeOK
    BY DEF IInv
  <1> QED
    BY <1>1, InductiveInvariant, PTL

(* However servers change and connections come and go, every server of the
   list has exactly one connection (client.cpp, UpdateServerAddresses). *)
THEOREM ServersCorrect == Spec => []OneConnectionPerServer
  <1>1. IInv => OneConnectionPerServer
    BY DEF IInv
  <1> QED
    BY <1>1, InductiveInvariant, PTL

(* Every connection object is in exactly one list, the one of its state, so
   nothing is leaked and nothing is reconnected while it is open. *)
THEOREM ListsCorrect == Spec => []ListTellsState
  <1>1. ASSUME IInv
        PROVE  ListTellsState
    <2> DEFINE ready == ToSet(ReadyClientNodeList)
    <2>0. TypeOK /\ StateListsPartition /\ StateOfList
      BY <1>1 DEF IInv
    <2>1. IsFiniteSet(ready) /\ Cardinality(ready) = Len(ReadyClientNodeList)
      BY <2>0, LengthOfInjective DEF TypeOK, StateListsPartition
    <2>2. /\ IsFiniteSet(ConnectingNodeList)
          /\ IsFiniteSet(ReconnectClientNodeList)
          /\ IsFiniteSet(ClosingClientNodeList)
      BY <2>0, ClientAssumption, FS_Subset DEF TypeOK
    <2> HIDE DEF ready
    <2>3. /\ IsFiniteSet(ready \union ConnectingNodeList)
          /\ Cardinality(ready \union ConnectingNodeList) =
               Cardinality(ready) + Cardinality(ConnectingNodeList)
      <3>1. ready \intersect ConnectingNodeList = {}
        BY <2>0 DEF StateListsPartition, ready
      <3> QED
        BY <2>1, <2>2, <3>1, DisjointCardinality
    <2>4. /\ IsFiniteSet(ready \union ConnectingNodeList \union ReconnectClientNodeList)
          /\ Cardinality(ready \union ConnectingNodeList \union ReconnectClientNodeList) =
               Cardinality(ready \union ConnectingNodeList) + Cardinality(ReconnectClientNodeList)
      <3>1. (ready \union ConnectingNodeList) \intersect ReconnectClientNodeList = {}
        BY <2>0 DEF StateListsPartition, ready
      <3> QED
        BY <2>2, <2>3, <3>1, DisjointCardinality
    <2>5. Cardinality(Allocated) =
            Cardinality(ready \union ConnectingNodeList \union ReconnectClientNodeList)
              + Cardinality(ClosingClientNodeList)
      <3>1. (ready \union ConnectingNodeList \union ReconnectClientNodeList)
              \intersect ClosingClientNodeList = {}
        BY <2>0 DEF StateListsPartition, ready
      <3>2. Allocated = ready \union ConnectingNodeList \union ReconnectClientNodeList
                          \union ClosingClientNodeList
        BY <2>0 DEF StateListsPartition, ready
      <3> QED
        BY <2>2, <2>4, <3>1, <3>2, DisjointCardinality
    <2>6. Cardinality(Allocated) =
            Len(ReadyClientNodeList) + Cardinality(ConnectingNodeList)
              + Cardinality(ReconnectClientNodeList) + Cardinality(ClosingClientNodeList)
      BY <2>1, <2>3, <2>4, <2>5
    <2>7. \A c \in Allocated :
            \/ c \in ToSet(ReadyClientNodeList) /\ tcp[c] = "open"
            \/ c \in ConnectingNodeList /\ (tcp[c] = "connecting" \/ tick = "timeouts")
            \/ c \in ReconnectClientNodeList /\ tcp[c] = "closed"
            \/ c \in ClosingClientNodeList /\ tcp[c] = "gone"
      <3>1. Allocated \subseteq Connection
        BY DEF Allocated
      <3> QED
        BY <2>0, <3>1 DEF StateListsPartition, StateOfList
    <2>8. IsInjective(ReadyClientNodeList)
      BY <2>0 DEF StateListsPartition
    <2> QED
      BY <2>6, <2>7, <2>8 DEF ListTellsState
  <1> QED
    BY <1>1, InductiveInvariant, PTL

(* Every connection that PickConnection may return is watched by one of the
   keepalive lists, once, and nothing else but what is closing is. *)
THEOREM WatchCorrect == Spec => []ReadyIsWatched
  <1>1. ASSUME IInv
        PROVE  ReadyIsWatched
    <2> DEFINE asleep == ReadyClientKeepAliveNodeList
               asked == ReadyClientKeepAliveCheckingNodeList
    <2>1. /\ asleep \in Seq(Connection) /\ IsInjective(asleep)
          /\ asked \in Seq(Connection) /\ IsInjective(asked)
          /\ ToSet(asleep) \intersect ToSet(asked) = {}
      BY <1>1 DEF IInv, TypeOK, WatchedOnce
    <2>2. /\ IsInjective(asleep \o asked)
          /\ ToSet(asleep \o asked) = ToSet(asleep) \union ToSet(asked)
      <3> HIDE DEF asleep, asked
      <3> QED
        BY <2>1, ConcatInjective
    <2> QED
      BY <1>1, <2>2 DEF IInv, WatchedOnce, ReadyIsWatched
  <1> QED
    BY <1>1, InductiveInvariant, PTL

(* When Tick returns, who was silent for the interval has been asked and who
   owed an answer for the timeout is closed: the oldest stamps are at the heads
   of the lists, so the loops of Tick that stop at the first young one miss
   nobody. *)
THEOREM NobodyMissed == Spec => NobodyGoesUnasked
  <1> DEFINE Asked ==
        tick = "keepalive" =>
          /\ \A c \in ToSet(ReadyClientKeepAliveNodeList)' :
               LastKeepAliveTimestampMS'[c] + KeepAliveInterval > NowMS
          /\ \A c \in ToSet(ReadyClientKeepAliveCheckingNodeList)' :
               LastKeepAliveTimestampMS'[c] + ResponseTimeout > NowMS
  <1>1. IInv /\ [Next]_vars => [Asked]_vars
    <2> SUFFICES ASSUME IInv, Next, tick = "keepalive"
                 PROVE  Asked
      OBVIOUS
    <2> DEFINE asleep == ReadyClientKeepAliveNodeList
               asked == ReadyClientKeepAliveCheckingNodeList
               stamp == LastKeepAliveTimestampMS
    <2>1. KeepAlive
      BY DEF Next, TickStep, UpdateServerAddresses, OnConnected, OnPeerClose, OnKeepAlive,
             PickConnection, TickBegins, CleanTimeoutConnection, Reconnect
    <2>2. /\ asleep' \in Seq(Connection) /\ asked' \in Seq(Connection)
          /\ stamp' \in [Connection -> {0} \union StartTime..NowMS]
          /\ \A c \in ToSet(asleep') : stamp'[c] > NowMS - KeepAliveInterval
          /\ \A c \in ToSet(asked') : stamp'[c] > NowMS - ResponseTimeout
      BY <2>1, KeepAliveLists
    <2>3. ToSet(asleep') \subseteq Connection /\ ToSet(asked') \subseteq Connection
      BY <2>2 DEF ToSet
    <2>4. \A c \in Connection : stamp'[c] \in Int
      BY <2>2, ClientAssumption DEF IInv, TypeOK
    <2>5. NowMS \in Int
      BY ClientAssumption DEF IInv, TypeOK
    <2> QED
      BY <2>2, <2>3, <2>4, <2>5, ClientAssumption
  <1>2. Spec => [][Asked]_vars
    <2> HIDE DEF Asked
    <2> QED
      BY <1>1, InductiveInvariant, PTL DEF Spec
  <1> QED
    BY <1>2 DEF NobodyGoesUnasked

=============================================================================
