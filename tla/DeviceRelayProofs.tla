-------------------------- MODULE DeviceRelayProofs --------------------------
(***************************************************************************)
(* The relay server for any number of connections, devices and contexts:   *)
(* it uses both of its connection managers as they allow, so that what was *)
(* proved of each of them holds within the server; and what ties devices,  *)
(* contexts and connections together is an invariant.                      *)
(***************************************************************************)
EXTENDS DeviceRelay, TLAPS

-----------------------------------------------------------------------------
(* The connection managers.  Devices and DeviceProofs instantiate the same   *)
(* module with the same values; only their definitions have different names. *)

DeviceProofs == INSTANCE DeviceConnectionsProofs WITH
    Conn <- DeviceConn,
    MaxConnections <- MaxDeviceConnections,
    IdleTimeout <- DeviceIdleTimeout,
    ConnectionIdManager <- dIds,
    Released <- dReleased,
    Marked <- dMarked,
    IdleTimestampMS <- dStamp,
    NewConnectionList <- dNew,
    IdleConnectionList <- dIdle,
    KillConnectionList <- dKill

ProxyProofs == INSTANCE ProxyConnectionsProofs WITH
    Conn <- ProxyConn,
    MaxConnections <- MaxProxyConnections,
    IdleTimeout <- ProxyIdleTimeout,
    ConnectionIdManager <- pIds,
    Released <- pReleased,
    Marked <- pMarked,
    ChallengeReady <- pReady,
    IdleTimestampMS <- pStamp,
    ChallengeConnectionList <- pChallenge,
    IdleConnectionList <- pIdle,
    KillConnectionList <- pKill

(* Both modules assume the same of the clock. *)
LEMMA DeviceTimeAssumption ==
    /\ NewTimeout \in Nat \ {0}
    /\ DeviceIdleTimeout \in Nat \ {0}
    /\ StartTime \in Nat
    /\ StartTime >= NewTimeout /\ StartTime >= DeviceIdleTimeout
    /\ MaxTime \in Nat
    /\ MaxTime >= StartTime
  BY ClockAssumption

(* The same for the proxy connections. *)
LEMMA ProxyTimeAssumption ==
    /\ ChallengeTimeout \in Nat \ {0}
    /\ ProxyIdleTimeout \in Nat \ {0}
    /\ StartTime \in Nat
    /\ StartTime >= ChallengeTimeout /\ StartTime >= ProxyIdleTimeout
    /\ MaxTime \in Nat
    /\ MaxTime >= StartTime
  BY ClockAssumption

(* The two instances have the same initial states, steps and invariant. *)
LEMMA SameDeviceInit == Devices!Init => DeviceProofs!Init
  BY DEF Devices!Init, DeviceProofs!Init

(* The same steps. *)
LEMMA SameDeviceNext ==
    [Devices!Next]_Devices!vars => [DeviceProofs!Next]_DeviceProofs!vars
  <1>1. /\ \A l, x : Devices!RemoveFirst(l, x) = DeviceProofs!RemoveFirst(l, x)
        /\ \A l, x : Devices!GrabTail(l, x) = DeviceProofs!GrabTail(l, x)
    BY DEF Devices!GrabTail, DeviceProofs!GrabTail, Devices!RemoveFirst, DeviceProofs!RemoveFirst,
           Devices!RemoveAt, DeviceProofs!RemoveAt, Devices!SelectInSeq, DeviceProofs!SelectInSeq,
           Devices!Min, DeviceProofs!Min
  <1>2. \A l, S : Devices!PopHeadWhile(l, S) = DeviceProofs!PopHeadWhile(l, S)
    BY DEF Devices!PopHeadWhile, DeviceProofs!PopHeadWhile, Devices!FirstOutside,
           DeviceProofs!FirstOutside, Devices!SelectInSeq, DeviceProofs!SelectInSeq,
           Devices!Min, DeviceProofs!Min
  <1>3. Devices!vars = DeviceProofs!vars
    BY DEF Devices!vars, DeviceProofs!vars, Devices!lists, DeviceProofs!lists
  <1>4. \A c \in DeviceConn :
          /\ Devices!CreateConnection(c) => DeviceProofs!CreateConnection(c)
          /\ Devices!CreateConnectionFails(c) => DeviceProofs!CreateConnectionFails(c)
    BY <1>1 DEF Devices!CreateConnection, DeviceProofs!CreateConnection,
                Devices!CreateConnectionFails, DeviceProofs!CreateConnectionFails,
                Devices!CanAcquire, DeviceProofs!CanAcquire, Devices!Cardinality,
                DeviceProofs!Cardinality, Devices!lists, DeviceProofs!lists
  <1>5. \A c \in DeviceConn :
          /\ Devices!KeepAlive(c) => DeviceProofs!KeepAlive(c)
          /\ Devices!DeferReleaseConnection(c) => DeviceProofs!DeferReleaseConnection(c)
    BY <1>1 DEF Devices!KeepAlive, DeviceProofs!KeepAlive, Devices!DeferReleaseConnection,
                DeviceProofs!DeferReleaseConnection, Devices!vars, DeviceProofs!vars,
                Devices!lists, DeviceProofs!lists
  <1>6. \A NowMS \in Ticker..MaxTime : Devices!Tick(NowMS) => DeviceProofs!Tick(NowMS)
    BY <1>2 DEF Devices!Tick, DeviceProofs!Tick, Devices!StampedBy, DeviceProofs!StampedBy,
                Devices!DestroyConnections, DeviceProofs!DestroyConnections,
                Devices!Condemned, DeviceProofs!Condemned, Devices!ToSet, DeviceProofs!ToSet
  <1> QED
    BY <1>3, <1>4, <1>5, <1>6 DEF Devices!Next, DeviceProofs!Next, Devices!vars,
                                  DeviceProofs!vars, Devices!lists, DeviceProofs!lists

(* The same invariant. *)
LEMMA SameDeviceInvariant == Devices!IInv <=> DeviceProofs!IInv
  BY DEF Devices!IInv, DeviceProofs!IInv, Devices!TypeOK, DeviceProofs!TypeOK,
         Devices!EachInOneList, DeviceProofs!EachInOneList, Devices!StampsArePast,
         DeviceProofs!StampsArePast, Devices!ListsInStampOrder, DeviceProofs!ListsInStampOrder,
         Devices!NoOverdueSurvivor, DeviceProofs!NoOverdueSurvivor, Devices!SortedBy,
         DeviceProofs!SortedBy, Devices!ToSet, DeviceProofs!ToSet, Devices!IsInjective,
         DeviceProofs!IsInjective

(* The same invariant after a step. *)
LEMMA SameDeviceInvariantNext == Devices!IInv' <=> DeviceProofs!IInv'
  BY SameDeviceInvariant, PTL

(* So the manager's invariant holds at the start of the server ... *)
LEMMA DevicesInit == Devices!Init => Devices!IInv
  BY SameDeviceInit, SameDeviceInvariant, DeviceProofs!InitIInv, DeviceTimeAssumption

(* ... and is kept by every step that is one of the manager. *)
LEMMA DevicesStep == Devices!IInv /\ [Devices!Next]_Devices!vars => Devices!IInv'
  BY SameDeviceNext, SameDeviceInvariant, SameDeviceInvariantNext, DeviceProofs!StepIInv,
     DeviceTimeAssumption

(* The same bridge for the proxy connections: initial states, ... *)
LEMMA SameProxyInit == Proxies!Init => ProxyProofs!Init
  BY DEF Proxies!Init, ProxyProofs!Init, Proxies!InitExceptClock, ProxyProofs!InitExceptClock

(* ... steps, ... *)
LEMMA SameProxyNext ==
    [Proxies!Next]_Proxies!vars => [ProxyProofs!Next]_ProxyProofs!vars
  <1>1. /\ \A l, x : Proxies!RemoveFirst(l, x) = ProxyProofs!RemoveFirst(l, x)
        /\ \A l, x : Proxies!GrabTail(l, x) = ProxyProofs!GrabTail(l, x)
    BY DEF Proxies!GrabTail, ProxyProofs!GrabTail, Proxies!RemoveFirst, ProxyProofs!RemoveFirst,
           Proxies!RemoveAt, ProxyProofs!RemoveAt, Proxies!SelectInSeq, ProxyProofs!SelectInSeq,
           Proxies!Min, ProxyProofs!Min
  <1>2. \A l, S : Proxies!PopHeadWhile(l, S) = ProxyProofs!PopHeadWhile(l, S)
    BY DEF Proxies!PopHeadWhile, ProxyProofs!PopHeadWhile, Proxies!FirstOutside,
           ProxyProofs!FirstOutside, Proxies!SelectInSeq, ProxyProofs!SelectInSeq,
           Proxies!Min, ProxyProofs!Min
  <1>3. Proxies!vars = ProxyProofs!vars
    BY DEF Proxies!vars, ProxyProofs!vars, Proxies!lists, ProxyProofs!lists
  <1>4. \A c \in ProxyConn :
          /\ Proxies!CreateConnection(c) => ProxyProofs!CreateConnection(c)
          /\ Proxies!CreateConnectionFails(c) => ProxyProofs!CreateConnectionFails(c)
    BY <1>1 DEF Proxies!CreateConnection, ProxyProofs!CreateConnection,
                Proxies!CreateConnectionFails, ProxyProofs!CreateConnectionFails,
                Proxies!CanAcquire, ProxyProofs!CanAcquire, Proxies!Cardinality,
                ProxyProofs!Cardinality, Proxies!lists, ProxyProofs!lists
  <1>5. \A c \in ProxyConn :
          /\ Proxies!KeepAlive(c) => ProxyProofs!KeepAlive(c)
          /\ Proxies!AcceptChallenge(c) => ProxyProofs!AcceptChallenge(c)
          /\ Proxies!DeferReleaseConnection(c) => ProxyProofs!DeferReleaseConnection(c)
    BY <1>1 DEF Proxies!KeepAlive, ProxyProofs!KeepAlive, Proxies!AcceptChallenge,
                ProxyProofs!AcceptChallenge, Proxies!MoveToIdle, ProxyProofs!MoveToIdle,
                Proxies!DeferReleaseConnection, ProxyProofs!DeferReleaseConnection,
                Proxies!vars, ProxyProofs!vars, Proxies!lists, ProxyProofs!lists
  <1>6. \A NowMS \in Ticker..MaxTime : Proxies!Tick(NowMS) => ProxyProofs!Tick(NowMS)
    BY <1>2 DEF Proxies!Tick, ProxyProofs!Tick, Proxies!StampedBy, ProxyProofs!StampedBy,
                Proxies!DestroyConnections, ProxyProofs!DestroyConnections,
                Proxies!Condemned, ProxyProofs!Condemned, Proxies!ToSet, ProxyProofs!ToSet
  <1> QED
    BY <1>3, <1>4, <1>5, <1>6 DEF Proxies!Next, ProxyProofs!Next, Proxies!vars,
                                  ProxyProofs!vars, Proxies!lists, ProxyProofs!lists

(* ... invariant, ... *)
LEMMA SameProxyInvariant == Proxies!IInv <=> ProxyProofs!IInv
  BY DEF Proxies!IInv, ProxyProofs!IInv, Proxies!TypeOK, ProxyProofs!TypeOK,
         Proxies!EachInOneList, ProxyProofs!EachInOneList, Proxies!ChallengeDecidesList,
         ProxyProofs!ChallengeDecidesList, Proxies!StampsArePast, ProxyProofs!StampsArePast,
         Proxies!ListsInStampOrder, ProxyProofs!ListsInStampOrder, Proxies!NoOverdueSurvivor,
         ProxyProofs!NoOverdueSurvivor, Proxies!SortedBy, ProxyProofs!SortedBy,
         Proxies!ToSet, ProxyProofs!ToSet, Proxies!IsInjective, ProxyProofs!IsInjective

(* ... invariant after a step. *)
LEMMA SameProxyInvariantNext == Proxies!IInv' <=> ProxyProofs!IInv'
  BY SameProxyInvariant, PTL

(* The proxy manager's invariant holds at the start of the server ... *)
LEMMA ProxiesInit == Proxies!Init => Proxies!IInv
  BY SameProxyInit, SameProxyInvariant, ProxyProofs!InitIInv, ProxyTimeAssumption

(* ... and is kept by every step that is one of the manager. *)
LEMMA ProxiesStep == Proxies!IInv /\ [Proxies!Next]_Proxies!vars => Proxies!IInv'
  BY SameProxyNext, SameProxyInvariant, SameProxyInvariantNext, ProxyProofs!StepIInv,
     ProxyTimeAssumption

-----------------------------------------------------------------------------
(* Every step of the server is one of each manager, or leaves it alone. *)

(* A callback that leaves the variables of the manager alone is a stutter of
   it. *)
LEMMA DevicesUntouched == UNCHANGED <<deviceConnVars, Ticker>> => UNCHANGED Devices!vars
  BY DEF deviceConnVars, Devices!vars, Devices!lists

(* The same of the proxy manager. *)
LEMMA ProxiesUntouched == UNCHANGED <<proxyConnVars, Ticker>> => UNCHANGED Proxies!vars
  BY DEF proxyConnVars, Proxies!vars, Proxies!lists

(* The clock moves in Tick only. *)
LEMMA DeviceCallbackIsTimeless ==
    ASSUME NEW c,
           \/ Devices!CreateConnection(c) \/ Devices!CreateConnectionFails(c)
           \/ Devices!KeepAlive(c) \/ Devices!DeferReleaseConnection(c)
    PROVE  UNCHANGED Ticker
  BY DEF Devices!CreateConnection, Devices!CreateConnectionFails, Devices!KeepAlive,
         Devices!DeferReleaseConnection, Devices!vars

(* Only Tick moves the time of the proxy manager. *)
LEMMA ProxyCallbackIsTimeless ==
    ASSUME NEW p,
           \/ Proxies!CreateConnection(p) \/ Proxies!CreateConnectionFails(p)
           \/ Proxies!KeepAlive(p) \/ Proxies!AcceptChallenge(p)
           \/ Proxies!DeferReleaseConnection(p)
    PROVE  UNCHANGED Ticker
  BY DEF Proxies!CreateConnection, Proxies!CreateConnectionFails, Proxies!KeepAlive,
         Proxies!AcceptChallenge, Proxies!DeferReleaseConnection, Proxies!vars

(* Every callback makes at most one call that changes the device connection
   manager. *)
LEMMA StepIsDevicesStep ==
    ASSUME dIds \subseteq DeviceConn, [Next]_vars
    PROVE  [Devices!Next]_Devices!vars
  <1>1. ASSUME NEW c \in DeviceConn,
               \/ Devices!CreateConnection(c) \/ Devices!CreateConnectionFails(c)
               \/ Devices!KeepAlive(c) \/ Devices!DeferReleaseConnection(c)
        PROVE  Devices!Next
    BY <1>1 DEF Devices!Next
  <1>2. ASSUME ConnectionStep PROVE [Devices!Next]_Devices!vars
    <2>1. ASSUME NEW c \in DeviceConn, NEW type \in {"ctrl", "data"},
                 \/ AcceptDeviceConnection(c, type) \/ AcceptDeviceConnectionFails(c)
                 \/ OnDevicePeerClose(c)
          PROVE  Devices!Next
      BY <1>1, <2>1 DEF AcceptDeviceConnection, AcceptDeviceConnectionFails, OnDevicePeerClose
    <2>2. ASSUME NEW p \in ProxyConn,
                 \/ OnNewProxyConnection(p) \/ OnNewProxyConnectionFails(p)
                 \/ OnProxyPeerClose(p)
          PROVE  UNCHANGED Devices!vars
      BY <2>2, DevicesUntouched, ProxyCallbackIsTimeless
         DEF OnNewProxyConnection, OnNewProxyConnectionFails, OnProxyPeerClose
    <2>3. ASSUME NEW c \in DeviceConn \union ProxyConn, OnKeepAliveRequest(c) \/ OnBadPacket(c)
          PROVE  [Devices!Next]_Devices!vars
      BY <1>1, <2>3, DevicesUntouched, ProxyCallbackIsTimeless DEF OnKeepAliveRequest, OnBadPacket
    <2> QED
      BY <1>2, <2>1, <2>2, <2>3 DEF ConnectionStep
  <1>3. ASSUME TerminalStep PROVE [Devices!Next]_Devices!vars
    <2>1. ASSUME NEW c \in DeviceConn, OnTerminalInitCtrlStream(c)
          PROVE  Devices!Next
      BY <1>1, <2>1 DEF OnTerminalInitCtrlStream
    <2>2. ASSUME NEW c \in DeviceConn, NEW k \in DeviceConn, OnTerminalInitDataStream(c, k)
          PROVE  [Devices!Next]_Devices!vars
      BY <1>1, <2>2, DevicesUntouched
         DEF OnTerminalInitDataStream, InitDataStreamRejected, InitDataStreamWithoutDevice,
             InitDataStreamAccepted
    <2>3. ASSUME NEW c \in DeviceConn, NEW r \in RelayId, NEW id \in DeviceSideId, NEW state,
                 OnTerminalTargetConnectionUpdate(c, r, id, state)
          PROVE  UNCHANGED Devices!vars
      BY <2>3, DevicesUntouched DEF OnTerminalTargetConnectionUpdate
    <2>4. ASSUME NEW c \in DeviceConn, NEW r \in RelayId, OnTerminalPostData(c, r)
          PROVE  UNCHANGED Devices!vars
      BY <2>4, DevicesUntouched DEF OnTerminalPostData
    <2> QED
      BY <1>3, <2>1, <2>2, <2>3, <2>4 DEF TerminalStep
  <1>4. ASSUME ProxyStep PROVE UNCHANGED Devices!vars
    <2>1. ASSUME NEW p \in ProxyConn, OnProxyChallenge(p)
          PROVE  UNCHANGED Devices!vars
      BY <2>1, DevicesUntouched, ProxyCallbackIsTimeless DEF OnProxyChallenge
    <2>2. ASSUME NEW p \in ProxyConn, NEW d \in Device, NEW id \in ProxySideId,
                 OnProxyCreateConnection(p, d, id)
          PROVE  UNCHANGED Devices!vars
      BY <2>2, DevicesUntouched DEF OnProxyCreateConnection
    <2>3. ASSUME NEW p \in ProxyConn, NEW r \in RelayId, OnProxyDestroyConnection(p, r)
          PROVE  UNCHANGED Devices!vars
      BY <2>3, DevicesUntouched DEF OnProxyDestroyConnection
    <2>4. ASSUME NEW p \in ProxyConn, NEW r \in RelayId, NEW id, OnProxyPushData(p, r, id)
          PROVE  UNCHANGED Devices!vars
      BY <2>4, DevicesUntouched DEF OnProxyPushData
    <2> QED
      BY <1>4, <2>1, <2>2, <2>3, <2>4 DEF ProxyStep
  <1>5. ASSUME NEW NowMS \in Ticker..MaxTime, Tick(NowMS) PROVE Devices!Next
    BY <1>5 DEF Tick, Devices!Next
  <1>6. CASE UNCHANGED vars
    BY <1>6, DevicesUntouched DEF vars
  <1> QED
    BY <1>2, <1>3, <1>4, <1>5, <1>6 DEF Next

(* Every callback makes at most one call that changes the proxy connection
   manager. *)
LEMMA StepIsProxiesStep ==
    ASSUME pIds \subseteq ProxyConn, [Next]_vars
    PROVE  [Proxies!Next]_Proxies!vars
  <1>1. ASSUME NEW p \in ProxyConn,
               \/ Proxies!CreateConnection(p) \/ Proxies!CreateConnectionFails(p)
               \/ Proxies!KeepAlive(p) \/ Proxies!AcceptChallenge(p)
               \/ Proxies!DeferReleaseConnection(p)
        PROVE  Proxies!Next
    BY <1>1 DEF Proxies!Next
  <1>2. ASSUME ConnectionStep PROVE [Proxies!Next]_Proxies!vars
    <2>1. ASSUME NEW c \in DeviceConn, NEW type \in {"ctrl", "data"},
                 \/ AcceptDeviceConnection(c, type) \/ AcceptDeviceConnectionFails(c)
                 \/ OnDevicePeerClose(c)
          PROVE  UNCHANGED Proxies!vars
      BY <2>1, ProxiesUntouched, DeviceCallbackIsTimeless
         DEF AcceptDeviceConnection, AcceptDeviceConnectionFails, OnDevicePeerClose
    <2>2. ASSUME NEW p \in ProxyConn,
                 \/ OnNewProxyConnection(p) \/ OnNewProxyConnectionFails(p)
                 \/ OnProxyPeerClose(p)
          PROVE  Proxies!Next
      BY <1>1, <2>2 DEF OnNewProxyConnection, OnNewProxyConnectionFails, OnProxyPeerClose
    <2>3. ASSUME NEW c \in DeviceConn \union ProxyConn, OnKeepAliveRequest(c) \/ OnBadPacket(c)
          PROVE  [Proxies!Next]_Proxies!vars
      BY <1>1, <2>3, ProxiesUntouched, DeviceCallbackIsTimeless DEF OnKeepAliveRequest, OnBadPacket
    <2> QED
      BY <1>2, <2>1, <2>2, <2>3 DEF ConnectionStep
  <1>3. ASSUME TerminalStep PROVE UNCHANGED Proxies!vars
    <2>1. ASSUME NEW c \in DeviceConn, OnTerminalInitCtrlStream(c)
          PROVE  UNCHANGED Proxies!vars
      BY <2>1, ProxiesUntouched, DeviceCallbackIsTimeless DEF OnTerminalInitCtrlStream
    <2>2. ASSUME NEW c \in DeviceConn, NEW k \in DeviceConn, OnTerminalInitDataStream(c, k)
          PROVE  UNCHANGED Proxies!vars
      BY <2>2, ProxiesUntouched, DeviceCallbackIsTimeless
         DEF OnTerminalInitDataStream, InitDataStreamRejected, InitDataStreamWithoutDevice,
             InitDataStreamAccepted
    <2>3. ASSUME NEW c \in DeviceConn, NEW r \in RelayId, NEW id \in DeviceSideId, NEW state,
                 OnTerminalTargetConnectionUpdate(c, r, id, state)
          PROVE  UNCHANGED Proxies!vars
      BY <2>3, ProxiesUntouched DEF OnTerminalTargetConnectionUpdate
    <2>4. ASSUME NEW c \in DeviceConn, NEW r \in RelayId, OnTerminalPostData(c, r)
          PROVE  UNCHANGED Proxies!vars
      BY <2>4, ProxiesUntouched DEF OnTerminalPostData
    <2> QED
      BY <1>3, <2>1, <2>2, <2>3, <2>4 DEF TerminalStep
  <1>4. ASSUME ProxyStep PROVE [Proxies!Next]_Proxies!vars
    <2>1. ASSUME NEW p \in ProxyConn, OnProxyChallenge(p)
          PROVE  Proxies!Next
      BY <1>1, <2>1 DEF OnProxyChallenge
    <2>2. ASSUME NEW p \in ProxyConn, NEW d \in Device, NEW id \in ProxySideId,
                 OnProxyCreateConnection(p, d, id)
          PROVE  UNCHANGED Proxies!vars
      BY <2>2, ProxiesUntouched DEF OnProxyCreateConnection
    <2>3. ASSUME NEW p \in ProxyConn, NEW r \in RelayId, OnProxyDestroyConnection(p, r)
          PROVE  UNCHANGED Proxies!vars
      BY <2>3, ProxiesUntouched DEF OnProxyDestroyConnection
    <2>4. ASSUME NEW p \in ProxyConn, NEW r \in RelayId, NEW id, OnProxyPushData(p, r, id)
          PROVE  UNCHANGED Proxies!vars
      BY <2>4, ProxiesUntouched DEF OnProxyPushData
    <2> QED
      BY <1>4, <2>1, <2>2, <2>3, <2>4 DEF ProxyStep
  <1>5. ASSUME NEW NowMS \in Ticker..MaxTime, Tick(NowMS) PROVE Proxies!Next
    BY <1>5 DEF Tick, Proxies!Next
  <1>6. CASE UNCHANGED vars
    BY <1>6, ProxiesUntouched DEF vars
  <1> QED
    BY <1>2, <1>3, <1>4, <1>5, <1>6 DEF Next

-----------------------------------------------------------------------------
(* What the steps of the managers do to ids and marks. *)

(* What the managers' invariants give to the server: types, and that a
   connection in use is not released. *)
LEMMA ManagerFacts ==
    ASSUME Devices!IInv, Proxies!IInv
    PROVE  /\ dIds \subseteq DeviceConn /\ dReleased \subseteq DeviceConn
           /\ dMarked \subseteq dIds /\ dIds \intersect dReleased = {}
           /\ pIds \subseteq ProxyConn /\ pIds \intersect pReleased = {}
           /\ Ticker \in Nat
  <1>1. Devices!TypeOK /\ Devices!EachInOneList /\ Devices!StampsArePast
    BY DEF Devices!IInv
  <1>2. Proxies!TypeOK /\ Proxies!StampsArePast
    BY DEF Proxies!IInv
  <1>3. Ticker \in Nat
    BY <1>1, ClockAssumption DEF Devices!TypeOK
  <1> QED
    BY <1>1, <1>2, <1>3
       DEF Devices!TypeOK, Devices!EachInOneList, Devices!StampsArePast, Proxies!TypeOK,
           Proxies!StampsArePast

(* Between two Ticks no id and no mark goes away. *)
LEMMA DeviceCallbackKeepsIds ==
    ASSUME NEW c,
           \/ Devices!CreateConnection(c) \/ Devices!CreateConnectionFails(c)
           \/ Devices!KeepAlive(c) \/ Devices!DeferReleaseConnection(c)
    PROVE  /\ dIds \subseteq dIds' /\ dReleased \subseteq dReleased'
           /\ dMarked \subseteq dMarked'
           /\ Devices!KeepAlive(c) => UNCHANGED <<dIds, dReleased, dMarked>>
           /\ Devices!DeferReleaseConnection(c) =>
                UNCHANGED <<dIds, dReleased>> /\ dMarked' = dMarked \union {c}
           /\ Devices!CreateConnection(c) =>
                /\ c \in DeviceConn \ (dIds \union dReleased)
                /\ dIds' = dIds \union {c} /\ UNCHANGED <<dReleased, dMarked>>
           /\ Devices!CreateConnectionFails(c) => UNCHANGED <<dIds, dMarked>>
  BY DEF Devices!CreateConnection, Devices!CreateConnectionFails, Devices!KeepAlive,
         Devices!DeferReleaseConnection, Devices!CanAcquire, Devices!vars

(* Tick destroys every marked connection, and an id that goes away was given
   back. *)
LEMMA DeviceTickFreesIds ==
    ASSUME Devices!IInv, NEW NowMS, Devices!Tick(NowMS)
    PROVE  /\ dIds' \subseteq dIds \ dMarked /\ dMarked' = {}
           /\ dIds \union dReleased \subseteq dIds' \union dReleased'
  <1>1. Devices!ToSet(dKill) = dMarked
    BY DEF Devices!IInv, Devices!EachInOneList
  <1> QED
    BY <1>1 DEF Devices!Tick, Devices!DestroyConnections, Devices!Condemned

-----------------------------------------------------------------------------
(* The devices and their connections.  A callback that draws no device. *)

ConnectionsIInv == PointersWereDrawn /\ CtrlConnectionOfOneDevice /\ ClosedIsMarked

(* Ids are only ever added to those that were drawn, so the pointers of devices
   that do not change stay among them. *)
LEMMA DevicesKept ==
    ASSUME ConnectionsIInv, UNCHANGED <<CtrlConnection, DataConnection>>,
           dIds \union dReleased \subseteq dIds' \union dReleased'
    PROVE  PointersWereDrawn'
  BY DEF ConnectionsIInv, PointersWereDrawn

(* Nothing about connections changes but their marks and time stamps. *)
LEMMA ConnectionsUntouched ==
    ASSUME ConnectionsIInv, UNCHANGED <<CtrlConnection, DataConnection, Type, Closed, DeviceId>>,
           UNCHANGED dIds, dReleased \subseteq dReleased', dMarked \subseteq dMarked'
    PROVE  ConnectionsIInv'
  <1>1. PointersWereDrawn'
    BY DevicesKept
  <1> QED
    BY <1>1 DEF ConnectionsIInv, CtrlConnectionOfOneDevice, ClosedIsMarked

(* A new connection has a fresh id, which no device and no attribute names. *)
LEMMA AcceptKeepsConnections ==
    ASSUME RelayIInv, NEW c \in DeviceConn, NEW type \in {"ctrl", "data"},
           AcceptDeviceConnection(c, type)
    PROVE  ConnectionsIInv'
  <1>1. ConnectionsIInv
    BY DEF RelayIInv, ConnectionsIInv
  <1>2. /\ c \in DeviceConn \ (dIds \union dReleased) /\ dIds' = dIds \union {c}
        /\ UNCHANGED <<dReleased, dMarked>>
    BY DeviceCallbackKeepsIds DEF AcceptDeviceConnection
  <1>3. /\ Type' = [Type EXCEPT ![c] = type] /\ Type \in [DeviceConn -> {"ctrl", "data", None}]
        /\ UNCHANGED <<CtrlConnection, DataConnection, DeviceId, Closed>>
    BY DEF AcceptDeviceConnection, deviceVars, RelayIInv, TypeOK
  <1>4. PointersWereDrawn'
    BY <1>1, <1>2, <1>3, DevicesKept
  <1>5. CtrlConnectionOfOneDevice'
    <2>1. dIds \subseteq DeviceConn /\ c # None
      BY ManagerFacts, IdAssumption DEF RelayIInv
    <2>2. \A d \in Device : CtrlConnection[d] # c
      BY <1>1, <1>2, <2>1 DEF ConnectionsIInv, PointersWereDrawn
    <2> QED
      BY <1>1, <1>2, <1>3, <2>1, <2>2 DEF ConnectionsIInv, CtrlConnectionOfOneDevice
  <1>6. ClosedIsMarked'
    BY <1>1, <1>2, <1>3 DEF ConnectionsIInv, ClosedIsMarked
  <1> QED
    BY <1>4, <1>5, <1>6 DEF ConnectionsIInv

(* A connection that closes is marked, and its own pointers and type stay. *)
LEMMA PeerCloseKeepsConnections ==
    ASSUME RelayIInv, NEW c \in DeviceConn, OnDevicePeerClose(c)
    PROVE  ConnectionsIInv'
  <1>1. ConnectionsIInv
    BY DEF RelayIInv, ConnectionsIInv
  <1>2. UNCHANGED <<dIds, dReleased>> /\ dMarked' = dMarked \union {c}
    BY DeviceCallbackKeepsIds DEF OnDevicePeerClose
  <1>3. /\ UNCHANGED <<CtrlConnection, DataConnection, DeviceId, Type>>
        /\ Closed' = Closed \union {c}
    BY DEF OnDevicePeerClose
  <1>4. PointersWereDrawn'
    BY <1>1, <1>2, <1>3, DevicesKept
  <1> QED
    BY <1>1, <1>2, <1>3, <1>4 DEF ConnectionsIInv, CtrlConnectionOfOneDevice, ClosedIsMarked

(* A data stream binds its device to a control connection that has none. *)
LEMMA InitDataStreamKeepsConnections ==
    ASSUME RelayIInv, NEW c \in DeviceConn, NEW k \in DeviceConn, OnTerminalInitDataStream(c, k)
    PROVE  ConnectionsIInv'
  <1>1. ConnectionsIInv
    BY DEF RelayIInv, ConnectionsIInv
  <1>2. UNCHANGED <<Type, Closed>> /\ c \in dIds /\ Type[c] = "data"
    BY DEF OnTerminalInitDataStream
  <1>3. UNCHANGED <<dIds, dReleased>> /\ dMarked \subseteq dMarked'
    BY DeviceCallbackKeepsIds
       DEF OnTerminalInitDataStream, InitDataStreamRejected, InitDataStreamWithoutDevice,
           InitDataStreamAccepted, deviceConnVars
  <1>4. CASE UNCHANGED <<DeviceId, deviceVars>>
    BY <1>1, <1>2, <1>3, <1>4, ConnectionsUntouched DEF deviceVars
  <1>5. CASE InitDataStreamAccepted(c, k)
    <2>1. PICK d \in Device :
            /\ DeviceId' = [DeviceId EXCEPT ![c] = d, ![k] = d]
            /\ CtrlConnection' = [CtrlConnection EXCEPT ![d] = k]
            /\ DataConnection' = [DataConnection EXCEPT ![d] = c]
      BY <1>5 DEF InitDataStreamAccepted
    <2>2. k \in dIds /\ DeviceId[k] = None
      BY <1>5 DEF InitDataStreamAccepted
    <2>3. /\ DeviceId \in [DeviceConn -> Device \union {None}]
          /\ CtrlConnection \in [Device -> DeviceConn \union {None}]
          /\ DataConnection \in [Device -> DeviceConn \union {None}]
      BY DEF RelayIInv, TypeOK
    <2>4. PointersWereDrawn'
      BY <1>1, <1>2, <1>3, <2>1, <2>2, <2>3 DEF ConnectionsIInv, PointersWereDrawn
    <2>5. CtrlConnectionOfOneDevice'
      <3> SUFFICES ASSUME NEW e \in Device, CtrlConnection'[e] \in dIds',
                          Type'[CtrlConnection'[e]] = "ctrl"
                   PROVE  DeviceId'[CtrlConnection'[e]] = e
        BY DEF CtrlConnectionOfOneDevice
      <3>1. CASE e = d
        BY <2>1, <2>3, <3>1
      <3>2. CASE e # d
        <4>1. CtrlConnection'[e] = CtrlConnection[e]
          BY <2>1, <2>3, <3>2
        <4>2. DeviceId[CtrlConnection[e]] = e
          BY <1>1, <1>2, <1>3, <4>1 DEF ConnectionsIInv, CtrlConnectionOfOneDevice
        <4>3. CtrlConnection[e] # k
          BY <2>2, <4>2, IdAssumption
        <4>4. CtrlConnection[e] # c
          BY <1>2, <4>1
        <4>5. CtrlConnection[e] \in DeviceConn
          BY <1>3, <4>1, ManagerFacts DEF RelayIInv
        <4> QED
          BY <2>1, <2>3, <4>1, <4>2, <4>3, <4>4, <4>5
      <3> QED
        BY <3>1, <3>2
    <2>6. ClosedIsMarked'
      BY <1>1, <1>2, <1>3 DEF ConnectionsIInv, ClosedIsMarked
    <2> QED
      BY <2>4, <2>5, <2>6 DEF ConnectionsIInv
  <1> QED
    BY <1>4, <1>5 DEF OnTerminalInitDataStream, InitDataStreamRejected,
                      InitDataStreamWithoutDevice

(* Tick destroys what is marked, so nothing closed is left. *)
LEMMA TickKeepsConnections ==
    ASSUME RelayIInv, NEW NowMS, Tick(NowMS)
    PROVE  ConnectionsIInv'
  <1>1. ConnectionsIInv
    BY DEF RelayIInv, ConnectionsIInv
  <1>2. /\ dIds' \subseteq dIds \ dMarked
        /\ dIds \union dReleased \subseteq dIds' \union dReleased'
    BY DeviceTickFreesIds DEF RelayIInv, Tick
  <1>3. /\ Type' = [x \in DeviceConn |-> IF x \in dIds' THEN Type[x] ELSE None]
        /\ DeviceId' = [x \in DeviceConn |-> IF x \in dIds' THEN DeviceId[x] ELSE None]
        /\ Closed' = Closed \intersect dIds'
        /\ UNCHANGED <<CtrlConnection, DataConnection>>
    BY DEF Tick, deviceVars
  <1>4. dIds \subseteq DeviceConn
    BY ManagerFacts DEF RelayIInv
  <1>5. PointersWereDrawn'
    BY <1>1, <1>2, <1>3, DevicesKept
  <1>6. CtrlConnectionOfOneDevice'
    BY <1>1, <1>2, <1>3, <1>4 DEF ConnectionsIInv, CtrlConnectionOfOneDevice
  <1>7. ClosedIsMarked'
    BY <1>1, <1>2, <1>3 DEF ConnectionsIInv, ClosedIsMarked
  <1> QED
    BY <1>5, <1>6, <1>7 DEF ConnectionsIInv

(* Every step keeps what ties devices to connections. *)
LEMMA StepKeepsConnections == RelayIInv /\ [Next]_vars => ConnectionsIInv'
  <1> SUFFICES ASSUME RelayIInv, [Next]_vars PROVE ConnectionsIInv'
    OBVIOUS
  <1>1. ConnectionsIInv
    BY DEF RelayIInv, ConnectionsIInv
  <1>2. ASSUME UNCHANGED <<deviceConnVars, connAttributes, deviceVars>>
        PROVE  ConnectionsIInv'
    BY <1>1, <1>2, ConnectionsUntouched DEF deviceConnVars, connAttributes, deviceVars
  <1>3. ASSUME ConnectionStep PROVE ConnectionsIInv'
    <2>1. ASSUME NEW c \in DeviceConn, NEW type \in {"ctrl", "data"},
                 AcceptDeviceConnection(c, type) \/ OnDevicePeerClose(c)
          PROVE  ConnectionsIInv'
      BY <2>1, AcceptKeepsConnections, PeerCloseKeepsConnections
    <2>2. ASSUME NEW c \in DeviceConn, AcceptDeviceConnectionFails(c)
          PROVE  ConnectionsIInv'
      BY <1>1, <2>2, ConnectionsUntouched, DeviceCallbackKeepsIds
         DEF AcceptDeviceConnectionFails, connAttributes, deviceVars
    <2>3. ASSUME NEW c \in DeviceConn \union ProxyConn, OnKeepAliveRequest(c)
          PROVE  ConnectionsIInv'
      <3>1. UNCHANGED <<dIds, dReleased, dMarked, connAttributes, deviceVars>>
        BY <2>3, DeviceCallbackKeepsIds DEF OnKeepAliveRequest, deviceConnVars
      <3> QED
        BY <1>1, <3>1, ConnectionsUntouched DEF connAttributes, deviceVars
    <2>4. ASSUME NEW c \in DeviceConn \union ProxyConn, OnBadPacket(c)
          PROVE  ConnectionsIInv'
      BY <1>2, <2>4 DEF OnBadPacket
    <2>5. ASSUME NEW p \in ProxyConn,
                 \/ OnNewProxyConnection(p) \/ OnNewProxyConnectionFails(p)
                 \/ OnProxyPeerClose(p)
          PROVE  ConnectionsIInv'
      BY <1>2, <2>5 DEF OnNewProxyConnection, OnNewProxyConnectionFails, OnProxyPeerClose
    <2> QED
      BY <1>3, <2>1, <2>2, <2>3, <2>4, <2>5 DEF ConnectionStep
  <1>4. ASSUME TerminalStep PROVE ConnectionsIInv'
    <2>1. ASSUME NEW c \in DeviceConn, OnTerminalInitCtrlStream(c)
          PROVE  ConnectionsIInv'
      BY <1>1, <2>1, ConnectionsUntouched, DeviceCallbackKeepsIds
         DEF OnTerminalInitCtrlStream, connAttributes, deviceVars
    <2>2. ASSUME NEW c \in DeviceConn, NEW r \in RelayId, OnTerminalPostData(c, r)
          PROVE  ConnectionsIInv'
      BY <1>2, <2>2 DEF OnTerminalPostData
    <2>3. ASSUME NEW c \in DeviceConn, NEW r \in RelayId, NEW id, NEW state,
                 OnTerminalTargetConnectionUpdate(c, r, id, state)
          PROVE  ConnectionsIInv'
      BY <1>2, <2>3 DEF OnTerminalTargetConnectionUpdate
    <2> QED
      BY <1>4, <2>1, <2>2, <2>3, InitDataStreamKeepsConnections DEF TerminalStep
  <1>5. ASSUME ProxyStep PROVE ConnectionsIInv'
    <2>1. ASSUME NEW p \in ProxyConn, NEW d \in Device, NEW id,
                 OnProxyCreateConnection(p, d, id)
          PROVE  ConnectionsIInv'
      BY <1>2, <2>1 DEF OnProxyCreateConnection
    <2>2. ASSUME NEW p \in ProxyConn, OnProxyChallenge(p)
          PROVE  ConnectionsIInv'
      BY <1>2, <2>2 DEF OnProxyChallenge
    <2>3. ASSUME NEW p \in ProxyConn, NEW r \in RelayId, NEW id, OnProxyPushData(p, r, id)
          PROVE  ConnectionsIInv'
      BY <1>2, <2>3 DEF OnProxyPushData
    <2>4. ASSUME NEW p \in ProxyConn, NEW r \in RelayId, OnProxyDestroyConnection(p, r)
          PROVE  ConnectionsIInv'
      BY <1>2, <2>4 DEF OnProxyDestroyConnection
    <2> QED
      BY <1>5, <2>1, <2>2, <2>3, <2>4 DEF ProxyStep
  <1>6. CASE UNCHANGED vars
    BY <1>2, <1>6 DEF vars
  <1> QED
    BY <1>3, <1>4, <1>5, <1>6, TickKeepsConnections DEF Next

-----------------------------------------------------------------------------
(* What is posted. *)

MessagesIInv ==
    /\ ContextAsReported
    /\ ClosedDeviceIsSilent
    /\ PacketsCarryReportedId

OwnTypes ==
    /\ Type \in [DeviceConn -> {"ctrl", "data", None}]
    /\ Closed \subseteq DeviceConn
    /\ DeviceId \in [DeviceConn -> Device \union {None}]
    /\ CtrlConnection \in [Device -> DeviceConn \union {None}]
    /\ DataConnection \in [Device -> DeviceConn \union {None}]
    /\ Deleted \subseteq Device
    /\ Gone \subseteq Device
    /\ Context \in [RelayId -> RelayConnectionContext \union {None}]
    /\ Reported \in [RelayId -> DeviceSideId \union {None}]
    /\ failing \in DeviceConn \union ProxyConn \union {None}
    /\ Posted \subseteq Packet

(* A callback that posts nothing. *)
LEMMA NothingPosted ==
    ASSUME RelayIInv, Posted' = {}, UNCHANGED contextVars
    PROVE  MessagesIInv'
  BY DEF RelayIInv, MessagesIInv, ContextAsReported, GetContextById, ClosedDeviceIsSilent,
         PacketsCarryReportedId, contextVars

(* An id cut to 32 bits. *)
LEMMA CutIds == \A n \in ProxySideId : n % IdSpace \in 0..(IdSpace - 1)
  BY IdAssumption

(* What goes to a proxy is no packet for a device. *)
LEMMA ToProxyPackets ==
    ASSUME RelayIInv, NEW r \in RelayId, GetContextById(r), NEW kind \in {"notify", "push"},
           NEW m \in ToProxy(kind, r)
    PROVE  /\ m \in Packet
           /\ m.kind = kind /\ m.about = r
           /\ m.to \notin DeviceConn
  <1>1. Context[r] \in RelayConnectionContext
    BY DEF RelayIInv, TypeOK, GetContextById
  <1>2. m = [to |-> Context[r].proxy, kind |-> kind, about |-> r,
             id |-> Context[r].proxySide % IdSpace] /\ Context[r].proxy \in pIds
    BY DEF ToProxy
  <1>3. pIds \subseteq ProxyConn
    BY ManagerFacts DEF RelayIInv
  <1>4. Context[r].proxySide % IdSpace \in 0..(IdSpace - 1)
    BY <1>1, CutIds DEF RelayConnectionContext
  <1> QED
    BY <1>2, <1>3, <1>4, IdAssumption DEF Packet

(* What goes to a device: one whose control connection has not closed, with the id its
   context holds. *)
LEMMA ToDevicePackets ==
    ASSUME RelayIInv, NEW r \in RelayId, GetContextById(r), NEW kind \in {"post", "destroy"},
           ToDevice(kind, r), NEW m \in Posted'
    PROVE  /\ m \in Packet
           /\ m.kind = kind /\ m.about = r
           /\ m.id = Context[r].deviceSide
           /\ Context[r].device \notin Gone
  <1>1. Context[r] \in RelayConnectionContext
    BY DEF RelayIInv, TypeOK, GetContextById
  <1>2. dIds \subseteq DeviceConn
    BY ManagerFacts DEF RelayIInv
  <1>3. PICK reached \in SUBSET DeviceConn :
          /\ GetDeviceById(Context[r].device)
          /\ Posted' = {[to |-> c, kind |-> kind, about |-> r,
                         id |-> Context[r].deviceSide] : c \in reached}
    BY <1>2 DEF ToDevice, Reached
  <1> QED
    BY <1>1, <1>3 DEF Packet, GetDeviceById, RelayConnectionContext, RelayIInv, GoneIsDeleted

(* A report of the device: only one of a context there is, and when it says
   that the connection is established the context holds its id. *)
LEMMA ReportKeeps ==
    ASSUME RelayIInv, NEW c \in DeviceConn, NEW r \in RelayId, NEW id \in DeviceSideId, NEW state,
           OnTerminalTargetConnectionUpdate(c, r, id, state)
    PROVE  MessagesIInv' /\ OwnTypes'
  <1>1. OwnTypes /\ MessagesIInv
    BY DEF RelayIInv, TypeOK, OwnTypes, MessagesIInv
  <1>2. UNCHANGED <<connAttributes, deviceVars, failing>>
    BY DEF OnTerminalTargetConnectionUpdate, proxyConnVars
  <1>3. CASE ~ GetContextById(r)
    <2>1. Posted' = {} /\ UNCHANGED contextVars
      BY <1>3 DEF OnTerminalTargetConnectionUpdate
    <2> QED
      BY <1>1, <1>2, <2>1, NothingPosted DEF OwnTypes, contextVars, connAttributes, deviceVars
  <1>4. CASE GetContextById(r)
    <2>1. /\ Context' = IF state = "ESTABLISHED" THEN [Context EXCEPT ![r].deviceSide = id]
                        ELSE Context
          /\ Reported' = IF state = "ESTABLISHED" THEN [Reported EXCEPT ![r] = id] ELSE Reported
          /\ Posted' = ToProxy("notify", r)
      BY <1>4 DEF OnTerminalTargetConnectionUpdate, IsEstablished
    <2>2. Context[r] \in RelayConnectionContext /\ Context[r] # None
      BY <1>1, <1>4 DEF OwnTypes, GetContextById
    <2>3. /\ Context'[r] \in RelayConnectionContext
          /\ Context'[r].proxy = Context[r].proxy /\ Context'[r].device = Context[r].device
          /\ state = "ESTABLISHED" => Context'[r].deviceSide = id
          /\ \A q \in RelayId \ {r} : Context'[q] = Context[q]
          /\ Context' \in [RelayId -> RelayConnectionContext \union {None}]
      BY <1>1, <2>1, <2>2 DEF OwnTypes, RelayConnectionContext
    <2>4. /\ Reported' \in [RelayId -> DeviceSideId \union {None}]
          /\ \A q \in RelayId : Reported'[q] = IF state = "ESTABLISHED" /\ q = r THEN id ELSE Reported[q]
      BY <1>1, <2>1 DEF OwnTypes
    <2>5. ContextAsReported'
      <3> SUFFICES ASSUME NEW q \in RelayId, Reported'[q] # None
                   PROVE  Context'[q] # None /\ Context'[q].deviceSide = Reported'[q]
        BY DEF ContextAsReported, GetContextById
      <3>1. CASE q = r /\ state = "ESTABLISHED"
        BY <2>3, <2>4, <3>1, ContextAssumption
      <3>2. CASE q # r \/ state # "ESTABLISHED"
        <4>1. Context'[q] = Context[q] /\ Reported'[q] = Reported[q]
          BY <2>1, <2>3, <2>4, <3>2
        <4> QED
          BY <1>1, <4>1 DEF MessagesIInv, ContextAsReported, GetContextById
      <3> QED
        BY <3>1, <3>2
    <2>6. \A m \in Posted' : /\ m \in Packet /\ m.kind = "notify" /\ m.about = r
                             /\ m.to \notin DeviceConn
      BY <1>2, <1>4, <2>1, <2>3, ToProxyPackets
    <2>7. ClosedDeviceIsSilent' /\ PacketsCarryReportedId'
      BY <2>6 DEF ClosedDeviceIsSilent, PacketsCarryReportedId
    <2>8. Posted' \subseteq Packet
      BY <2>6
    <2> QED
      BY <1>1, <1>2, <2>3, <2>4, <2>5, <2>7, <2>8
         DEF MessagesIInv, OwnTypes, connAttributes, deviceVars
  <1> QED
    BY <1>3, <1>4

(* Data of a device goes to the proxy of its context, under the id that asked.
   *)
LEMMA PostDataKeeps ==
    ASSUME RelayIInv, NEW c \in DeviceConn, NEW r \in RelayId, OnTerminalPostData(c, r)
    PROVE  MessagesIInv' /\ OwnTypes'
  <1>1. OwnTypes /\ MessagesIInv
    BY DEF RelayIInv, TypeOK, OwnTypes, MessagesIInv
  <1>2. UNCHANGED <<connAttributes, deviceVars, contextVars, failing>>
    BY DEF OnTerminalPostData, proxyConnVars
  <1>3. \A m \in Posted' : /\ m \in Packet /\ m.kind = "push"
                           /\ m.to \notin DeviceConn
    BY ToProxyPackets DEF OnTerminalPostData
  <1>4. Posted' \subseteq Packet
    BY <1>3
  <1>5. ClosedDeviceIsSilent' /\ PacketsCarryReportedId'
    BY <1>2, <1>3 DEF ClosedDeviceIsSilent, PacketsCarryReportedId, contextVars
  <1> QED
    BY <1>1, <1>2, <1>4, <1>5
       DEF MessagesIInv, ContextAsReported, GetContextById, OwnTypes, connAttributes, deviceVars,
           contextVars

(* A proxy asks for a connection: the context is new, so that nothing was
   reported for it, and its device is one that is found. *)
LEMMA CreateKeeps ==
    ASSUME RelayIInv, NEW p \in ProxyConn, NEW d \in Device, NEW side \in ProxySideId,
           OnProxyCreateConnection(p, d, side)
    PROVE  MessagesIInv' /\ OwnTypes'
  <1>1. OwnTypes /\ MessagesIInv
    BY DEF RelayIInv, TypeOK, OwnTypes, MessagesIInv
  <1>2. UNCHANGED <<Reported, connAttributes, deviceVars, failing>>
    BY DEF OnProxyCreateConnection
  <1>3. CASE UNCHANGED Context /\ Posted' = {}
    BY <1>1, <1>2, <1>3, NothingPosted DEF OwnTypes, contextVars, connAttributes, deviceVars
  <1>4. CASE /\ UNCHANGED Context
             /\ Posted' = {[to |-> p, kind |-> "refused", id |-> side % IdSpace]}
    <2>1. Posted' \subseteq Packet
      BY <1>4, CutIds DEF Packet
    <2>2. p \notin DeviceConn
      BY IdAssumption
    <2>3. ClosedDeviceIsSilent' /\ PacketsCarryReportedId'
      BY <1>4, <2>2 DEF ClosedDeviceIsSilent, PacketsCarryReportedId
    <2> QED
      BY <1>1, <1>2, <1>4, <2>1, <2>3
         DEF MessagesIInv, ContextAsReported, GetContextById, OwnTypes, connAttributes, deviceVars
  <1>5. ASSUME NEW r \in RelayId, GetDeviceById(d), CreateContext(r, p, d, side),
               NEW reached \in Reached(CtrlConnection[d]),
               Posted' = {[to |-> c, kind |-> "create", about |-> r] : c \in reached}
        PROVE  MessagesIInv' /\ OwnTypes'
    <2>1. PICK u \in DeviceSideId :
            Context' = [Context EXCEPT ![r] =
              [device |-> d, proxy |-> p, proxySide |-> side, deviceSide |-> u]]
      BY <1>5 DEF CreateContext
    <2>2. /\ Context' \in [RelayId -> RelayConnectionContext \union {None}]
          /\ Context'[r].device = d
          /\ \A q \in RelayId \ {r} : Context'[q] = Context[q]
      BY <1>1, <2>1 DEF OwnTypes, RelayConnectionContext
    <2>3. Reported[r] = None
      BY <1>1, <1>5 DEF CreateContext, MessagesIInv, ContextAsReported, GetContextById
    <2>4. ContextAsReported'
      BY <1>1, <1>2, <2>2, <2>3 DEF MessagesIInv, ContextAsReported, GetContextById
    <2>5. reached \subseteq DeviceConn
      BY ManagerFacts DEF RelayIInv, Reached
    <2>6. Posted' \subseteq Packet
      BY <1>5, <2>5 DEF Packet
    <2>7. d \notin Gone'
      BY <1>2, <1>5 DEF GetDeviceById, deviceVars, RelayIInv, GoneIsDeleted
    <2>8. ClosedDeviceIsSilent' /\ PacketsCarryReportedId'
      BY <1>5, <2>2, <2>7 DEF ClosedDeviceIsSilent, PacketsCarryReportedId
    <2> QED
      BY <1>1, <1>2, <2>2, <2>4, <2>6, <2>8 DEF MessagesIInv, OwnTypes, connAttributes, deviceVars
  <1> QED
    BY <1>3, <1>4, <1>5 DEF OnProxyCreateConnection

(* What a proxy sends into a context goes to the data connection of its
   device, under the id it reported. *)
LEMMA DestroyAndPushKeep ==
    ASSUME RelayIInv, NEW p \in ProxyConn, NEW r \in RelayId, NEW id,
           OnProxyDestroyConnection(p, r) \/ OnProxyPushData(p, r, id)
    PROVE  MessagesIInv' /\ OwnTypes'
  <1>1. OwnTypes /\ MessagesIInv
    BY DEF RelayIInv, TypeOK, OwnTypes, MessagesIInv
  <1>2. UNCHANGED <<connAttributes, deviceVars, contextVars, failing>>
    BY DEF OnProxyDestroyConnection, OnProxyPushData
  <1>3. CASE Posted' = {}
    BY <1>1, <1>2, <1>3, NothingPosted DEF OwnTypes, contextVars, connAttributes, deviceVars
  <1>4. ASSUME NEW kind \in {"post", "destroy"}, GetContextById(r), ToDevice(kind, r)
        PROVE  MessagesIInv' /\ OwnTypes'
    <2>1. \A m \in Posted' : /\ m \in Packet /\ m.kind = kind /\ m.about = r
                             /\ m.id = Context[r].deviceSide
                             /\ Context[r].device \notin Gone
      BY <1>4, ToDevicePackets
    <2>2. Posted' \subseteq Packet
      BY <2>1
    <2>3. Reported[r] # None => Context[r].deviceSide = Reported[r]
      BY <1>1 DEF MessagesIInv, ContextAsReported
    <2>4. ClosedDeviceIsSilent' /\ PacketsCarryReportedId'
      BY <1>2, <2>1, <2>3
         DEF ClosedDeviceIsSilent, PacketsCarryReportedId, contextVars,
             deviceVars
    <2> QED
      BY <1>1, <1>2, <2>2, <2>4
         DEF MessagesIInv, ContextAsReported, GetContextById, OwnTypes, connAttributes, deviceVars,
             contextVars
  <1> QED
    BY <1>3, <1>4 DEF OnProxyDestroyConnection, OnProxyPushData, ProxySideIdMatches

(* The other callbacks post nothing and leave the contexts alone. *)
LEMMA QuietKeeps ==
    ASSUME RelayIInv, Posted' = {}, UNCHANGED contextVars,
           (Type \in [DeviceConn -> {"ctrl", "data", None}])',
           (Closed \subseteq DeviceConn)',
           (DeviceId \in [DeviceConn -> Device \union {None}])',
           (CtrlConnection \in [Device -> DeviceConn \union {None}])',
           (DataConnection \in [Device -> DeviceConn \union {None}])',
           (Deleted \subseteq Device)',
           (Gone \subseteq Device)',
           (failing \in DeviceConn \union ProxyConn \union {None})'
    PROVE  MessagesIInv' /\ OwnTypes'
  BY NothingPosted DEF RelayIInv, TypeOK, OwnTypes, contextVars

(* The callbacks of accepting, closing and keepalive post nothing to others.
   *)
LEMMA ConnectionStepKeeps ==
    ASSUME RelayIInv, ConnectionStep
    PROVE  MessagesIInv' /\ OwnTypes'
  <1>1. OwnTypes
    BY DEF RelayIInv, TypeOK, OwnTypes
  <1>2. ASSUME UNCHANGED <<connAttributes, deviceVars, contextVars>>, Posted' = {},
               failing' \in DeviceConn \union ProxyConn \union {None}
        PROVE  MessagesIInv' /\ OwnTypes'
    BY <1>1, <1>2, QuietKeeps DEF OwnTypes, connAttributes, deviceVars
  <1>3. ASSUME NEW c \in DeviceConn, NEW type \in {"ctrl", "data"},
               AcceptDeviceConnection(c, type)
        PROVE  MessagesIInv' /\ OwnTypes'
    BY <1>1, <1>3, QuietKeeps DEF AcceptDeviceConnection, Quietly, OwnTypes, deviceVars
  <1>4. ASSUME NEW c \in DeviceConn, OnDevicePeerClose(c)
        PROVE  MessagesIInv' /\ OwnTypes'
    BY <1>1, <1>4, QuietKeeps
       DEF OnDevicePeerClose, RemoveDeviceFromConnection, DevicesOf, OwnTypes
  <1>5. ASSUME NEW c \in DeviceConn, AcceptDeviceConnectionFails(c)
        PROVE  MessagesIInv' /\ OwnTypes'
    BY <1>1, <1>2, <1>5 DEF AcceptDeviceConnectionFails, Quietly, OwnTypes
  <1>6. ASSUME NEW p \in ProxyConn,
               \/ OnNewProxyConnection(p) \/ OnNewProxyConnectionFails(p)
               \/ OnProxyPeerClose(p)
        PROVE  MessagesIInv' /\ OwnTypes'
    BY <1>1, <1>2, <1>6
       DEF OnNewProxyConnection, OnNewProxyConnectionFails, OnProxyPeerClose, Quietly, OwnTypes
  <1>7. ASSUME NEW c \in DeviceConn \union ProxyConn, OnKeepAliveRequest(c) \/ OnBadPacket(c)
        PROVE  MessagesIInv' /\ OwnTypes'
    BY <1>1, <1>2, <1>7 DEF OnKeepAliveRequest, OnBadPacket, Quietly, Rejected, OwnTypes
  <1> QED
    BY <1>3, <1>4, <1>5, <1>6, <1>7 DEF ConnectionStep

(* The callbacks for packets of a device. *)
LEMMA TerminalStepKeeps ==
    ASSUME RelayIInv, TerminalStep
    PROVE  MessagesIInv' /\ OwnTypes'
  <1>1. OwnTypes
    BY DEF RelayIInv, TypeOK, OwnTypes
  <1>2. ASSUME NEW c \in DeviceConn, OnTerminalInitCtrlStream(c)
        PROVE  MessagesIInv' /\ OwnTypes'
    BY <1>1, <1>2, QuietKeeps
       DEF OnTerminalInitCtrlStream, Quietly, OwnTypes, connAttributes, deviceVars
  <1>3. ASSUME NEW c \in DeviceConn, NEW k \in DeviceConn, OnTerminalInitDataStream(c, k)
        PROVE  MessagesIInv' /\ OwnTypes'
    <2>1. UNCHANGED <<Type, Closed, contextVars>>
      BY <1>3 DEF OnTerminalInitDataStream
    <2>2. CASE InitDataStreamRejected(c, k) \/ InitDataStreamWithoutDevice(c, k)
      BY <1>1, <2>1, <2>2, QuietKeeps
         DEF InitDataStreamRejected, InitDataStreamWithoutDevice, Rejected, OwnTypes, deviceVars
    <2>3. CASE InitDataStreamAccepted(c, k)
      BY <1>1, <2>1, <2>3, QuietKeeps DEF InitDataStreamAccepted, Quietly, OwnTypes
    <2> QED
      BY <1>3, <2>2, <2>3 DEF OnTerminalInitDataStream
  <1> QED
    BY <1>2, <1>3, ReportKeeps, PostDataKeeps DEF TerminalStep

(* The callbacks for packets of a proxy. *)
LEMMA ProxyStepKeeps ==
    ASSUME RelayIInv, ProxyStep
    PROVE  MessagesIInv' /\ OwnTypes'
  <1>1. OwnTypes
    BY DEF RelayIInv, TypeOK, OwnTypes
  <1>2. ASSUME NEW p \in ProxyConn, OnProxyChallenge(p)
        PROVE  MessagesIInv' /\ OwnTypes'
    BY <1>1, <1>2, QuietKeeps DEF OnProxyChallenge, Quietly, OwnTypes, connAttributes, deviceVars
  <1> QED
    BY <1>2, CreateKeeps, DestroyAndPushKeep DEF ProxyStep

(* Tick posts nothing. *)
LEMMA TickKeeps ==
    ASSUME RelayIInv, NEW NowMS, Tick(NowMS)
    PROVE  MessagesIInv' /\ OwnTypes'
  <1>1. OwnTypes
    BY DEF RelayIInv, TypeOK, OwnTypes
  <1> QED
    BY <1>1, QuietKeeps DEF Tick, Quietly, OwnTypes, deviceVars

-----------------------------------------------------------------------------
(* The theorems. *)

(* The server starts without connections, devices and contexts. *)
LEMMA RelayInit == Init => RelayIInv
  <1> SUFFICES ASSUME Init PROVE RelayIInv
    OBVIOUS
  <1>1. Devices!IInv /\ Proxies!IInv
    BY DevicesInit, ProxiesInit DEF Init
  <1>2. TypeOK
    BY <1>1 DEF Init, TypeOK, Devices!IInv, Proxies!IInv
  <1>3. PointersWereDrawn /\ ClosedIsMarked /\ ContextAsReported
    BY DEF Init, PointersWereDrawn, ClosedIsMarked, ContextAsReported
  <1>4. CtrlConnectionOfOneDevice
    BY DEF Init, CtrlConnectionOfOneDevice, Devices!Init
  <1>5. ClosedDeviceIsSilent /\ PacketsCarryReportedId
    BY DEF Init, ClosedDeviceIsSilent, PacketsCarryReportedId
  <1>6. GoneIsDeleted
    BY DEF Init, GoneIsDeleted
  <1> QED
    BY <1>1, <1>2, <1>3, <1>4, <1>5, <1>6 DEF RelayIInv

(* Only the close of a device connection removes devices. *)
LEMMA OnlyCloseRemoves ==
    ASSUME [Next]_vars, \A c \in DeviceConn : ~ OnDevicePeerClose(c)
    PROVE  UNCHANGED <<Deleted, Gone>>
  <1>1. CASE UNCHANGED vars
    BY <1>1 DEF vars, deviceVars
  <1>2. CASE ConnectionStep
    BY <1>2 DEF ConnectionStep, AcceptDeviceConnection, AcceptDeviceConnectionFails,
                OnNewProxyConnection, OnNewProxyConnectionFails, OnProxyPeerClose,
                OnKeepAliveRequest, OnBadPacket, deviceVars
  <1>3. CASE TerminalStep
    BY <1>3 DEF TerminalStep, OnTerminalInitCtrlStream, OnTerminalInitDataStream,
                InitDataStreamRejected, InitDataStreamWithoutDevice, InitDataStreamAccepted,
                OnTerminalPostData, OnTerminalTargetConnectionUpdate, deviceVars
  <1>4. CASE ProxyStep
    BY <1>4 DEF ProxyStep, OnProxyChallenge, OnProxyCreateConnection, OnProxyDestroyConnection,
                OnProxyPushData, deviceVars
  <1>5. ASSUME NEW NowMS, Tick(NowMS) PROVE UNCHANGED <<Deleted, Gone>>
    BY <1>5 DEF Tick, deviceVars
  <1> QED
    BY <1>1, <1>2, <1>3, <1>4, <1>5 DEF Next

(* The device that points to the control connection that closes is the one the
   connection points to, so that it is this one that is removed. *)
LEMMA GoneStep ==
    ASSUME RelayIInv, [Next]_vars
    PROVE  GoneIsDeleted'
  <1>1. GoneIsDeleted
    BY DEF RelayIInv
  <1>2. ASSUME NEW c \in DeviceConn, OnDevicePeerClose(c) PROVE GoneIsDeleted'
    <2>1. CASE Type[c] = "data"
      BY <1>1, <1>2, <2>1 DEF OnDevicePeerClose, GoneIsDeleted
    <2>2. CASE Type[c] = "ctrl"
      <3>1. /\ Deleted' = Deleted \union {d \in Device : DeviceId[c] = d /\ GetDeviceById(d)}
            /\ Gone' = Gone \union {d \in Device : CtrlConnection[d] = c}
            /\ c \in dIds
        BY <1>2, <2>2 DEF OnDevicePeerClose, RemoveDeviceFromConnection, DevicesOf
      <3>2. \A d \in Device : CtrlConnection[d] = c => DeviceId[c] = d
        BY <2>2, <3>1 DEF RelayIInv, CtrlConnectionOfOneDevice
      <3>3. c # None
        BY IdAssumption
      <3> QED
        BY <1>1, <3>1, <3>2, <3>3 DEF GoneIsDeleted, GetDeviceById
    <2> QED
      BY <1>2, <2>1, <2>2 DEF OnDevicePeerClose
  <1>3. CASE \A c \in DeviceConn : ~ OnDevicePeerClose(c)
    BY <1>1, <1>3, OnlyCloseRemoves DEF GoneIsDeleted
  <1> QED
    BY <1>2, <1>3

(* Every step of the server keeps the invariant. *)
LEMMA RelayStep == RelayIInv /\ [Next]_vars => RelayIInv'
  <1> SUFFICES ASSUME RelayIInv, [Next]_vars PROVE RelayIInv'
    OBVIOUS
  <1>1. Devices!IInv' /\ Proxies!IInv'
    BY ManagerFacts, StepIsDevicesStep, StepIsProxiesStep, DevicesStep, ProxiesStep DEF RelayIInv
  <1>2. ConnectionsIInv'
    BY StepKeepsConnections
  <1>3. MessagesIInv' /\ OwnTypes'
    <2>1. CASE UNCHANGED vars
      BY <2>1 DEF RelayIInv, TypeOK, MessagesIInv, OwnTypes, ContextAsReported, GetContextById,
                  ClosedDeviceIsSilent, PacketsCarryReportedId, vars,
                  proxyConnVars, connAttributes, deviceVars, contextVars
    <2> QED
      BY <2>1, ConnectionStepKeeps, TerminalStepKeeps, ProxyStepKeeps, TickKeeps DEF Next
  <1>4. TypeOK'
    BY <1>1, <1>3 DEF TypeOK, OwnTypes, Devices!IInv, Proxies!IInv
  <1> QED
    BY <1>1, <1>2, <1>3, <1>4, GoneStep DEF RelayIInv, ConnectionsIInv, MessagesIInv

(* The inductive invariant of the relay server: those of its managers, what ties
   devices to connections, and what the packets of every callback respect. *)
THEOREM RelayInductiveInvariant == Spec => []RelayIInv
  BY RelayInit, RelayStep, PTL DEF Spec

(* The variables of the server and of its two managers have their types, and
   every packet it posts is one of the protocol. *)
THEOREM TypeCorrect == Spec => []TypeOK
  <1>1. RelayIInv => TypeOK
    BY DEF RelayIInv
  <1> QED
    BY <1>1, RelayInductiveInvariant, PTL

(* What the server does with the control and data connections is what
   xRD_DeviceConnectionManager does: its callbacks never touch the lists in
   another way. *)
THEOREM RelayUsesDeviceManager == Spec => Devices!Spec
  <1>1. Init => Devices!Init
    BY DEF Init
  <1>2. RelayIInv /\ [Next]_vars => [Devices!Next]_Devices!vars
    BY ManagerFacts, StepIsDevicesStep DEF RelayIInv
  <1> QED
    BY <1>1, <1>2, RelayInductiveInvariant, PTL DEF Spec, Devices!Spec

(* The same of the proxy connections and xRD_ProxyConnectionManager. *)
THEOREM RelayUsesProxyManager == Spec => Proxies!Spec
  <1>1. Init => Proxies!Init
    BY DEF Init
  <1>2. RelayIInv /\ [Next]_vars => [Proxies!Next]_Proxies!vars
    BY ManagerFacts, StepIsProxiesStep DEF RelayIInv
  <1> QED
    BY <1>1, <1>2, RelayInductiveInvariant, PTL DEF Spec, Proxies!Spec

(* In the server too no connection is linked in two lists or in none, and none
   outlives its timeout. *)
THEOREM ManagersSoundInRelay ==
    Spec => [](/\ Devices!EachInOneList /\ Devices!NoOverdueSurvivor
               /\ Proxies!EachInOneList /\ Proxies!NoOverdueSurvivor)
  <1>1. RelayIInv => /\ Devices!EachInOneList /\ Devices!NoOverdueSurvivor
                     /\ Proxies!EachInOneList /\ Proxies!NoOverdueSurvivor
    BY DEF RelayIInv, Devices!IInv, Proxies!IInv
  <1> QED
    BY <1>1, RelayInductiveInvariant, PTL

(* What the manager promises without its lists, it keeps within the server: a
   device connection is destroyed by the first Tick that finds it released or
   silent for too long, and by nothing else. *)
THEOREM DevicesAreReaped == Spec => DeviceProofs!ReaperSpec
  <1>1. Devices!Spec => DeviceProofs!Spec
    BY SameDeviceInit, SameDeviceNext, PTL DEF Devices!Spec, DeviceProofs!Spec
  <1>2. DeviceProofs!Spec => DeviceProofs!ReaperSpec
    BY DeviceProofs!ImplementsReaper, DeviceTimeAssumption
  <1> QED
    BY <1>1, <1>2, RelayUsesDeviceManager, PTL

(* The same of the proxy connections. *)
THEOREM ProxiesAreReaped == Spec => ProxyProofs!ReaperSpec
  <1>1. Proxies!Spec => ProxyProofs!Spec
    BY SameProxyInit, SameProxyNext, PTL DEF Proxies!Spec, ProxyProofs!Spec
  <1>2. ProxyProofs!Spec => ProxyProofs!ReaperSpec
    BY ProxyProofs!ImplementsReaper, ProxyTimeAssumption
  <1> QED
    BY <1>1, <1>2, RelayUsesProxyManager, PTL

(* A control connection answers for the device that points to it. *)
THEOREM CtrlConnectionsBound == Spec => []CtrlConnectionOfOneDevice
  <1>1. RelayIInv => CtrlConnectionOfOneDevice
    BY DEF RelayIInv
  <1> QED
    BY <1>1, RelayInductiveInvariant, PTL

(* No device connection hears of a device whose control connection closed:
   neither of new contexts nor of those it had. *)
THEOREM ClosedDevicesSilent == Spec => []ClosedDeviceIsSilent
  <1>1. RelayIInv => ClosedDeviceIsSilent
    BY DEF RelayIInv
  <1> QED
    BY <1>1, RelayInductiveInvariant, PTL

(* Packets to a device carry the id the device reported last. *)
THEOREM ReportedIdsCarried == Spec => []PacketsCarryReportedId
  <1>1. RelayIInv => PacketsCarryReportedId
    BY DEF RelayIInv
  <1> QED
    BY <1>1, RelayInductiveInvariant, PTL

(* The callback in which a control connection closes removes the device that
   uses it. *)
THEOREM CtrlCloseCorrect == Spec => CtrlCloseRemovesItsDevice
  <1>1. ASSUME RelayIInv, [Next]_vars, NEW d \in Device, NEW k \in dIds \ Closed,
               CtrlConnection[d] = k, Type[k] = "ctrl", k \in Closed'
        PROVE  d \in Deleted'
    <2>1. k \in DeviceConn /\ k # None
      BY <1>1, ManagerFacts, IdAssumption DEF RelayIInv
    <2>2. DeviceId[k] = d
      BY <1>1 DEF RelayIInv, CtrlConnectionOfOneDevice
    <2>3. OnDevicePeerClose(k)
      <3>1. Closed' # Closed
        BY <1>1
      <3>2. ~ TerminalStep /\ ~ ProxyStep
        BY <3>1 DEF TerminalStep, ProxyStep, OnTerminalInitCtrlStream, OnTerminalInitDataStream,
                    OnTerminalPostData, OnTerminalTargetConnectionUpdate, OnProxyChallenge,
                    OnProxyCreateConnection, OnProxyDestroyConnection, OnProxyPushData,
                    connAttributes
      <3>3. ASSUME NEW NowMS PROVE ~ Tick(NowMS)
        BY <1>1 DEF Tick
      <3>4. ConnectionStep
        BY <1>1, <3>1, <3>2, <3>3 DEF Next, vars, connAttributes
      <3> QED
        BY <1>1, <3>4
           DEF ConnectionStep, AcceptDeviceConnection, AcceptDeviceConnectionFails,
               OnDevicePeerClose, OnNewProxyConnection, OnNewProxyConnectionFails,
               OnProxyPeerClose, OnKeepAliveRequest, OnBadPacket, connAttributes
    <2> QED
      BY <1>1, <2>1, <2>2, <2>3 DEF OnDevicePeerClose, RemoveDeviceFromConnection, GetDeviceById
  <1>2. RelayIInv /\ [Next]_vars =>
          \A d \in Device, k \in dIds \ Closed :
            (CtrlConnection[d] = k /\ Type[k] = "ctrl" /\ k \in Closed') => (d \in Deleted')
    BY <1>1
  <1> QED
    BY <1>2, RelayInductiveInvariant, PTL DEF Spec, CtrlCloseRemovesItsDevice

(* The Tick of its round destroys a connection that closed or was turned away. *)
THEOREM ClosedDestroyed == Spec => ClosedIsDestroyedInItsRound
  <1>1. RelayIInv /\ [Next]_vars => (Ticker' > Ticker => Closed' = {} /\ dMarked' = {})
    <2> SUFFICES ASSUME RelayIInv, [Next]_vars, Ticker' > Ticker
                 PROVE  Closed' = {} /\ dMarked' = {}
      OBVIOUS
    <2>1. Ticker' # Ticker
      BY ManagerFacts DEF RelayIInv
    <2>2. [Devices!Next]_Devices!vars
      BY ManagerFacts, StepIsDevicesStep DEF RelayIInv
    <2>3. PICK NowMS \in Ticker..MaxTime : Devices!Tick(NowMS)
      BY <2>1, <2>2, DeviceCallbackIsTimeless DEF Devices!Next, Devices!vars
    <2>4. dMarked' = {}
      BY <2>3, DeviceTickFreesIds DEF RelayIInv
    <2> QED
      BY <2>4, RelayStep DEF RelayIInv, ClosedIsMarked
  <1> QED
    BY <1>1, RelayInductiveInvariant, PTL DEF Spec, ClosedIsDestroyedInItsRound

=============================================================================
