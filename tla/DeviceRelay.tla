----------------------------- MODULE DeviceRelay -----------------------------
(***************************************************************************)
(* xDeviceRelayService: the server between the devices (terminals), which  *)
(* open a control and a data connection, and the proxy access servers,     *)
(* which ask for connections through a device.  The listener callbacks of  *)
(* the io loop run one at a time; after each loop every manager ticks.     *)
(*                                                                         *)
(* Composes DeviceConnections and ProxyConnections with the device pool    *)
(* (xDeviceManager) and the relay contexts (xRelayConnectionManager).  A   *)
(* device keeps plain pointers to its two connections.                     *)
(***************************************************************************)
EXTENDS Integers, FiniteSets

CONSTANTS
    DeviceConn, ProxyConn,                      \* connection ids
    MaxDeviceConnections, MaxProxyConnections,
    NewTimeout, DeviceIdleTimeout, ChallengeTimeout, ProxyIdleTimeout,
    StartTime, MaxTime,
    Device,         \* ids of the device pool; none is given back at run time
    RelayId,        \* ids of the relay contexts; none is given back
    ProxySideId,    \* 64-bit ids the proxies choose
    DeviceSideId,   \* 32-bit ids the devices choose
    IdSpace,        \* 2^32
    None

(* The timeouts are not 0 and the clock, which counts from an epoch, is past
   them; see DeviceConnections and ProxyConnections. *)
ASSUME ClockAssumption ==
    /\ {NewTimeout, DeviceIdleTimeout, ChallengeTimeout, ProxyIdleTimeout} \subseteq (1..StartTime)
    /\ {StartTime, MaxTime} \subseteq Nat
    /\ MaxTime >= StartTime

(* An id stands for the connection object, and no object is of both kinds. *)
ASSUME IdAssumption ==
    /\ DeviceConn \intersect ProxyConn = {}
    /\ ProxySideId \subseteq Nat
    /\ DeviceSideId \subseteq 0..(IdSpace - 1)
    /\ IdSpace \in Nat \ {0}
    /\ None \notin DeviceConn \union ProxyConn \union Device \union RelayId
    /\ None \notin DeviceSideId

VARIABLES
    (* xRD_DeviceConnectionManager *)
    dIds, dReleased, dMarked, dStamp, dNew, dIdle, dKill,
    (* xRD_ProxyConnectionManager *)
    pIds, pReleased, pMarked, pReady, pStamp, pChallenge, pIdle, pKill,
    Ticker,             \* every manager ticks with the same NowMS
    Type,               \* of a device connection: "ctrl" or "data"
    Closed,             \* device connections whose OnPeerClose has come
    DeviceId,           \* Conn->DeviceId
    CtrlConnection,     \* of a device
    DataConnection,     \* of a device
    Deleted,            \* devices with FLAG_DELETE
    Gone,               \* devices whose control connection closed (history)
    Context,            \* xRelayConnectionContext of each id, None before Create
    Reported,           \* last DeviceSideConnectionId a device reported as
                        \* STATE_ESTABLISHED for a context (history)
    failing,            \* the connection whose OnData returned InvalidDataSize
    Posted              \* what the last callback posted to another connection

deviceConnVars == <<dIds, dReleased, dMarked, dStamp, dNew, dIdle, dKill>>
proxyConnVars == <<pIds, pReleased, pMarked, pReady, pStamp, pChallenge, pIdle, pKill>>
connAttributes == <<Type, Closed, DeviceId>>
deviceVars == <<CtrlConnection, DataConnection, Deleted, Gone>>
contextVars == <<Context, Reported>>
vars == <<deviceConnVars, proxyConnVars, Ticker, connAttributes, deviceVars,
          contextVars, failing, Posted>>

Devices == INSTANCE DeviceConnections WITH
    Conn <- DeviceConn,
    MaxConnections <- MaxDeviceConnections,
    IdleTimeout <- DeviceIdleTimeout,
    ConnectionIdManager <- dIds,
    Released <- dReleased,
    Marked <- dMarked,
    IdleTimestampMS <- dStamp,
    NewConnectionList <- dNew,
    IdleConnectionList <- dIdle,
    KillConnectionList <- dKill

Proxies == INSTANCE ProxyConnections WITH
    Conn <- ProxyConn,
    MaxConnections <- MaxProxyConnections,
    IdleTimeout <- ProxyIdleTimeout,
    ConnectionIdManager <- pIds,
    Released <- pReleased,
    Marked <- pMarked,
    ChallengeReady <- pReady,
    IdleTimestampMS <- pStamp,
    ChallengeConnectionList <- pChallenge,
    IdleConnectionList <- pIdle,
    KillConnectionList <- pKill

(* xRelayConnectionContext, without its own id. *)
RelayConnectionContext ==
    [device: Device, proxy: ProxyConn, proxySide: ProxySideId, deviceSide: DeviceSideId]

ASSUME ContextAssumption == None \notin RelayConnectionContext

(* Packets to a device and to a proxy; "refused" is the STATE_CLOSED notice of
   a connection for which there is no context. *)
Packet ==
    [to: DeviceConn, kind: {"create"}, about: RelayId]
        \union [to: DeviceConn, kind: {"post", "destroy"}, about: RelayId, id: DeviceSideId]
        \union [to: ProxyConn, kind: {"notify", "push"}, about: RelayId, id: 0..(IdSpace - 1)]
        \union [to: ProxyConn, kind: {"refused"}, id: 0..(IdSpace - 1)]

TypeOK ==
    /\ Devices!TypeOK
    /\ Proxies!TypeOK
    /\ Type \in [DeviceConn -> {"ctrl", "data", None}]
    /\ Closed \subseteq DeviceConn
    /\ DeviceId \in [DeviceConn -> Device \union {None}]
    /\ CtrlConnection \in [Device -> DeviceConn \union {None}]
    /\ DataConnection \in [Device -> DeviceConn \union {None}]
    /\ Deleted \subseteq Device
    /\ Gone \subseteq Device
    /\ Context \in [RelayId -> RelayConnectionContext \union {None}]
    /\ Reported \in [RelayId -> DeviceSideId \union {None}]
    /\ failing \in DeviceConn \union ProxyConn \union {None}
    /\ Posted \subseteq Packet

Init ==
    /\ Devices!Init
    /\ Proxies!Init
    /\ Type = [c \in DeviceConn |-> None]
    /\ Closed = {}
    /\ DeviceId = [c \in DeviceConn |-> None]
    /\ CtrlConnection = [d \in Device |-> None]
    /\ DataConnection = [d \in Device |-> None]
    /\ Deleted = {}
    /\ Gone = {}
    /\ Context = [r \in RelayId |-> None]
    /\ Reported = [r \in RelayId |-> None]
    /\ failing = None
    /\ Posted = {}

-----------------------------------------------------------------------------
(* The io loop. *)

(* OnData may come for c: it is there, its peer has not closed, and no other
   connection is about to be closed for a bad packet. *)
Listening(c) ==
    /\ failing = None
    /\ \/ c \in dIds \ Closed
       \/ c \in pIds \ pMarked

(* A callback that posts nothing and lets the loop go on. *)
Quietly ==
    /\ Posted' = {}
    /\ UNCHANGED failing

(* OnData returns InvalidDataSize: the connection closes before anything else. *)
Rejected(c) ==
    /\ failing' = c
    /\ Posted' = {}

(* NewDevice: an id of the pool that was never drawn. *)
IsNewDevice(d) == CtrlConnection[d] = None

(* GetDeviceById finds d. *)
GetDeviceById(d) == CtrlConnection[d] # None /\ d \notin Deleted

(* GetConnectionById of the relay contexts finds r. *)
GetContextById(r) == Context[r] # None

(* The connections a post through pointer c may reach: c while it lives; once
   it was deleted the memory is free, or holds another connection by now. *)
Reached(c) ==
    IF c \in dIds THEN {{c}} ELSE {{}} \union {{other} : other \in dIds}

-----------------------------------------------------------------------------
(* Connections. *)

AcceptDeviceConnection(c, type) ==
    /\ failing = None
    /\ Devices!CreateConnection(c)
    /\ Type' = [Type EXCEPT ![c] = type]
    /\ Quietly
    /\ UNCHANGED <<proxyConnVars, Closed, DeviceId, deviceVars, contextVars>>

AcceptDeviceConnectionFails(c) ==
    /\ failing = None
    /\ Devices!CreateConnectionFails(c)
    /\ Quietly
    /\ UNCHANGED <<proxyConnVars, connAttributes, deviceVars, contextVars>>

OnNewProxyConnection(p) ==
    /\ failing = None
    /\ Proxies!CreateConnection(p)
    /\ Quietly
    /\ UNCHANGED <<deviceConnVars, connAttributes, deviceVars, contextVars>>

OnNewProxyConnectionFails(p) ==
    /\ failing = None
    /\ Proxies!CreateConnectionFails(p)
    /\ Quietly
    /\ UNCHANGED <<deviceConnVars, connAttributes, deviceVars, contextVars>>

(* Mutant of RemoveDeviceFromConnection: only the device the connection is the
   data connection of is found. *)
RemoveDeviceOfDataConnection(c) ==
    Deleted' = Deleted \union {d \in Device : DataConnection[d] = c /\ GetDeviceById(d)}

(* ReleaseDevice of the device c is bound to, when there is one. *)
RemoveDeviceFromConnection(c) ==
    Deleted' = Deleted \union {d \in Device : DeviceId[c] = d /\ GetDeviceById(d)}

(* The devices that point to c as their control connection. *)
DevicesOf(c) == {d \in Device : CtrlConnection[d] = c}

(* Mutant of OnDevicePeerClose: a data connection is not released. *)
OnCtrlPeerClose(c) ==
    /\ c \in dIds \ Closed
    /\ failing \in {None, c}
    /\ \/ /\ Type[c] = "ctrl"
          /\ RemoveDeviceFromConnection(c)
          /\ Gone' = Gone \union DevicesOf(c)
          /\ Devices!DeferReleaseConnection(c)
       \/ Type[c] = "data" /\ UNCHANGED <<deviceConnVars, Ticker, Deleted, Gone>>
    /\ Closed' = Closed \union {c}
    /\ failing' = None
    /\ Posted' = {}
    /\ UNCHANGED <<proxyConnVars, Type, DeviceId, CtrlConnection, DataConnection, contextVars>>

OnDevicePeerClose(c) ==
    /\ c \in dIds \ Closed
    /\ failing \in {None, c}
    /\ \/ /\ Type[c] = "ctrl"
          /\ RemoveDeviceFromConnection(c)
          /\ Gone' = Gone \union DevicesOf(c)
       \/ Type[c] = "data" /\ UNCHANGED <<Deleted, Gone>>
    /\ Devices!DeferReleaseConnection(c)
    /\ Closed' = Closed \union {c}
    /\ failing' = None
    /\ Posted' = {}
    /\ UNCHANGED <<proxyConnVars, Type, DeviceId, CtrlConnection, DataConnection, contextVars>>

OnProxyPeerClose(p) ==
    /\ p \in pIds \ pMarked
    /\ failing \in {None, p}
    /\ Proxies!DeferReleaseConnection(p)
    /\ failing' = None
    /\ Posted' = {}
    /\ UNCHANGED <<deviceConnVars, connAttributes, deviceVars, contextVars>>

(* A keepalive request; every connection may send one. *)
OnKeepAliveRequest(c) ==
    /\ Listening(c)
    /\ \/ /\ c \in dIds
          /\ Devices!KeepAlive(c)
          /\ UNCHANGED proxyConnVars
       \/ /\ c \in pIds
          /\ Proxies!KeepAlive(c)
          /\ UNCHANGED deviceConnVars
    /\ Quietly
    /\ UNCHANGED <<connAttributes, deviceVars, contextVars>>

(* A header or a payload that does not parse, or a command that is not one of
   this type of connection. *)
OnBadPacket(c) ==
    /\ Listening(c)
    /\ Rejected(c)
    /\ UNCHANGED <<deviceConnVars, proxyConnVars, Ticker, connAttributes, deviceVars, contextVars>>

-----------------------------------------------------------------------------
(* Packets of a device. *)

OnTerminalInitCtrlStream(c) ==
    /\ Listening(c)
    /\ c \in dIds /\ Type[c] = "ctrl"
    /\ Devices!KeepAlive(c)
    /\ Quietly
    /\ UNCHANGED <<proxyConnVars, connAttributes, deviceVars, contextVars>>

(* InitDataStream on data connection c, naming the control connection k: any
   id, of whatever type, even c itself. *)
InitDataStreamRejected(c, k) ==
    /\ k \notin dIds \/ DeviceId[k] # None
    /\ Rejected(c)
    /\ UNCHANGED <<deviceConnVars, Ticker, DeviceId, deviceVars>>

InitDataStreamWithoutDevice(c, k) ==
    /\ k \in dIds /\ DeviceId[k] = None
    /\ ~ \E d \in Device : IsNewDevice(d)
    /\ Devices!DeferReleaseConnection(k)
    /\ Rejected(c)
    /\ UNCHANGED <<DeviceId, deviceVars>>

(* Mutant of InitDataStreamAccepted: a control connection may get a second device. *)
InitDataStreamTwice(c, k) ==
    /\ k \in dIds
    /\ \E d \in Device :
         /\ IsNewDevice(d)
         /\ DeviceId' = [DeviceId EXCEPT ![c] = d, ![k] = d]
         /\ CtrlConnection' = [CtrlConnection EXCEPT ![d] = k]
         /\ DataConnection' = [DataConnection EXCEPT ![d] = c]
    /\ Devices!KeepAlive(c)
    /\ Quietly
    /\ UNCHANGED <<Deleted, Gone>>

InitDataStreamAccepted(c, k) ==
    /\ k \in dIds /\ DeviceId[k] = None
    /\ \E d \in Device :
         /\ IsNewDevice(d)
         /\ DeviceId' = [DeviceId EXCEPT ![c] = d, ![k] = d]
         /\ CtrlConnection' = [CtrlConnection EXCEPT ![d] = k]
         /\ DataConnection' = [DataConnection EXCEPT ![d] = c]
    /\ Devices!KeepAlive(c)
    /\ Quietly
    /\ UNCHANGED <<Deleted, Gone>>

OnTerminalInitDataStream(c, k) ==
    /\ Listening(c)
    /\ c \in dIds /\ Type[c] = "data"
    /\ \/ InitDataStreamRejected(c, k)
       \/ InitDataStreamWithoutDevice(c, k)
       \/ InitDataStreamAccepted(c, k)
    /\ UNCHANGED <<proxyConnVars, Type, Closed, contextVars>>

(* Mutant of ToProxy: the proxy's id goes out with all its 64 bits. *)
ToProxyUncut(kind, r) ==
    IF Context[r].proxy \in pIds
    THEN {[to |-> Context[r].proxy, kind |-> kind, about |-> r, id |-> Context[r].proxySide]}
    ELSE {}

(* What the proxy of context r is told about it, by the proxy's own id, which
   the packet has 32 bits for; nothing when the proxy is gone. *)
ToProxy(kind, r) ==
    IF Context[r].proxy \in pIds
    THEN {[to |-> Context[r].proxy, kind |-> kind, about |-> r,
           id |-> Context[r].proxySide % IdSpace]}
    ELSE {}

(* Mutant of IsEstablished: every report sets the id. *)
AnyReport(state) == TRUE

(* The one report that sets DeviceSideConnectionId. *)
IsEstablished(state) == state = "ESTABLISHED"

OnTerminalTargetConnectionUpdate(c, r, id, state) ==
    /\ Listening(c)
    /\ c \in dIds /\ Type[c] = "data"
    /\ \/ /\ GetContextById(r)
          /\ Context' = IF IsEstablished(state)
                        THEN [Context EXCEPT ![r].deviceSide = id]
                        ELSE Context
          /\ Reported' = IF state = "ESTABLISHED"
                         THEN [Reported EXCEPT ![r] = id]
                         ELSE Reported
          /\ Posted' = ToProxy("notify", r)
       \/ /\ ~ GetContextById(r)
          /\ Posted' = {}
          /\ UNCHANGED contextVars
    /\ UNCHANGED <<deviceConnVars, proxyConnVars, Ticker, connAttributes, deviceVars, failing>>

OnTerminalPostData(c, r) ==
    /\ Listening(c)
    /\ c \in dIds /\ Type[c] = "data"
    /\ Posted' = IF GetContextById(r) THEN ToProxy("push", r) ELSE {}
    /\ UNCHANGED <<deviceConnVars, proxyConnVars, Ticker, connAttributes, deviceVars,
                   contextVars, failing>>

-----------------------------------------------------------------------------
(* Packets of a proxy. *)

OnProxyChallenge(p) ==
    /\ Listening(p)
    /\ p \in pIds
    /\ Proxies!AcceptChallenge(p)
    /\ Quietly
    /\ UNCHANGED <<deviceConnVars, connAttributes, deviceVars, contextVars>>

(* The constructor leaves DeviceSideConnectionId as the pool's memory had it. *)
CreateContext(r, p, d, proxySide) ==
    /\ Context[r] = None
    /\ \E uninitialised \in DeviceSideId :
         Context' = [Context EXCEPT ![r] =
             [device |-> d, proxy |-> p, proxySide |-> proxySide, deviceSide |-> uninitialised]]

OnProxyCreateConnection(p, d, proxySide) ==
    /\ Listening(p)
    /\ p \in pIds
    /\ \/ /\ ~ GetDeviceById(d)
          /\ Posted' = {}
          /\ UNCHANGED Context
       \/ /\ GetDeviceById(d)
          /\ \A r \in RelayId : Context[r] # None
          /\ Posted' = {[to |-> p, kind |-> "refused", id |-> proxySide % IdSpace]}
          /\ UNCHANGED Context
       \/ /\ GetDeviceById(d)
          /\ \E r \in RelayId :
               /\ CreateContext(r, p, d, proxySide)
               /\ \E reached \in Reached(CtrlConnection[d]) :
                    Posted' = {[to |-> c, kind |-> "create", about |-> r] : c \in reached}
    /\ UNCHANGED <<deviceConnVars, proxyConnVars, Ticker, connAttributes, deviceVars,
                   Reported, failing>>

(* A packet about context r through the DataConnection of its device. *)
ToDevice(kind, r) ==
    LET d == Context[r].device
    IN  \/ /\ GetDeviceById(d)
           /\ \E reached \in Reached(DataConnection[d]) :
                Posted' = {[to |-> c, kind |-> kind, about |-> r,
                            id |-> Context[r].deviceSide] : c \in reached}
        \/ ~ GetDeviceById(d) /\ Posted' = {}

OnProxyDestroyConnection(p, r) ==
    /\ Listening(p)
    /\ p \in pIds
    /\ \/ GetContextById(r) /\ ToDevice("destroy", r)
       \/ ~ GetContextById(r) /\ Posted' = {}
    /\ UNCHANGED <<deviceConnVars, proxyConnVars, Ticker, connAttributes, deviceVars,
                   contextVars, failing>>

(* GetConnectionById finds r and RC->ProxySideConnectionId, of 64 bits, is the
   id of the packet, of 32. *)
ProxySideIdMatches(r, id) == GetContextById(r) /\ Context[r].proxySide = id

OnProxyPushData(p, r, id) ==
    /\ Listening(p)
    /\ p \in pIds
    /\ \/ ProxySideIdMatches(r, id) /\ ToDevice("post", r)
       \/ ~ ProxySideIdMatches(r, id) /\ Posted' = {}
    /\ UNCHANGED <<deviceConnVars, proxyConnVars, Ticker, connAttributes, deviceVars,
                   contextVars, failing>>

-----------------------------------------------------------------------------

(* The end of one round of the main loop.  What was in a destroyed connection
   object goes with it; xDeviceManager and xRelayConnectionManager only note
   the time. *)
Tick(NowMS) ==
    /\ failing = None
    /\ Devices!Tick(NowMS)
    /\ Proxies!Tick(NowMS)
    /\ Type' = [c \in DeviceConn |-> IF c \in dIds' THEN Type[c] ELSE None]
    /\ DeviceId' = [c \in DeviceConn |-> IF c \in dIds' THEN DeviceId[c] ELSE None]
    /\ Closed' = Closed \intersect dIds'
    /\ Quietly
    /\ UNCHANGED <<deviceVars, contextVars>>

ConnectionStep ==
    \/ \E c \in DeviceConn : \/ \E type \in {"ctrl", "data"} : AcceptDeviceConnection(c, type)
                             \/ AcceptDeviceConnectionFails(c)
                             \/ OnDevicePeerClose(c)
    \/ \E p \in ProxyConn : \/ OnNewProxyConnection(p)
                            \/ OnNewProxyConnectionFails(p)
                            \/ OnProxyPeerClose(p)
    \/ \E c \in DeviceConn \union ProxyConn : \/ OnKeepAliveRequest(c)
                                              \/ OnBadPacket(c)

TerminalStep ==
    \E c \in DeviceConn :
        \/ OnTerminalInitCtrlStream(c)
        \/ \E k \in DeviceConn : OnTerminalInitDataStream(c, k)
        \/ \E r \in RelayId : \/ OnTerminalPostData(c, r)
                              \/ \E id \in DeviceSideId, state \in {"ESTABLISHED", "UPDATE_TRANSFER", "CLOSED"} :
                                     OnTerminalTargetConnectionUpdate(c, r, id, state)

ProxyStep ==
    \E p \in ProxyConn :
        \/ OnProxyChallenge(p)
        \/ \E d \in Device, id \in ProxySideId : OnProxyCreateConnection(p, d, id)
        \/ \E r \in RelayId : \/ OnProxyDestroyConnection(p, r)
                              \/ \E id \in {n % IdSpace : n \in ProxySideId} : OnProxyPushData(p, r, id)

Next ==
    \/ ConnectionStep
    \/ TerminalStep
    \/ ProxyStep
    \/ \E NowMS \in Ticker..MaxTime : Tick(NowMS)

Spec == Init /\ [][Next]_vars

-----------------------------------------------------------------------------

(* A control connection answers for one device: the device that points to it
   is the one it points to, so that its OnPeerClose removes the right one.
   Nothing clears DeviceId while the connection lives; a data connection may
   change devices, a control connection never does. *)
CtrlConnectionOfOneDevice ==
    \A d \in Device :
        LET k == CtrlConnection[d]
        IN  k \in dIds /\ Type[k] = "ctrl" => DeviceId[k] = d

(* When a control connection closes, the device that uses it is removed in the
   same callback, before any proxy can ask for it. *)
CtrlCloseRemovesItsDevice ==
    [][ \A d \in Device, k \in dIds \ Closed :
          (CtrlConnection[d] = k /\ Type[k] = "ctrl" /\ k \in Closed') => (d \in Deleted') ]_vars

(* A device whose control connection closed is silent from then on: nothing that
   a proxy asks for or sends into an older context is posted to a device
   connection, whatever connections named that control connection before and
   whichever of them are still open. *)
ClosedDeviceIsSilent ==
    \A m \in Posted :
        m.to \in DeviceConn => Context[m.about].device \notin Gone

(* Once a device has reported a context as established, every packet about it
   carries the id of the latest such report: no other report, and nothing the
   context was created with, can show up in its place. *)
PacketsCarryReportedId ==
    \A m \in Posted :
        m.kind \in {"post", "destroy"} /\ Reported[m.about] # None => m.id = Reported[m.about]

(* A device connection that closed, by its peer or for a packet that was
   rejected, and one that was turned away because the device pool is full, is
   destroyed by the Tick of the same round of the loop: nothing that comes in
   between, for it or about it, takes it back into a list that waits for a
   timeout. *)
ClosedIsDestroyedInItsRound ==
    [][Ticker' > Ticker => Closed' = {} /\ dMarked' = {}]_vars

(* assert(D->CtrlConnection) in OnProxyCreateConnection: a device that
   GetDeviceById finds has its control connection, here as long as its data
   connection is there. *)
FoundDeviceHasCtrlConnection ==
    \A d \in Device :
        GetDeviceById(d) /\ DataConnection[d] \in dIds => CtrlConnection[d] \in dIds

(* The id a notification tells the proxy is one the proxy can push data with,
   as the test client does. *)
ToldIdIsAccepted ==
    \A m \in Posted : m.kind = "notify" => ProxySideIdMatches(m.about, m.id)

-----------------------------------------------------------------------------
(* What the properties above rest on. *)

(* A device points to connections there are or were: none accepted later on is
   taken for them. *)
PointersWereDrawn ==
    \A d \in Device :
        {CtrlConnection[d], DataConnection[d]} \subseteq dIds \union dReleased \union {None}

(* A device is not found any more once its control connection closed. *)
GoneIsDeleted == Gone \subseteq Deleted

(* A connection that closed waits to be destroyed. *)
ClosedIsMarked == Closed \subseteq dMarked

(* The id reported last is the one the context holds. *)
ContextAsReported ==
    \A r \in RelayId :
        Reported[r] # None => GetContextById(r) /\ Context[r].deviceSide = Reported[r]

RelayIInv ==
    /\ TypeOK
    /\ Devices!IInv
    /\ Proxies!IInv
    /\ PointersWereDrawn
    /\ CtrlConnectionOfOneDevice
    /\ ClosedIsMarked
    /\ GoneIsDeleted
    /\ ContextAsReported
    /\ ClosedDeviceIsSilent
    /\ PacketsCarryReportedId

===========================================================================
