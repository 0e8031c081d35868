------------------------- MODULE DeviceConnections -------------------------
(***************************************************************************)
(* xRD_DeviceConnectionManager: the control and data connections of the    *)
(* devices, in three lists.  A connection starts in NewConnectionList, its *)
(* first packet moves it to IdleConnectionList, a release moves it to      *)
(* KillConnectionList; Tick destroys what waits there and what has been    *)
(* silent for too long.  Nothing is freed between two Ticks, so that the   *)
(* callbacks of one loop may still use a released connection.              *)
(***************************************************************************)
EXTENDS XList

CONSTANTS
    Conn,             \* connection ids; an id is never drawn twice
    MaxConnections,   \* capacity of the id pool
    NewTimeout,       \* 3'000 ms
    IdleTimeout,      \* 120'000 ms
    StartTime,        \* clock when the server starts
    MaxTime           \* bound on the clock

ASSUME TimeAssumption ==
    /\ NewTimeout \in Nat \ {0}
    /\ IdleTimeout \in Nat \ {0}
    /\ StartTime \in Nat
    /\ StartTime >= NewTimeout /\ StartTime >= IdleTimeout
    /\ MaxTime \in Nat
    /\ MaxTime >= StartTime

VARIABLES
    ConnectionIdManager,    \* ids that lead to a connection
    Released,               \* ids given back to the pool
    Marked,                 \* connections with FLAG_MARK_DELETE
    IdleTimestampMS,        \* stamp of each connection, 0 when there is none
    NewConnectionList,
    IdleConnectionList,
    KillConnectionList,
    Ticker                  \* time of the last Tick: callbacks see no later one

lists == <<NewConnectionList, IdleConnectionList, KillConnectionList>>
vars == <<ConnectionIdManager, Released, Marked, IdleTimestampMS, lists, Ticker>>

TypeOK ==
    /\ ConnectionIdManager \subseteq Conn
    /\ Released \subseteq Conn
    /\ Marked \subseteq Conn
    /\ IdleTimestampMS \in [Conn -> Nat]
    /\ NewConnectionList \in Seq(Conn)
    /\ IdleConnectionList \in Seq(Conn)
    /\ KillConnectionList \in Seq(Conn)
    /\ Ticker \in StartTime..MaxTime

(* Mutant of Init: Ticker.Update() is forgotten. *)
InitWithoutClock ==
    /\ ConnectionIdManager = {}
    /\ Released = {}
    /\ Marked = {}
    /\ IdleTimestampMS = [c \in Conn |-> 0]
    /\ NewConnectionList = << >>
    /\ IdleConnectionList = << >>
    /\ KillConnectionList = << >>
    /\ Ticker = 0

Init ==
    /\ ConnectionIdManager = {}
    /\ Released = {}
    /\ Marked = {}
    /\ IdleTimestampMS = [c \in Conn |-> 0]
    /\ NewConnectionList = << >>
    /\ IdleConnectionList = << >>
    /\ KillConnectionList = << >>
    /\ Ticker = StartTime

-----------------------------------------------------------------------------

(* An id the pool can still hand out: it is not full, and never repeats. *)
CanAcquire(c) ==
    /\ c \in Conn \ (ConnectionIdManager \union Released)
    /\ Cardinality(ConnectionIdManager) < MaxConnections

CreateConnection(c) ==
    /\ CanAcquire(c)
    /\ ConnectionIdManager' = ConnectionIdManager \union {c}
    /\ IdleTimestampMS' = [IdleTimestampMS EXCEPT ![c] = Ticker]
    /\ NewConnectionList' = GrabTail(NewConnectionList, c)
    /\ UNCHANGED <<Released, Marked, IdleConnectionList, KillConnectionList, Ticker>>

(* xTcpConnection::Init fails: the id goes back, the object is deleted. *)
CreateConnectionFails(c) ==
    /\ CanAcquire(c)
    /\ Released' = Released \union {c}
    /\ UNCHANGED <<ConnectionIdManager, Marked, IdleTimestampMS, lists, Ticker>>

(* Mutant of KeepAlive: no look at FLAG_MARK_DELETE. *)
KeepAliveOfMarked(c) ==
    /\ c \in ConnectionIdManager
    /\ IdleTimestampMS' = [IdleTimestampMS EXCEPT ![c] = Ticker]
    /\ IdleConnectionList' = GrabTail(IdleConnectionList, c)
    /\ NewConnectionList' = RemoveFirst(NewConnectionList, c)
    /\ KillConnectionList' = RemoveFirst(KillConnectionList, c)
    /\ UNCHANGED <<ConnectionIdManager, Released, Marked, Ticker>>

(* Mutant of KeepAlive: a connection that is idle already keeps its place. *)
KeepAliveInPlace(c) ==
    /\ c \in ConnectionIdManager \ Marked
    /\ IdleTimestampMS' = [IdleTimestampMS EXCEPT ![c] = Ticker]
    /\ IdleConnectionList' = IF Contains(IdleConnectionList, c)
                               THEN IdleConnectionList
                               ELSE Append(IdleConnectionList, c)
    /\ NewConnectionList' = RemoveFirst(NewConnectionList, c)
    /\ UNCHANGED <<ConnectionIdManager, Released, Marked, KillConnectionList, Ticker>>

KeepAlive(c) ==
    /\ c \in ConnectionIdManager
    /\ \/ /\ c \in Marked
          /\ UNCHANGED vars
       \/ /\ c \notin Marked
          /\ IdleTimestampMS' = [IdleTimestampMS EXCEPT ![c] = Ticker]
          /\ IdleConnectionList' = GrabTail(IdleConnectionList, c)
          /\ NewConnectionList' = RemoveFirst(NewConnectionList, c)
          /\ KillConnectionList' = RemoveFirst(KillConnectionList, c)
          /\ UNCHANGED <<ConnectionIdManager, Released, Marked, Ticker>>

DeferReleaseConnection(c) ==
    /\ c \in ConnectionIdManager
    /\ \/ /\ c \in Marked
          /\ UNCHANGED vars
       \/ /\ c \notin Marked
          /\ Marked' = Marked \union {c}
          /\ KillConnectionList' = GrabTail(KillConnectionList, c)
          /\ NewConnectionList' = RemoveFirst(NewConnectionList, c)
          /\ IdleConnectionList' = RemoveFirst(IdleConnectionList, c)
          /\ UNCHANGED <<ConnectionIdManager, Released, IdleTimestampMS, Ticker>>

(* Mutant of StampedBy: < for <=. *)
StampedBefore(t) == {c \in Conn : IdleTimestampMS[c] < t}

(* Stamped at or before t. *)
StampedBy(t) == {c \in Conn : IdleTimestampMS[c] <= t}

(* Mutant of Condemned: the loop over KillConnectionList stops at the timeouts. *)
CondemnedByTime ==
    (ToSet(NewConnectionList) \ ToSet(NewConnectionList'))
        \union (ToSet(IdleConnectionList) \ ToSet(IdleConnectionList'))

(* The connections RemoveIdleConnections destroys: what leaves the head of
   the first two lists, and all of KillConnectionList. *)
Condemned ==
    (ToSet(NewConnectionList) \ ToSet(NewConnectionList'))
        \union (ToSet(IdleConnectionList) \ ToSet(IdleConnectionList'))
        \union ToSet(KillConnectionList)

(* DestroyConnection of every member of D: id, mark and stamp go with it. *)
DestroyConnections(D) ==
    /\ ConnectionIdManager' = ConnectionIdManager \ D
    /\ Released' = Released \union D
    /\ Marked' = Marked \ D
    /\ IdleTimestampMS' = [c \in Conn |-> IF c \in D THEN 0 ELSE IdleTimestampMS[c]]

Tick(NowMS) ==
    /\ Ticker' = NowMS
    /\ NewConnectionList' = PopHeadWhile(NewConnectionList, StampedBy(NowMS - NewTimeout))
    /\ IdleConnectionList' = PopHeadWhile(IdleConnectionList, StampedBy(NowMS - IdleTimeout))
    /\ KillConnectionList' = << >>
    /\ DestroyConnections(Condemned)

Next ==
    \/ \E c \in Conn : \/ CreateConnection(c)
                       \/ CreateConnectionFails(c)
                       \/ KeepAlive(c)
                       \/ DeferReleaseConnection(c)
    \/ \E NowMS \in Ticker..MaxTime : Tick(NowMS)

Spec == Init /\ [][Next]_vars

(* The main loop calls Tick for ever (_main.cpp). *)
FairSpec == Spec /\ WF_vars(\E NowMS \in Ticker..MaxTime : Tick(NowMS))

-----------------------------------------------------------------------------

(* Every connection the id pool leads to is linked in exactly one list, once,
   and nothing else is; KillConnectionList holds exactly the connections with
   FLAG_MARK_DELETE.  A node in no list would never be destroyed (its id and
   socket leak), a node in two would be deleted twice, which is what
   RuntimeAssert(CheckAndRelease(...)) in DestroyConnection guards against. *)
EachInOneList ==
    /\ IsInjective(NewConnectionList)
    /\ IsInjective(IdleConnectionList)
    /\ IsInjective(KillConnectionList)
    /\ ToSet(NewConnectionList) \intersect ToSet(IdleConnectionList) = {}
    /\ ToSet(NewConnectionList) \union ToSet(IdleConnectionList)
         = ConnectionIdManager \ Marked
    /\ ToSet(KillConnectionList) = Marked
    /\ Marked \subseteq ConnectionIdManager

(* An id that was given back leads to nothing, and no stamp is in the future:
   Ticker only moves in Tick, and callbacks stamp with it. *)
StampsArePast ==
    /\ Released \intersect ConnectionIdManager = {}
    /\ \A c \in Conn : IdleTimestampMS[c] <= Ticker

(* PopHead looks at the head only, so both lists must be in stamp order. *)
ListsInStampOrder ==
    /\ SortedBy(NewConnectionList, IdleTimestampMS)
    /\ SortedBy(IdleConnectionList, IdleTimestampMS)

(* No connection outlives its timeout: when Tick returns, each one left in
   NewConnectionList was accepted less than NewTimeout ago and each one in
   IdleConnectionList was heard of less than IdleTimeout ago, although Tick
   stops at the first young head of each list. *)
NoOverdueSurvivor ==
    /\ \A c \in ToSet(NewConnectionList) : IdleTimestampMS[c] + NewTimeout > Ticker
    /\ \A c \in ToSet(IdleConnectionList) : IdleTimestampMS[c] + IdleTimeout > Ticker

(* The inductive invariant. *)
IInv ==
    /\ TypeOK
    /\ EachInOneList
    /\ StampsArePast
    /\ ListsInStampOrder
    /\ NoOverdueSurvivor

(* A connection whose release was deferred is destroyed by a later Tick. *)
DeferredIsDestroyed ==
    \A c \in Conn : c \in Marked ~> c \in Released

(* What the lists stand for: the deadline of a connection is its stamp plus the
   timeout of the list it is in. *)
Deadline ==
    [c \in Conn |->
        IF c \in ToSet(NewConnectionList) THEN IdleTimestampMS[c] + NewTimeout
        ELSE IF c \in ToSet(IdleConnectionList) THEN IdleTimestampMS[c] + IdleTimeout
        ELSE 0]

Reaper == INSTANCE ConnectionReaper WITH
    FirstTimeout <- NewTimeout,
    LongTimeout <- IdleTimeout,
    active <- ConnectionIdManager \ Marked,
    doomed <- Marked,
    spent <- Released,
    deadline <- Deadline,
    now <- Ticker

(* The lists implement the reaper: a Tick destroys the released connections and
   exactly those whose time has come, never one earlier; a packet that arrives
   for a released connection in the same loop does not bring it back. *)
ReaperSpec == Reaper!Spec

=============================================================================
