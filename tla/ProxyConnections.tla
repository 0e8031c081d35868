-------------------------- MODULE ProxyConnections --------------------------
(***************************************************************************)
(* xRD_ProxyConnectionManager: the connections of the proxy access servers *)
(* to the relay server.  A connection waits in ChallengeConnectionList for *)
(* its challenge packet; only a challenged connection can be kept alive,   *)
(* and then lives in IdleConnectionList.  Timeouts go through the same     *)
(* deferred release as everything else, and Tick destroys what the release *)
(* collected.                                                              *)
(***************************************************************************)
EXTENDS XList

CONSTANTS
    Conn,               \* connection ids; an id is never drawn twice
    MaxConnections,     \* capacity of the id pool
    ChallengeTimeout,   \* CHALLENGE_TIMEOUT, 2'000 ms
    IdleTimeout,        \* IDLE_TIMEOUT, 30 minutes
    StartTime,          \* clock when the server starts
    MaxTime             \* bound on the clock

ASSUME TimeAssumption ==
    /\ ChallengeTimeout \in Nat \ {0}
    /\ IdleTimeout \in Nat \ {0}
    /\ StartTime \in Nat
    /\ StartTime >= ChallengeTimeout /\ StartTime >= IdleTimeout
    /\ MaxTime \in Nat
    /\ MaxTime >= StartTime

VARIABLES
    ConnectionIdManager,        \* ids that lead to a connection
    Released,                   \* ids given back to the pool
    Marked,                     \* connections with FLAG_MARK_DELETE
    ChallengeReady,             \* connections whose challenge was accepted
    IdleTimestampMS,            \* stamp of each connection, 0 when there is none
    ChallengeConnectionList,
    IdleConnectionList,
    KillConnectionList,
    Ticker                      \* time of the last Tick

lists == <<ChallengeConnectionList, IdleConnectionList, KillConnectionList>>
vars == <<ConnectionIdManager, Released, Marked, ChallengeReady, IdleTimestampMS,
          lists, Ticker>>

TypeOK ==
    /\ ConnectionIdManager \subseteq Conn
    /\ Released \subseteq Conn
    /\ Marked \subseteq Conn
    /\ ChallengeReady \subseteq Conn
    /\ IdleTimestampMS \in [Conn -> Nat]
    /\ ChallengeConnectionList \in Seq(Conn)
    /\ IdleConnectionList \in Seq(Conn)
    /\ KillConnectionList \in Seq(Conn)
    /\ Ticker \in StartTime..MaxTime

InitExceptClock ==
    /\ ConnectionIdManager = {}
    /\ Released = {}
    /\ Marked = {}
    /\ ChallengeReady = {}
    /\ IdleTimestampMS = [c \in Conn |-> 0]
    /\ ChallengeConnectionList = << >>
    /\ IdleConnectionList = << >>
    /\ KillConnectionList = << >>

(* Mutant of Init: Ticker.Update() is forgotten. *)
InitWithoutClock == InitExceptClock /\ Ticker = 0

Init == InitExceptClock /\ Ticker = StartTime

-----------------------------------------------------------------------------

(* An id the pool can still hand out: it is not full, and never repeats. *)
CanAcquire(c) ==
    /\ c \in Conn \ (ConnectionIdManager \union Released)
    /\ Cardinality(ConnectionIdManager) < MaxConnections

CreateConnection(c) ==
    /\ CanAcquire(c)
    /\ ConnectionIdManager' = ConnectionIdManager \union {c}
    /\ IdleTimestampMS' = [IdleTimestampMS EXCEPT ![c] = Ticker]
    /\ ChallengeConnectionList' = GrabTail(ChallengeConnectionList, c)
    /\ UNCHANGED <<Released, Marked, ChallengeReady, IdleConnectionList,
                   KillConnectionList, Ticker>>

(* xTcpConnection::Init fails: the id goes back, the object is deleted. *)
CreateConnectionFails(c) ==
    /\ CanAcquire(c)
    /\ Released' = Released \union {c}
    /\ UNCHANGED <<ConnectionIdManager, Marked, ChallengeReady, IdleTimestampMS,
                   lists, Ticker>>

(* Mutant of MoveToIdle: a connection that is idle already keeps its place. *)
StampInPlace(c) ==
    /\ IdleTimestampMS' = [IdleTimestampMS EXCEPT ![c] = Ticker]
    /\ IdleConnectionList' = IF Contains(IdleConnectionList, c)
                               THEN IdleConnectionList
                               ELSE Append(IdleConnectionList, c)
    /\ ChallengeConnectionList' = RemoveFirst(ChallengeConnectionList, c)
    /\ KillConnectionList' = RemoveFirst(KillConnectionList, c)

(* The second half of KeepAlive, past its two early returns. *)
MoveToIdle(c) ==
    /\ IdleTimestampMS' = [IdleTimestampMS EXCEPT ![c] = Ticker]
    /\ IdleConnectionList' = GrabTail(IdleConnectionList, c)
    /\ ChallengeConnectionList' = RemoveFirst(ChallengeConnectionList, c)
    /\ KillConnectionList' = RemoveFirst(KillConnectionList, c)

(* Mutant of KeepAlive: no look at ChallengeReady. *)
KeepAliveUnchallenged(c) ==
    /\ c \in ConnectionIdManager \ Marked
    /\ MoveToIdle(c)
    /\ UNCHANGED <<ConnectionIdManager, Released, Marked, ChallengeReady, Ticker>>

KeepAlive(c) ==
    /\ c \in ConnectionIdManager
    /\ \/ /\ c \in Marked \/ c \notin ChallengeReady
          /\ UNCHANGED vars
       \/ /\ c \in ChallengeReady \ Marked
          /\ MoveToIdle(c)
          /\ UNCHANGED <<ConnectionIdManager, Released, Marked, ChallengeReady, Ticker>>

(* Mutant of AcceptChallenge: no look at FLAG_MARK_DELETE. *)
AcceptChallengeOfMarked(c) ==
    /\ c \in ConnectionIdManager
    /\ ChallengeReady' = ChallengeReady \union {c}
    /\ MoveToIdle(c)
    /\ UNCHANGED <<ConnectionIdManager, Released, Marked, Ticker>>

(* SetChallengeReady and the KeepAlive that follows it in OnProxyChallenge. *)
AcceptChallenge(c) ==
    /\ c \in ConnectionIdManager
    /\ ChallengeReady' = ChallengeReady \union {c}
    /\ \/ /\ c \in Marked
          /\ UNCHANGED <<IdleTimestampMS, lists>>
       \/ /\ c \notin Marked
          /\ MoveToIdle(c)
    /\ UNCHANGED <<ConnectionIdManager, Released, Marked, Ticker>>

(* Mutant of DeferReleaseConnection: marks, and leaves the node where it is. *)
MarkOnly(c) ==
    /\ c \in ConnectionIdManager
    /\ Marked' = Marked \union {c}
    /\ UNCHANGED <<ConnectionIdManager, Released, ChallengeReady, IdleTimestampMS,
                   lists, Ticker>>

DeferReleaseConnection(c) ==
    /\ c \in ConnectionIdManager
    /\ \/ /\ c \in Marked
          /\ UNCHANGED vars
       \/ /\ c \notin Marked
          /\ Marked' = Marked \union {c}
          /\ KillConnectionList' = GrabTail(KillConnectionList, c)
          /\ ChallengeConnectionList' = RemoveFirst(ChallengeConnectionList, c)
          /\ IdleConnectionList' = RemoveFirst(IdleConnectionList, c)
          /\ UNCHANGED <<ConnectionIdManager, Released, ChallengeReady,
                         IdleTimestampMS, Ticker>>

(* Stamped at or before t. *)
StampedBy(t) == {c \in Conn : IdleTimestampMS[c] <= t}

(* What leaves the head of the first two lists goes to KillConnectionList by
   DeferReleaseConnection, which ignores a marked connection; then all of
   KillConnectionList is destroyed. *)
Condemned ==
    ((ToSet(ChallengeConnectionList) \ ToSet(ChallengeConnectionList')) \ Marked)
        \union ((ToSet(IdleConnectionList) \ ToSet(IdleConnectionList')) \ Marked)
        \union ToSet(KillConnectionList)

(* DestroyConnection of every member of D; the object goes with its fields. *)
DestroyConnections(D) ==
    /\ ConnectionIdManager' = ConnectionIdManager \ D
    /\ Released' = Released \union D
    /\ Marked' = Marked \ D
    /\ ChallengeReady' = ChallengeReady \ D
    /\ IdleTimestampMS' = [c \in Conn |-> IF c \in D THEN 0 ELSE IdleTimestampMS[c]]

Tick(NowMS) ==
    /\ Ticker' = NowMS
    /\ ChallengeConnectionList' =
         PopHeadWhile(ChallengeConnectionList, StampedBy(NowMS - ChallengeTimeout))
    /\ IdleConnectionList' = PopHeadWhile(IdleConnectionList, StampedBy(NowMS - IdleTimeout))
    /\ KillConnectionList' = << >>
    /\ DestroyConnections(Condemned)

Next ==
    \/ \E c \in Conn : \/ CreateConnection(c)
                       \/ CreateConnectionFails(c)
                       \/ KeepAlive(c)
                       \/ AcceptChallenge(c)
                       \/ DeferReleaseConnection(c)
    \/ \E NowMS \in Ticker..MaxTime : Tick(NowMS)

Spec == Init /\ [][Next]_vars

-----------------------------------------------------------------------------

(* Every connection the id pool leads to is linked in exactly one list, once;
   KillConnectionList holds exactly the connections with FLAG_MARK_DELETE.  If
   a marked connection were in another list, its timeout would unlink it and
   DeferReleaseConnection would drop it: linked nowhere, it would never be
   destroyed. *)
EachInOneList ==
    /\ IsInjective(ChallengeConnectionList)
    /\ IsInjective(IdleConnectionList)
    /\ IsInjective(KillConnectionList)
    /\ ToSet(ChallengeConnectionList) \intersect ToSet(IdleConnectionList) = {}
    /\ ToSet(ChallengeConnectionList) \union ToSet(IdleConnectionList)
         = ConnectionIdManager \ Marked
    /\ ToSet(KillConnectionList) = Marked
    /\ Marked \subseteq ConnectionIdManager

(* The challenge decides the list: without it no packet gets a connection past
   the short timeout, with it the connection has the long one. *)
ChallengeDecidesList ==
    /\ ToSet(ChallengeConnectionList) \intersect ChallengeReady = {}
    /\ ToSet(IdleConnectionList) \subseteq ChallengeReady
    /\ ChallengeReady \subseteq ConnectionIdManager

(* An id that was given back leads to nothing, and no stamp is in the future. *)
StampsArePast ==
    /\ Released \intersect ConnectionIdManager = {}
    /\ \A c \in Conn : IdleTimestampMS[c] <= Ticker

(* PopHead looks at the head only, so both lists must be in stamp order. *)
ListsInStampOrder ==
    /\ SortedBy(ChallengeConnectionList, IdleTimestampMS)
    /\ SortedBy(IdleConnectionList, IdleTimestampMS)

(* No connection outlives its timeout: what Tick leaves in a list was stamped
   less than the timeout of the list ago. *)
NoOverdueSurvivor ==
    /\ \A c \in ToSet(ChallengeConnectionList) :
         IdleTimestampMS[c] + ChallengeTimeout > Ticker
    /\ \A c \in ToSet(IdleConnectionList) : IdleTimestampMS[c] + IdleTimeout > Ticker

(* The inductive invariant. *)
IInv ==
    /\ TypeOK
    /\ EachInOneList
    /\ ChallengeDecidesList
    /\ StampsArePast
    /\ ListsInStampOrder
    /\ NoOverdueSurvivor

(* What the lists stand for: stamp plus the timeout of the list. *)
Deadline ==
    [c \in Conn |->
        IF c \in ToSet(ChallengeConnectionList) THEN IdleTimestampMS[c] + ChallengeTimeout
        ELSE IF c \in ToSet(IdleConnectionList) THEN IdleTimestampMS[c] + IdleTimeout
        ELSE 0]

Reaper == INSTANCE ConnectionReaper WITH
    FirstTimeout <- ChallengeTimeout,
    LongTimeout <- IdleTimeout,
    active <- ConnectionIdManager \ Marked,
    doomed <- Marked,
    spent <- Released,
    deadline <- Deadline,
    now <- Ticker

(* The lists implement the reaper: one Tick destroys the released connections
   and those it times out itself, all of them and no other. *)
ReaperSpec == Reaper!Spec

=============================================================================
