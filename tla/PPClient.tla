------------------------------ MODULE PPClient ------------------------------
(***************************************************************************)
(* xPP_Client: keeps one connection to every server of a list that may     *)
(* change.  A connection object is in one list by its state (ready,        *)
(* connecting, to be reconnected, closing); while it is open it is also in *)
(* one of two keepalive lists, oldest stamp at the head.  The callbacks of *)
(* the io loop run one at a time, then Tick; the steps of Tick are actions *)
(* here because one of its loops may go on for ever.                       *)
(*                                                                         *)
(* The lists of connecting, reconnecting and closing nodes are only ever   *)
(* emptied as a whole: they are sets.                                      *)
(***************************************************************************)
EXTENDS XList

CONSTANTS
    Server,               \* addresses
    Connection,           \* memory for xPP_Connection objects
    ReconnectInterval,    \* 15'000 ms
    KeepAliveInterval,    \* 5'000 ms
    ResponseTimeout,      \* 90'000 ms
    StartTime,            \* clock when the client is made
    MaxTime,              \* bound on the clock
    None

ASSUME ClientAssumption ==
    /\ {ReconnectInterval, KeepAliveInterval, ResponseTimeout} \subseteq Nat \ {0}
    /\ {StartTime, MaxTime} \subseteq Nat /\ StartTime <= MaxTime
    /\ IsFiniteSet(Connection)
    /\ \A t \in {ReconnectInterval, KeepAliveInterval, ResponseTimeout} : t <= StartTime
    /\ None \notin Server

VARIABLES
    ServerAddresses,
    ServerAddress,              \* of each connection, None in free memory
    tcp,                        \* of each connection: "closed" until Init and
                                \* after Clean, "connecting", "open", "gone"
    ReadyClientNodeList,
    ConnectingNodeList,
    ReconnectClientNodeList,
    ClosingClientNodeList,
    ReadyClientKeepAliveNodeList,
    ReadyClientKeepAliveCheckingNodeList,
    LastKeepAliveTimestampMS,
    NowMS,
    LastReconnectTimestampMS,
    tick,                       \* the next step of Tick, or "idle" in the io loop
    Outlived                    \* connections that were closing when the
                                \* servers were last updated (history)

stateLists == <<ReadyClientNodeList, ConnectingNodeList, ReconnectClientNodeList,
                ClosingClientNodeList>>
keepAliveVars == <<ReadyClientKeepAliveNodeList, ReadyClientKeepAliveCheckingNodeList,
                   LastKeepAliveTimestampMS>>
serverVars == <<ServerAddresses, ServerAddress, Outlived>>
tickVars == <<NowMS, LastReconnectTimestampMS, tick>>
vars == <<serverVars, tcp, stateLists, keepAliveVars, tickVars>>

TypeOK ==
    /\ ServerAddresses \subseteq Server
    /\ ServerAddress \in [Connection -> Server \union {None}]
    /\ tcp \in [Connection -> {"closed", "connecting", "open", "gone"}]
    /\ ReadyClientNodeList \in Seq(Connection)
    /\ ConnectingNodeList \subseteq Connection
    /\ ReconnectClientNodeList \subseteq Connection
    /\ ClosingClientNodeList \subseteq Connection
    /\ ReadyClientKeepAliveNodeList \in Seq(Connection)
    /\ ReadyClientKeepAliveCheckingNodeList \in Seq(Connection)
    /\ LastKeepAliveTimestampMS \in [Connection -> {0} \union StartTime..NowMS]
    /\ NowMS \in StartTime..MaxTime
    /\ LastReconnectTimestampMS \in {0} \union StartTime..NowMS
    /\ tick \in {"idle", "timeouts", "keepalive"}
    /\ Outlived \subseteq Connection

(* Mutant of FirstNowMS: the clock is not read when the client is made. *)
NoNowMS == 0

FirstNowMS == StartTime

Init ==
    /\ ServerAddresses = {}
    /\ ServerAddress = [c \in Connection |-> None]
    /\ tcp = [c \in Connection |-> "closed"]
    /\ ReadyClientNodeList = << >>
    /\ ConnectingNodeList = {}
    /\ ReconnectClientNodeList = {}
    /\ ClosingClientNodeList = {}
    /\ ReadyClientKeepAliveNodeList = << >>
    /\ ReadyClientKeepAliveCheckingNodeList = << >>
    /\ LastKeepAliveTimestampMS = [c \in Connection |-> 0]
    /\ NowMS = FirstNowMS
    /\ LastReconnectTimestampMS = 0
    /\ tick = "idle"
    /\ Outlived = {}

(* Every connection object there is. *)
Allocated == {c \in Connection : ServerAddress[c] # None}

-----------------------------------------------------------------------------
(* UpdateServerAddresses. *)

(* Mutant of Survivors: an address that was found is not erased. *)
SurvivorsOfAny(S) == {c \in ToSet(ReadyClientNodeList) : ServerAddress[c] \in S}

(* The ready connections that stay: for each server in S the first of them, as
   its address is erased once it was found. *)
Survivors(S) ==
    {ReadyClientNodeList[i] : i \in
        {n \in DOMAIN ReadyClientNodeList :
            LET server == ServerAddress[ReadyClientNodeList[n]]
            IN  /\ server \in S
                /\ \A m \in 1..(n - 1) : ServerAddress[ReadyClientNodeList[m]] # server}}

(* S stands for the sorted input without its duplicates.  FreeConnection takes a
   node out of its lists.  Connections that are closing are not looked at. *)
UpdateServerAddresses(S) ==
    LET kept == Survivors(S)
        freed == (ToSet(ReadyClientNodeList) \ kept)
                   \union ConnectingNodeList \union ReconnectClientNodeList
        missing == S \ {ServerAddress[c] : c \in kept}
    IN  /\ tick = "idle"
        /\ \E new \in Injection(missing, (Connection \ Allocated) \union freed) :
             /\ ReconnectClientNodeList' = {new[s] : s \in missing}
             /\ ServerAddress' =
                  [c \in Connection |->
                     IF \E s \in missing : new[s] = c THEN CHOOSE s \in missing : new[s] = c
                     ELSE IF c \in freed THEN None ELSE ServerAddress[c]]
        /\ ServerAddresses' = S
        /\ tcp' = [c \in Connection |-> IF c \in freed THEN "closed" ELSE tcp[c]]
        /\ ReadyClientNodeList' = Without(ReadyClientNodeList, freed)
        /\ ConnectingNodeList' = {}
        /\ ReadyClientKeepAliveNodeList' = Without(ReadyClientKeepAliveNodeList, freed)
        /\ ReadyClientKeepAliveCheckingNodeList' =
             Without(ReadyClientKeepAliveCheckingNodeList, freed)
        /\ LastKeepAliveTimestampMS' =
             [c \in Connection |-> IF c \in freed THEN 0 ELSE LastKeepAliveTimestampMS[c]]
        /\ Outlived' = ClosingClientNodeList
        /\ UNCHANGED <<ClosingClientNodeList, tickVars>>

-----------------------------------------------------------------------------
(* Callbacks. *)

(* Mutant of AskedFirst: GrabTail for GrabHead. *)
AskedLast(c) == Append(ReadyClientKeepAliveNodeList, c)

AskedFirst(c) == <<c>> \o ReadyClientKeepAliveNodeList

(* A new connection is asked in the next Tick, so it goes to the head. *)
OnConnected(c) ==
    /\ tick = "idle"
    /\ tcp[c] = "connecting"
    /\ tcp' = [tcp EXCEPT ![c] = "open"]
    /\ ReadyClientNodeList' = GrabTail(ReadyClientNodeList, c)
    /\ ConnectingNodeList' = ConnectingNodeList \ {c}
    /\ LastKeepAliveTimestampMS' = [LastKeepAliveTimestampMS EXCEPT ![c] = 0]
    /\ ReadyClientKeepAliveNodeList' = AskedFirst(c)
    /\ UNCHANGED <<serverVars, ReconnectClientNodeList, ClosingClientNodeList,
                   ReadyClientKeepAliveCheckingNodeList, tickVars>>

(* Mutant of OnPeerClose: the connection is to be reconnected at once. *)
OnPeerCloseToReconnect(c) ==
    /\ tick = "idle"
    /\ tcp[c] \in {"connecting", "open"}
    /\ tcp' = [tcp EXCEPT ![c] = "gone"]
    /\ ReconnectClientNodeList' = ReconnectClientNodeList \union {c}
    /\ ReadyClientNodeList' = Without(ReadyClientNodeList, {c})
    /\ ConnectingNodeList' = ConnectingNodeList \ {c}
    /\ UNCHANGED <<serverVars, ClosingClientNodeList, keepAliveVars, tickVars>>

(* The peer closes, the attempt to connect fails, or OnData has returned
   InvalidDataSize.  No callback follows until the next Init. *)
OnPeerClose(c) ==
    /\ tick = "idle"
    /\ tcp[c] \in {"connecting", "open"}
    /\ tcp' = [tcp EXCEPT ![c] = "gone"]
    /\ ClosingClientNodeList' = ClosingClientNodeList \union {c}
    /\ ReadyClientNodeList' = Without(ReadyClientNodeList, {c})
    /\ ConnectingNodeList' = ConnectingNodeList \ {c}
    /\ UNCHANGED <<serverVars, ReconnectClientNodeList, keepAliveVars, tickVars>>

(* OnData with a keepalive response, or with anything that is one; other
   packets change nothing. *)
OnKeepAlive(c) ==
    /\ tick = "idle"
    /\ tcp[c] = "open"
    /\ LastKeepAliveTimestampMS' = [LastKeepAliveTimestampMS EXCEPT ![c] = NowMS]
    /\ ReadyClientKeepAliveNodeList' = GrabTail(ReadyClientKeepAliveNodeList, c)
    /\ ReadyClientKeepAliveCheckingNodeList' =
         Without(ReadyClientKeepAliveCheckingNodeList, {c})
    /\ UNCHANGED <<serverVars, tcp, stateLists, tickVars>>

(* The ready connections take turns. *)
PickConnection ==
    /\ tick = "idle"
    /\ ReadyClientNodeList # << >>
    /\ ReadyClientNodeList' = GrabTail(ReadyClientNodeList, Head(ReadyClientNodeList))
    /\ UNCHANGED <<serverVars, tcp, ConnectingNodeList, ReconnectClientNodeList,
                   ClosingClientNodeList, keepAliveVars, tickVars>>

-----------------------------------------------------------------------------
(* Tick. *)

(* Mutant of Unwatched: the keepalive nodes stay where they are. *)
StillWatched(l) == l

(* Remove, from keepalive list l, of every closing connection. *)
Unwatched(l) == Without(l, ClosingClientNodeList)

(* The closing connections leave all lists, to be reconnected; whether now is
   decided by the time. *)
TickBegins(t) ==
    /\ tick = "idle"
    /\ NowMS' = t
    /\ tcp' = [c \in Connection |-> IF c \in ClosingClientNodeList THEN "closed" ELSE tcp[c]]
    /\ ReadyClientKeepAliveNodeList' = Unwatched(ReadyClientKeepAliveNodeList)
    /\ ReadyClientKeepAliveCheckingNodeList' = Unwatched(ReadyClientKeepAliveCheckingNodeList)
    /\ ClosingClientNodeList' = {}
    /\ ReconnectClientNodeList' = ReconnectClientNodeList \union ClosingClientNodeList
    /\ tick' = IF t - LastReconnectTimestampMS < ReconnectInterval
                 THEN "keepalive" ELSE "timeouts"
    /\ UNCHANGED <<serverVars, ReadyClientNodeList, ConnectingNodeList,
                   LastKeepAliveTimestampMS, LastReconnectTimestampMS>>

(* One round of the loop over ConnectingNodeList: a node is popped, closed, and
   put at the tail of the same list. *)
CleanTimeoutConnection ==
    /\ tick = "timeouts"
    /\ \E c \in ConnectingNodeList :
         /\ tcp' = [tcp EXCEPT ![c] = "closed"]
         /\ ConnectingNodeList' = (ConnectingNodeList \ {c}) \union {c}
    /\ UNCHANGED <<serverVars, ReadyClientNodeList, ReconnectClientNodeList,
                   ClosingClientNodeList, keepAliveVars, tickVars>>

(* Init fails only with an abort of the program (RuntimeAssert). *)
Reconnect ==
    /\ tick = "timeouts"
    /\ ConnectingNodeList = {}
    /\ tcp' = [c \in Connection |->
                 IF c \in ReconnectClientNodeList THEN "connecting" ELSE tcp[c]]
    /\ ConnectingNodeList' = ReconnectClientNodeList
    /\ ReconnectClientNodeList' = {}
    /\ LastReconnectTimestampMS' = NowMS
    /\ tick' = "keepalive"
    /\ UNCHANGED <<serverVars, ReadyClientNodeList, ClosingClientNodeList,
                   keepAliveVars, NowMS>>

StampedBy(t) == {c \in Connection : LastKeepAliveTimestampMS[c] <= t}

(* Who was silent for the interval is asked; who was asked and did not answer
   in time is closed and will be reconnected. *)
KeepAlive ==
    LET resting == PopHeadWhile(ReadyClientKeepAliveNodeList,
                                StampedBy(NowMS - KeepAliveInterval))
        asked == SubSeq(ReadyClientKeepAliveNodeList, 1,
                        Len(ReadyClientKeepAliveNodeList) - Len(resting))
        waiting == PopHeadWhile(ReadyClientKeepAliveCheckingNodeList,
                                StampedBy(NowMS - ResponseTimeout))
        lost == ToSet(ReadyClientKeepAliveCheckingNodeList) \ ToSet(waiting)
    IN  /\ tick = "keepalive"
        /\ ReadyClientKeepAliveNodeList' = resting
        /\ ReadyClientKeepAliveCheckingNodeList' = waiting \o asked
        /\ LastKeepAliveTimestampMS' =
             [c \in Connection |->
                IF c \in ToSet(asked) THEN NowMS ELSE LastKeepAliveTimestampMS[c]]
        /\ tcp' = [c \in Connection |-> IF c \in lost THEN "closed" ELSE tcp[c]]
        /\ ReadyClientNodeList' = Without(ReadyClientNodeList, lost)
        /\ ReconnectClientNodeList' = ReconnectClientNodeList \union lost
        /\ tick' = "idle"
        /\ UNCHANGED <<serverVars, ConnectingNodeList, ClosingClientNodeList,
                       NowMS, LastReconnectTimestampMS>>

TickStep == CleanTimeoutConnection \/ Reconnect \/ KeepAlive

Next ==
    \/ \E S \in SUBSET Server : UpdateServerAddresses(S)
    \/ \E c \in Connection : OnConnected(c) \/ OnPeerClose(c) \/ OnKeepAlive(c)
    \/ PickConnection
    \/ \E t \in NowMS..MaxTime : TickBegins(t)
    \/ TickStep

Spec == Init /\ [][Next]_vars

(* Nothing interrupts Tick. *)
FairSpec == Spec /\ WF_vars(TickStep)

-----------------------------------------------------------------------------

(* A configured server has exactly one connection and nothing is connected to
   any other, whatever closes, times out or reconnects between two updates.
   Only a connection that was closing during the update is not accounted for. *)
OneConnectionPerServer ==
    LET current == Allocated \ Outlived
    IN  /\ {ServerAddress[c] : c \in current} = ServerAddresses
        /\ \A c, d \in current : ServerAddress[c] = ServerAddress[d] => c = d

(* A connection is where its state says: in one list, by what has become of it,
   so that a reconnection never drops an open one or forgets a closed one. *)
ListTellsState ==
    /\ IsInjective(ReadyClientNodeList)
    /\ Cardinality(Allocated) =
         Len(ReadyClientNodeList) + Cardinality(ConnectingNodeList)
           + Cardinality(ReconnectClientNodeList) + Cardinality(ClosingClientNodeList)
    /\ \A c \in Allocated :
         \/ c \in ToSet(ReadyClientNodeList) /\ tcp[c] = "open"
         \/ c \in ConnectingNodeList /\ (tcp[c] = "connecting" \/ tick = "timeouts")
         \/ c \in ReconnectClientNodeList /\ tcp[c] = "closed"
         \/ c \in ClosingClientNodeList /\ tcp[c] = "gone"

(* Every connection that can be picked is watched, once, by one of the keepalive
   lists; a node that lingers there after its connection was closed would have
   a request posted through it, or be put among those to reconnect twice. *)
ReadyIsWatched ==
    LET watched == ReadyClientKeepAliveNodeList \o ReadyClientKeepAliveCheckingNodeList
    IN  /\ IsInjective(watched)
        /\ ToSet(ReadyClientNodeList) \subseteq ToSet(watched)
        /\ ToSet(watched) \subseteq ToSet(ReadyClientNodeList) \union ClosingClientNodeList

(* When Tick returns nobody has been silent for the interval without having been
   asked, a connection that was just made included, and nobody has owed an
   answer for the timeout. *)
NobodyGoesUnasked ==
    [][ tick = "keepalive" =>
          /\ \A c \in ToSet(ReadyClientKeepAliveNodeList)' :
               LastKeepAliveTimestampMS'[c] + KeepAliveInterval > NowMS
          /\ \A c \in ToSet(ReadyClientKeepAliveCheckingNodeList)' :
               LastKeepAliveTimestampMS'[c] + ResponseTimeout > NowMS ]_vars

-----------------------------------------------------------------------------
(* What the properties above rest on. *)

(* A connection is in the one list of its state, and in none while it is free
   memory. *)
StateListsPartition ==
    LET ready == ToSet(ReadyClientNodeList)
    IN  /\ IsInjective(ReadyClientNodeList)
        /\ ready \union ConnectingNodeList \union ReconnectClientNodeList
             \union ClosingClientNodeList = Allocated
        /\ ready \intersect (ConnectingNodeList \union ReconnectClientNodeList
                             \union ClosingClientNodeList) = {}
        /\ ConnectingNodeList
             \intersect (ReconnectClientNodeList \union ClosingClientNodeList) = {}
        /\ ReconnectClientNodeList \intersect ClosingClientNodeList = {}

(* What the io loop knows of a connection agrees with its list. *)
StateOfList ==
    \A c \in Connection :
      /\ c \in ToSet(ReadyClientNodeList) => tcp[c] = "open"
      /\ c \in ConnectingNodeList => tcp[c] = "connecting" \/ tick = "timeouts"
      /\ c \in ReconnectClientNodeList => tcp[c] = "closed"
      /\ c \in ClosingClientNodeList => tcp[c] = "gone"
      /\ c \notin Allocated => tcp[c] = "closed"

(* Inside Tick nothing is closing any more. *)
ClosingIsEmptied == tick # "idle" => ClosingClientNodeList = {}

(* ReadyIsWatched by its parts. *)
WatchedOnce ==
    LET asleep == ToSet(ReadyClientKeepAliveNodeList)
        asked == ToSet(ReadyClientKeepAliveCheckingNodeList)
    IN  /\ IsInjective(ReadyClientKeepAliveNodeList)
        /\ IsInjective(ReadyClientKeepAliveCheckingNodeList)
        /\ asleep \intersect asked = {}
        /\ ToSet(ReadyClientNodeList) \subseteq asleep \union asked
        /\ asleep \union asked \subseteq
             ToSet(ReadyClientNodeList) \union ClosingClientNodeList

(* The keepalive lists are read from the head, so they are in stamp order. *)
StampOrder ==
    /\ SortedBy(ReadyClientKeepAliveNodeList, LastKeepAliveTimestampMS)
    /\ SortedBy(ReadyClientKeepAliveCheckingNodeList, LastKeepAliveTimestampMS)

IInv ==
    /\ TypeOK
    /\ StateListsPartition
    /\ StateOfList
    /\ ClosingIsEmptied
    /\ WatchedOnce
    /\ StampOrder
    /\ OneConnectionPerServer

-----------------------------------------------------------------------------
(* The loop over ConnectingNodeList is there to "clean timeout connections"
   (client.cpp:106) and then reconnect: Tick gets past it. *)
TickEnds == tick = "timeouts" ~> tick = "idle"

=============================================================================
